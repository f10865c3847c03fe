----------------------------- MODULE Boot_proofs -----------------------------
(***************************************************************************)
(* Proofs about the boot's hardware: the list of the PCI devices, the      *)
(* network interfaces and the USB controller, for every size of the buses  *)
(* and tables, every limit of the polling loops and everything the         *)
(* hardware may answer.                                                    *)
(***************************************************************************)
EXTENDS Boot, Induction, FiniteSetTheorems, SequenceTheorems

-----------------------------------------------------------------------------
(* The USB controller *)

\* The reset that was over when PollReset looked is still over when Start
\* runs: of what the controller may do meanwhile, nothing sets the two bits.
\* The probe's answer is drawn from what it recorded.
UsbInv ==
    /\ pc = "run" => Usb!ResetOver
    /\ pc # "done" => ~running
    /\ pc = "done" => result = IF reset_ok /\ running THEN "running" ELSE "absent"
    /\ pc \in {"run", "starting"} => reset_ok

LEMMA UsbStep ==
    ASSUME UsbInv, Usb!Next
    PROVE  UsbInv' /\ (Usb!Starts => Usb!ResetOver)
<1>1. CASE Usb!Stop
  BY <1>1 DEF Usb!Stop, Usb!Goto, Usb!Starts, UsbInv, Usb!ResetOver
<1>2. CASE Usb!PollHalted
  BY <1>2 DEF Usb!PollHalted, Usb!Goto, Usb!Again, Usb!device, Usb!Starts,
              UsbInv, Usb!ResetOver
<1>3. CASE Usb!Reset
  BY <1>3 DEF Usb!Reset, Usb!Goto, Usb!Starts, UsbInv, Usb!ResetOver
<1>4. CASE Usb!PollReset
  BY <1>4 DEF Usb!PollReset, Usb!Goto, Usb!Again, Usb!ResetDone, Usb!device,
              Usb!Starts, UsbInv, Usb!ResetOver
<1>5. CASE Usb!Start
  BY <1>5 DEF Usb!Start, Usb!Goto, Usb!Starts, UsbInv, Usb!ResetOver
<1>6. CASE Usb!PollRunning
  BY <1>6 DEF Usb!PollRunning, Usb!Goto, Usb!Again, Usb!device, Usb!Starts,
              UsbInv, Usb!ResetOver
<1>7. CASE Usb!Controller
  BY <1>7 DEF Usb!Controller, Usb!Halt, Usb!Leave, Usb!EndReset, Usb!Ready,
              Usb!code, Usb!Starts, UsbInv, Usb!ResetOver
<1>8. CASE pc = "done" /\ UNCHANGED Usb!vars
  BY <1>8 DEF Usb!vars, Usb!code, Usb!device, Usb!Starts, UsbInv, Usb!ResetOver
<1> QED
  BY <1>1, <1>2, <1>3, <1>4, <1>5, <1>6, <1>7, <1>8 DEF Usb!Next, Usb!Probe

LEMMA BootUsbStep ==
    ASSUME UsbInv, [BootNext]_boot_vars
    PROVE  UsbInv' /\ [Usb!Starts => Usb!ResetOver]_boot_vars
<1>1. CASE UNCHANGED usb
  BY <1>1 DEF usb, UsbInv, Usb!ResetOver, Usb!Starts
<1>2. CASE Usb!Next
  BY <1>2, UsbStep
<1>3. BootNext => Usb!Next \/ UNCHANGED usb
  BY DEF BootNext, Enumerate, ProbeCards, UsbProbe, UsbController, Usb!Next
<1> QED
  BY <1>1, <1>2, <1>3 DEF boot_vars

LEMMA UsbInvariant == BootSpec => []UsbInv
<1>1. BootInit => UsbInv
  BY DEF BootInit, Usb!Init, UsbInv
<1>2. UsbInv /\ [BootNext]_boot_vars => UsbInv'
  BY BootUsbStep
<1> QED
  BY <1>1, <1>2, PTL DEF BootSpec

\* Whatever the controller did while the processor looked away, it is told to
\* run only when its reset is over and it is ready.
THEOREM RunsOnlyWhenReset == BootSpec => RunsWhenReset
<1>1. BootSpec => []UsbInv
  BY UsbInvariant
<1>2. UsbInv /\ [BootNext]_boot_vars
        => [Usb!Starts => Usb!ResetOver]_boot_vars
  BY BootUsbStep
<1> QED
  BY <1>1, <1>2, PTL DEF RunsWhenReset, BootSpec

\* The answer the probe ends with agrees with what it recorded.
UsbAnswer ==
    pc = "done" => result = IF reset_ok /\ running THEN "running" ELSE "absent"

\* However the probe of the controller ends, its answer agrees with what it
\* recorded of the controller.
THEOREM UsbAnswerAgrees == BootSpec => []UsbAnswer
<1>1. UsbInv => UsbAnswer
  BY DEF UsbInv, UsbAnswer
<1> QED
  BY <1>1, UsbInvariant, PTL

\* How many steps the probe can still take: the passes its loop has left, and
\* one step and all the passes of each loop that follows.
PassesLeft ==
    CASE pc = "start" -> HaltPolls + ResetPolls + RunPolls + 6
      [] pc = "halting" -> HaltPolls - polls + ResetPolls + RunPolls + 5
      [] pc = "reset" -> ResetPolls + RunPolls + 4
      [] pc = "resetting" -> ResetPolls - polls + RunPolls + 3
      [] pc = "run" -> RunPolls + 2
      [] pc = "starting" -> RunPolls - polls + 1
      [] OTHER -> 0

\* No loop counts past its limit, and only loops count.
PollsBounded ==
    /\ pc \in {"start", "halting", "reset", "resetting", "run", "starting", "done"}
    /\ polls \in Nat
    /\ pc = "halting" => polls <= HaltPolls
    /\ pc = "resetting" => polls <= ResetPolls
    /\ pc = "starting" => polls <= RunPolls
    /\ pc \in {"start", "reset", "run", "done"} => polls = 0

ProbeAdvances == IF UsbProbe THEN PassesLeft' < PassesLeft
                 ELSE PassesLeft' = PassesLeft

LEMMA ProbeStep ==
    ASSUME PollsBounded, Usb!Probe
    PROVE  PollsBounded' /\ PassesLeft' < PassesLeft
<1>1. HaltPolls \in Nat /\ ResetPolls \in Nat /\ RunPolls \in Nat /\ polls \in Nat
  BY BootAssumption DEF PollsBounded
<1>2. CASE Usb!Stop
  <2>1. pc = "start" /\ pc' = "halting" /\ polls' = 0
    BY <1>2 DEF Usb!Stop, Usb!Goto
  <2> QED
    BY <1>1, <2>1 DEF PollsBounded, PassesLeft
<1>3. CASE Usb!PollHalted
  <2>1. /\ pc = "halting"
        /\ \/ pc' = "reset" /\ polls' = 0
           \/ pc' = pc /\ polls' = polls + 1 /\ ~(polls >= HaltPolls)
    BY <1>3 DEF Usb!PollHalted, Usb!Goto, Usb!Again
  <2> QED
    BY <1>1, <2>1 DEF PollsBounded, PassesLeft
<1>4. CASE Usb!Reset
  <2>1. pc = "reset" /\ pc' = "resetting" /\ polls' = 0
    BY <1>4 DEF Usb!Reset, Usb!Goto
  <2> QED
    BY <1>1, <2>1 DEF PollsBounded, PassesLeft
<1>5. CASE Usb!PollReset
  <2>1. /\ pc = "resetting"
        /\ \/ pc' \in {"run", "done"} /\ polls' = 0
           \/ pc' = pc /\ polls' = polls + 1 /\ polls < ResetPolls
    BY <1>5 DEF Usb!PollReset, Usb!Goto, Usb!Again
  <2> QED
    BY <1>1, <2>1 DEF PollsBounded, PassesLeft
<1>6. CASE Usb!Start
  <2>1. pc = "run" /\ pc' = "starting" /\ polls' = 0
    BY <1>6 DEF Usb!Start, Usb!Goto
  <2> QED
    BY <1>1, <2>1 DEF PollsBounded, PassesLeft
<1>7. CASE Usb!PollRunning
  <2>1. /\ pc = "starting"
        /\ \/ pc' = "done" /\ polls' = 0
           \/ pc' = pc /\ polls' = polls + 1 /\ polls < RunPolls
    BY <1>7 DEF Usb!PollRunning, Usb!Goto, Usb!Again
  <2> QED
    BY <1>1, <2>1 DEF PollsBounded, PassesLeft
<1> QED
  BY <1>2, <1>3, <1>4, <1>5, <1>6, <1>7 DEF Usb!Probe

\* The boot waits for the controller a bounded time, whatever the controller
\* does: each step of the probe takes one off the steps it has left, and no
\* other step gives it one.  It is the half of ProbeEnds that fairness turns
\* into an end.
THEOREM ProbeIsBounded ==
    BootSpec => [](PassesLeft \in Nat) /\ [][ProbeAdvances]_boot_vars
<1>1. BootInit => PollsBounded
  BY DEF BootInit, Usb!Init, PollsBounded
<1>2. ASSUME PollsBounded, [BootNext]_boot_vars
      PROVE  PollsBounded' /\ [ProbeAdvances]_boot_vars
  <2>1. CASE UsbProbe
    BY <1>2, <2>1, ProbeStep DEF UsbProbe, ProbeAdvances
  <2>2. CASE ~UsbProbe
    <3>1. pc' = pc /\ polls' = polls
      BY <1>2, <2>2 DEF BootNext, Enumerate, ProbeCards, UsbController, Usb!Controller,
                        Usb!code, usb, boot_vars
    <3> QED
      BY <1>2, <2>2, <3>1 DEF PollsBounded, PassesLeft, ProbeAdvances
  <2> QED
    BY <2>1, <2>2
<1>3. PollsBounded => PassesLeft \in Nat
  <2> SUFFICES ASSUME PollsBounded PROVE PassesLeft \in Nat
    OBVIOUS
  <2>1. HaltPolls \in Nat /\ ResetPolls \in Nat /\ RunPolls \in Nat
    BY BootAssumption
  <2> QED
    BY <2>1 DEF PollsBounded, PassesLeft
<1> QED
  BY <1>1, <1>2, <1>3, PTL DEF BootSpec

-----------------------------------------------------------------------------
(* The enumeration *)

BusSize == BusSlots * Functions
Machines == [BusPlaces -> Device \cup {Bus!Absent}]

LEMMA Sizes ==
    /\ BusSlots \in Nat \ {0} /\ Functions \in Nat \ {0} /\ MaxDevices \in Nat
    /\ BusSize \in Nat
    /\ Len(Bus!Places) = BusSize
    /\ \A n \in 1..BusSize : Bus!Places[n] = n - 1
<1>1. BusSlots \in Nat \ {0} /\ Functions \in Nat \ {0} /\ MaxDevices \in Nat
  BY BootAssumption, NetworkAssumption
<1>2. BusSize \in Nat
  BY <1>1 DEF BusSize
<1> QED
  BY <1>1, <1>2 DEF Bus!Places, BusSize

\* The first place of a slot is the one where its function 0 is.
LEMMA SlotStarts ==
    ASSUME NEW p \in Nat
    PROVE  /\ Bus!SlotOf(p) \in Nat
           /\ Bus!SlotOf(p) * Functions \in 0..p
           /\ Bus!IsFunction0(p) => Bus!SlotOf(p) * Functions = p
<1>1. Functions \in Nat \ {0}
  BY Sizes
<1>2. p \div Functions \in Nat /\ p % Functions \in 0..(Functions - 1)
      /\ p = Functions * (p \div Functions) + (p % Functions)
  BY <1>1
<1> QED
  BY <1>1, <1>2 DEF Bus!SlotOf, Bus!IsFunction0

LEMMA SlotGoesOn ==
    ASSUME NEW p \in Nat
    PROVE  IF Bus!IsFunction0(p + 1) THEN Bus!SlotOf(p + 1) = Bus!SlotOf(p) + 1
           ELSE Bus!SlotOf(p + 1) = Bus!SlotOf(p)
<1>1. Functions \in Nat \ {0}
  BY Sizes
<1>2. p \div Functions \in Nat /\ p % Functions \in 0..(Functions - 1)
      /\ p = Functions * (p \div Functions) + (p % Functions)
  BY <1>1
<1>3. (p + 1) \div Functions \in Nat /\ (p + 1) % Functions \in 0..(Functions - 1)
      /\ p + 1 = Functions * ((p + 1) \div Functions) + ((p + 1) % Functions)
  BY <1>1
<1> QED
  BY <1>1, <1>2, <1>3 DEF Bus!SlotOf, Bus!IsFunction0

\* The answering places before the first n ones, and how many of them there is
\* room for.
Before(b, n) == {p \in Bus!Answering(b) : p < n}
Room(n) == IF n > MaxDevices THEN MaxDevices ELSE n

\* What enumerate() has after n turns of its innermost loop: the devices of the
\* answering places so far, in their order; and, unless the table is full, the
\* slot it is in is given up exactly when its function 0 does not answer.
Gathered(b, n, list) ==
    /\ list \in Seq(Device)
    /\ Len(list) = Room(Cardinality(Before(b, n)))
    /\ \A i \in 1..Len(list) : \E p \in Before(b, n) :
         Bus!Rank(Bus!Answering(b), p) = i - 1 /\ list[i] = b[p]

GivenUp(b, n, skipped) ==
    IF n = 0 THEN skipped = {}
    ELSE /\ skipped = {} \/ \E t \in 0..Bus!SlotOf(n - 1) : skipped = {t}
         /\ skipped = {Bus!SlotOf(n - 1)}
              <=> b[Bus!SlotOf(n - 1) * Functions] = Bus!Absent

AfterTurns(b, n, found) ==
    /\ found \in [devices : Seq(Device), skipped : SUBSET Nat]
    /\ Gathered(b, n, found.devices)
    /\ Len(found.devices) < MaxDevices => GivenUp(b, n, found.skipped)

\* The rank of a place is the number of places before it.
LEMMA RankCounts ==
    \A S, p : Bus!Rank(S, p) = Cardinality({q \in S : q < p})
BY DEF Bus!Rank, Bus!Cardinality, Cardinality, Bus!IsFiniteSet, IsFiniteSet

LEMMA BeforeCounted ==
    ASSUME NEW b, NEW n \in Nat
    PROVE  /\ IsFiniteSet(Before(b, n)) /\ Cardinality(Before(b, n)) \in Nat
           /\ n \in Bus!Answering(b) =>
                /\ Before(b, n + 1) = Before(b, n) \cup {n}
                /\ Cardinality(Before(b, n + 1)) = Cardinality(Before(b, n)) + 1
           /\ n \notin Bus!Answering(b) => Before(b, n + 1) = Before(b, n)
<1>1. Bus!Answering(b) \subseteq Nat
  BY Sizes DEF Bus!Answering, BusSize
<1>2. Before(b, n) \subseteq 0..(n - 1)
  BY <1>1 DEF Before
<1>3. IsFiniteSet(0..(n - 1))
  BY FS_Interval
<1>4. IsFiniteSet(Before(b, n)) /\ Cardinality(Before(b, n)) \in Nat
  BY <1>2, <1>3, FS_Subset, FS_CardinalityType
<1>5. n \notin Before(b, n)
  BY DEF Before
<1>6. \A p \in Nat : p < n + 1 <=> p < n \/ p = n
  OBVIOUS
<1>7. n \in Bus!Answering(b) => Before(b, n + 1) = Before(b, n) \cup {n}
  BY <1>1, <1>6 DEF Before
<1>8. n \notin Bus!Answering(b) => Before(b, n + 1) = Before(b, n)
  BY <1>1, <1>6 DEF Before
<1> QED
  BY <1>4, <1>5, <1>7, <1>8, FS_AddElement

\* A device that is read goes to the end of the list, and its place has the
\* rank it gets there.
LEMMA GatherOne ==
    ASSUME NEW b \in Machines, NEW n \in 0..(BusSize - 1), NEW list,
           Gathered(b, n, list)
    PROVE  /\ n \notin Bus!Answering(b) => Gathered(b, n + 1, list)
           /\ Len(list) >= MaxDevices => Gathered(b, n + 1, list)
           /\ n \in Bus!Answering(b) /\ Len(list) < MaxDevices =>
                Gathered(b, n + 1, Append(list, b[n]))
<1>1. n \in Nat /\ MaxDevices \in Nat /\ BusSize \in Nat
  BY Sizes
<1>2. /\ IsFiniteSet(Before(b, n)) /\ Cardinality(Before(b, n)) \in Nat
      /\ n \in Bus!Answering(b) =>
           /\ Before(b, n + 1) = Before(b, n) \cup {n}
           /\ Cardinality(Before(b, n + 1)) = Cardinality(Before(b, n)) + 1
      /\ n \notin Bus!Answering(b) => Before(b, n + 1) = Before(b, n)
  BY <1>1, BeforeCounted
<1>3. list \in Seq(Device) /\ Len(list) \in Nat
  BY DEF Gathered
<1>4. CASE n \notin Bus!Answering(b)
  BY <1>2, <1>4 DEF Gathered
<1>5. CASE n \in Bus!Answering(b) /\ Len(list) >= MaxDevices
  <2>1. Len(list) = Room(Cardinality(Before(b, n + 1)))
    BY <1>1, <1>2, <1>5 DEF Gathered, Room
  <2>2. \A p \in Before(b, n) : p \in Before(b, n + 1)
    BY <1>2, <1>5
  <2>3. Gathered(b, n + 1, list)
    BY <2>1, <2>2 DEF Gathered
  <2> QED
    BY <1>1, <1>3, <1>5, <2>3
<1>6. CASE n \in Bus!Answering(b) /\ Len(list) < MaxDevices
  <2> DEFINE longer == Append(list, b[n])
  <2>1. b[n] \in Device
    <3>1. n \in BusPlaces
      BY <1>1 DEF BusPlaces, BusSize
    <3> QED
      BY <1>6, <3>1 DEF Machines, Bus!Answering
  <2>2. /\ longer \in Seq(Device) /\ Len(longer) = Len(list) + 1
        /\ \A i \in 1..Len(list) : longer[i] = list[i]
        /\ longer[Len(list) + 1] = b[n]
    BY <1>3, <2>1, AppendProperties
  <2> HIDE DEF longer
  <2>3. Len(list) = Cardinality(Before(b, n))
    BY <1>1, <1>2, <1>6 DEF Gathered, Room
  <2>4. Len(longer) = Room(Cardinality(Before(b, n + 1)))
    BY <1>1, <1>2, <1>3, <1>6, <2>2, <2>3 DEF Room
  <2>5. Bus!Rank(Bus!Answering(b), n) = Len(list)
    <3>1. Before(b, n) = {q \in Bus!Answering(b) : q < n}
      BY DEF Before
    <3> QED
      BY <2>3, <3>1, RankCounts
  <2>6. \A i \in 1..Len(longer) : \E p \in Before(b, n + 1) :
          Bus!Rank(Bus!Answering(b), p) = i - 1 /\ longer[i] = b[p]
    <3> SUFFICES ASSUME NEW i \in 1..Len(longer)
                 PROVE  \E p \in Before(b, n + 1) :
                          Bus!Rank(Bus!Answering(b), p) = i - 1 /\ longer[i] = b[p]
      OBVIOUS
    <3>1. CASE i \in 1..Len(list)
      <4>1. PICK p \in Before(b, n) :
              Bus!Rank(Bus!Answering(b), p) = i - 1 /\ list[i] = b[p]
        BY <3>1 DEF Gathered
      <4> QED
        BY <1>2, <1>6, <2>2, <3>1, <4>1
    <3>2. CASE i = Len(list) + 1
      BY <1>2, <1>3, <1>6, <2>2, <2>5, <3>2
    <3> QED
      BY <1>3, <2>2, <3>1, <3>2
  <2>7. Gathered(b, n + 1, longer)
    BY <2>2, <2>4, <2>6 DEF Gathered
  <2>8. Gathered(b, n + 1, Append(list, b[n]))
    BY <2>7 DEF longer
  <2> QED
    BY <1>1, <1>3, <1>6, <2>8
<1> QED
  BY <1>1, <1>3, <1>4, <1>5, <1>6

\* A slot whose function 0 is missing stays given up until the next slot; a
\* later missing function changes nothing.
LEMMA SkippedSays ==
    ASSUME NEW b, NEW n \in Nat, NEW skipped, GivenUp(b, n, skipped)
    PROVE  /\ skipped = {} \/ \E t \in 0..Bus!SlotOf(n) : skipped = {t}
           /\ ~Bus!IsFunction0(n) =>
                (skipped = {Bus!SlotOf(n)}
                   <=> b[Bus!SlotOf(n) * Functions] = Bus!Absent)
           /\ Bus!IsFunction0(n) => skipped # {Bus!SlotOf(n)}
<1>1. Bus!SlotOf(n) \in Nat
  BY SlotStarts
<1>2. CASE n = 0
  <2>1. Bus!IsFunction0(n)
    BY <1>2, Sizes DEF Bus!IsFunction0
  <2> QED
    BY <1>1, <1>2, <2>1 DEF GivenUp
<1>3. CASE n # 0
  <2> DEFINE m == n - 1
  <2>1. m \in Nat /\ n = m + 1
    BY <1>3
  <2>2. Bus!SlotOf(m) \in Nat
    BY <2>1, SlotStarts
  <2>3. IF Bus!IsFunction0(n) THEN Bus!SlotOf(n) = Bus!SlotOf(m) + 1
        ELSE Bus!SlotOf(n) = Bus!SlotOf(m)
    BY <2>1, SlotGoesOn
  <2>4. /\ skipped = {} \/ \E t \in 0..Bus!SlotOf(m) : skipped = {t}
        /\ skipped = {Bus!SlotOf(m)}
             <=> b[Bus!SlotOf(m) * Functions] = Bus!Absent
    BY <1>3 DEF GivenUp
  <2> HIDE DEF m
  <2> QED
    BY <1>1, <2>2, <2>3, <2>4
<1> QED
  BY <1>2, <1>3

LEMMA NoTurnYet == \A b : AfterTurns(b, 0, [devices |-> <<>>, skipped |-> {}])
<1> TAKE b
<1>1. Before(b, 0) = {}
  BY Sizes DEF Before, Bus!Answering, BusSize
<1>2. Cardinality(Before(b, 0)) = 0
  BY <1>1, FS_EmptySet
<1>3. Gathered(b, 0, <<>>)
  BY <1>2, Sizes DEF Gathered, Room
<1> QED
  BY <1>3 DEF AfterTurns, GivenUp

LEMMA TurnTaken ==
    ASSUME NEW b \in Machines, NEW n \in 0..(BusSize - 1), NEW found,
           AfterTurns(b, n, found)
    PROVE  AfterTurns(b, n + 1, Bus!Read(b, found, n))
<1> DEFINE list == found.devices
           slot == Bus!SlotOf(n)
           zero == b[slot * Functions]
<1>1. n \in Nat /\ MaxDevices \in Nat
  BY Sizes
<1>2. /\ found \in [devices : Seq(Device), skipped : SUBSET Nat]
      /\ list \in Seq(Device) /\ Len(list) \in Nat
      /\ Gathered(b, n, list)
  BY DEF AfterTurns
<1>3. slot \in Nat /\ (Bus!IsFunction0(n) => slot * Functions = n)
  BY <1>1, SlotStarts
<1>4. Len(list) < MaxDevices =>
        /\ found.skipped = {} \/ \E t \in 0..slot : found.skipped = {t}
        /\ ~Bus!IsFunction0(n) => (found.skipped = {slot} <=> zero = Bus!Absent)
        /\ Bus!IsFunction0(n) => found.skipped # {slot}
  BY <1>1, SkippedSays DEF AfterTurns
<1>5. /\ n \notin Bus!Answering(b) => Gathered(b, n + 1, list)
      /\ Len(list) >= MaxDevices => Gathered(b, n + 1, list)
      /\ n \in Bus!Answering(b) /\ Len(list) < MaxDevices =>
           Gathered(b, n + 1, Append(list, b[n]))
  BY <1>2, GatherOne
<1>6. n \in Bus!Answering(b) <=> b[n] # Bus!Absent /\ zero # Bus!Absent
  BY DEF Bus!Answering, BusSize
<1>7. ASSUME NEW skipped,
             skipped = {} \/ \E t \in 0..slot : skipped = {t},
             skipped = {slot} <=> zero = Bus!Absent
      PROVE  GivenUp(b, n + 1, skipped)
  <2>1. n + 1 # 0 /\ (n + 1) - 1 = n
    BY <1>1
  <2> QED
    BY <1>7, <2>1 DEF GivenUp
<1> HIDE DEF slot, zero
<1>8. CASE Len(list) >= MaxDevices
  <2>1. Bus!Read(b, found, n) = found
    BY <1>8 DEF Bus!Read
  <2> QED
    BY <1>1, <1>2, <1>5, <1>8, <2>1 DEF AfterTurns
<1>9. CASE Len(list) < MaxDevices /\ found.skipped = {slot}
  <2>1. Bus!Read(b, found, n) = found
    BY <1>9 DEF Bus!Read, slot
  <2>2. zero = Bus!Absent
    BY <1>4, <1>9
  <2>3. Gathered(b, n + 1, list)
    BY <1>5, <1>6, <2>2
  <2>4. GivenUp(b, n + 1, found.skipped)
    BY <1>4, <1>7, <1>9, <2>2
  <2> QED
    BY <1>2, <2>1, <2>3, <2>4 DEF AfterTurns
<1>10. CASE /\ Len(list) < MaxDevices /\ found.skipped # {slot}
            /\ b[n] # Bus!Absent
  <2> DEFINE longer == Append(list, b[n])
             then == [found EXCEPT !.devices = longer]
  <2>1. Bus!Read(b, found, n) = then
    BY <1>1, <1>2, <1>10 DEF Bus!Read, slot
  <2>2. zero # Bus!Absent
    BY <1>3, <1>4, <1>10 DEF zero
  <2>3. Gathered(b, n + 1, longer)
    BY <1>5, <1>6, <1>10, <2>2
  <2>4. GivenUp(b, n + 1, found.skipped)
    BY <1>4, <1>7, <1>10, <2>2
  <2>5. longer \in Seq(Device)
    BY <2>3 DEF Gathered
  <2> HIDE DEF longer
  <2>6. then \in [devices : Seq(Device), skipped : SUBSET Nat]
        /\ then.devices = longer /\ then.skipped = found.skipped
    BY <1>2, <2>5
  <2> HIDE DEF then
  <2> QED
    BY <2>1, <2>3, <2>4, <2>6 DEF AfterTurns
<1>11. CASE /\ Len(list) < MaxDevices /\ found.skipped # {slot}
            /\ b[n] = Bus!Absent
  <2> DEFINE given == IF Bus!IsFunction0(n) THEN {slot} ELSE found.skipped
             then == [found EXCEPT !.skipped = given]
  <2>1. Bus!Read(b, found, n) = then
    BY <1>1, <1>2, <1>11 DEF Bus!Read, Bus!GivesUp, slot
  <2>2. Gathered(b, n + 1, list)
    BY <1>5, <1>6, <1>11
  <2>3. GivenUp(b, n + 1, given)
    <3>1. CASE Bus!IsFunction0(n)
      <4>1. zero = Bus!Absent
        BY <1>3, <1>11, <3>1 DEF zero
      <4>2. slot \in 0..slot /\ given = {slot}
        BY <1>3, <3>1
      <4> QED
        BY <1>7, <4>1, <4>2
    <3>2. CASE ~Bus!IsFunction0(n)
      BY <1>4, <1>7, <1>11, <3>2
    <3> QED
      BY <3>1, <3>2
  <2>4. given \in SUBSET Nat
    BY <1>2, <1>3
  <2> HIDE DEF given
  <2>5. then \in [devices : Seq(Device), skipped : SUBSET Nat]
        /\ then.devices = list /\ then.skipped = given
    BY <1>2, <2>4
  <2> HIDE DEF then
  <2> QED
    BY <2>1, <2>2, <2>3, <2>5 DEF AfterTurns
<1> QED
  BY <1>1, <1>2, <1>8, <1>9, <1>10, <1>11

\* What enumerate() leaves is what its loops gather in all their turns.
LEMMA AllTurns ==
    ASSUME NEW b \in Machines
    PROVE  Gathered(b, BusSize, Bus!Enumerated(b))
<1> DEFINE Found == [devices : Seq(Device), skipped : SUBSET Nat]
           start == [devices |-> <<>>, skipped |-> {}]
           turn == [n \in 1..BusSize |-> [f \in Found |-> Bus!Read(b, f, n - 1)]]
           Loop(f) == [n \in 0..Len(Bus!Places) |->
                         IF n = 0 THEN start
                         ELSE Bus!Read(b, f[n - 1], Bus!Places[n])]
           after == CHOOSE f : f = Loop(f)
<1>1. BusSize \in Nat /\ Len(Bus!Places) = BusSize
      /\ \A n \in 1..BusSize : Bus!Places[n] = n - 1
  BY Sizes
<1>2. turn \in Turns(BusSize, Found)
  <2> SUFFICES ASSUME NEW n \in 1..BusSize, NEW f \in Found
               PROVE  Bus!Read(b, f, n - 1) \in Found
    BY DEF Turns
  <2>1. n - 1 \in Nat
    BY <1>1
  <2>2. b[n - 1] # Bus!Absent => b[n - 1] \in Device
    BY <1>1 DEF Machines, BusPlaces, BusSize
  <2>3. Bus!SlotOf(n - 1) \in Nat
    BY <2>1, SlotStarts
  <2> DEFINE longer == Append(f.devices, b[n - 1])
             given == IF Bus!GivesUp(n - 1) THEN {Bus!SlotOf(n - 1)}
                      ELSE f.skipped
  <2>4. f.devices \in Seq(Device) /\ f.skipped \in SUBSET Nat
    OBVIOUS
  <2>5. b[n - 1] # Bus!Absent => longer \in Seq(Device)
    BY <2>2, <2>4
  <2>6. given \in SUBSET Nat
    BY <2>3, <2>4
  <2>7. \/ Bus!Read(b, f, n - 1) = f
        \/ b[n - 1] # Bus!Absent
             /\ Bus!Read(b, f, n - 1) = [f EXCEPT !.devices = longer]
        \/ Bus!Read(b, f, n - 1) = [f EXCEPT !.skipped = given]
    BY DEF Bus!Read
  <2> HIDE DEF longer, given, start, turn, Loop, after
  <2> QED
    BY <2>5, <2>6, <2>7
<1>3. start \in Found
  OBVIOUS
<1>4. PICK f : f \in LoopRuns(BusSize, Found, start, turn)
  <2> HIDE DEF Found, start, turn, Loop, after
  <2> QED
    BY <1>1, <1>2, <1>3, LoopDefined
<1>5. f = Loop(f)
  <2>1. ASSUME NEW n \in 0..BusSize
        PROVE  f[n] = IF n = 0 THEN start
                      ELSE Bus!Read(b, f[n - 1], Bus!Places[n])
    <3>1. CASE n = 0
      BY <1>4, <3>1 DEF LoopRuns
    <3>2. CASE n # 0
      <4>1. n \in 1..BusSize /\ n - 1 \in 0..BusSize
        BY <1>1, <3>2
      <4>2. f[n - 1] \in Found /\ f[n] = turn[n][f[n - 1]]
        BY <1>4, <4>1 DEF LoopRuns
      <4> HIDE DEF Found
      <4> QED
        BY <1>1, <3>2, <4>1, <4>2
    <3> QED
      BY <3>1, <3>2
  <2> QED
    BY <1>1, <1>4, <2>1 DEF LoopRuns
<1>6. after = Loop(after)
  <2> HIDE DEF Loop
  <2> QED
    BY <1>5
<1>7. Bus!Enumerated(b) = after[BusSize].devices
  BY <1>1 DEF Bus!Enumerated
<1> DEFINE Kept == {n \in 0..BusSize : AfterTurns(b, n, after[n])}
<1> HIDE DEF after
<1>8. after[0] = start
      /\ \A n \in 0..(BusSize - 1) : after[n + 1] = Bus!Read(b, after[n], n)
  <2>1. after[0] = start
    BY <1>1, <1>6
  <2>2. ASSUME NEW n \in 0..(BusSize - 1)
        PROVE  after[n + 1] = Bus!Read(b, after[n], n)
    <3>1. n + 1 \in 1..BusSize /\ (n + 1) - 1 = n /\ n + 1 # 0
          /\ n + 1 \in 0..BusSize
      BY <1>1
    <3>2. Bus!Places[n + 1] = n
      BY <1>1, <3>1
    <3> QED
      BY <1>1, <1>6, <3>1, <3>2
  <2> QED
    BY <2>1, <2>2
<1>9. 0 \in Kept
  BY <1>1, <1>8, NoTurnYet
<1>10. ASSUME NEW n \in 0..(BusSize - 1), n \in Kept PROVE n + 1 \in Kept
  BY <1>1, <1>8, <1>10, TurnTaken
<1>11. BusSize \in Kept
  <2> HIDE DEF Kept
  <2>1. 0..BusSize \subseteq Kept
    BY <1>1, <1>9, <1>10, InductionUpTo
  <2> QED
    BY <1>1, <2>1
<1> QED
  BY <1>7, <1>11 DEF AfterTurns

LEMMA RanksDiffer ==
    ASSUME NEW b, NEW p \in Bus!Answering(b), NEW q \in Bus!Answering(b),
           Bus!Rank(Bus!Answering(b), p) = Bus!Rank(Bus!Answering(b), q)
    PROVE  p = q
<1>1. ASSUME NEW s \in Bus!Answering(b), NEW t \in Bus!Answering(b), s < t
      PROVE  Bus!Rank(Bus!Answering(b), s) # Bus!Rank(Bus!Answering(b), t)
  <2>1. s \in Nat /\ t \in Nat
    BY Sizes DEF Bus!Answering, BusSize
  <2>2. /\ Cardinality(Before(b, s)) \in Nat
        /\ Cardinality(Before(b, s + 1)) = Cardinality(Before(b, s)) + 1
    BY <2>1, BeforeCounted
  <2>3. IsFiniteSet(Before(b, t)) /\ Cardinality(Before(b, t)) \in Nat
    BY <2>1, BeforeCounted
  <2>4. Before(b, s + 1) \subseteq Before(b, t)
    <3>1. Bus!Answering(b) \subseteq Nat
      BY Sizes DEF Bus!Answering, BusSize
    <3>2. \A r \in Nat : r < s + 1 => r < t
      BY <1>1, <2>1
    <3> QED
      BY <3>1, <3>2 DEF Before
  <2>5. Cardinality(Before(b, s + 1)) \in Nat
        /\ Cardinality(Before(b, s + 1)) <= Cardinality(Before(b, t))
    BY <2>2, <2>3, <2>4, FS_Subset
  <2>6. /\ Bus!Rank(Bus!Answering(b), s) = Cardinality(Before(b, s))
        /\ Bus!Rank(Bus!Answering(b), t) = Cardinality(Before(b, t))
    BY RankCounts DEF Before
  <2> QED
    BY <2>2, <2>3, <2>5, <2>6
<1>2. p \in Nat /\ q \in Nat
  BY Sizes DEF Bus!Answering, BusSize
<1> QED
  BY <1>1, <1>2

\* enumerate() finds what its reference says.
LEMMA Complete ==
    ASSUME NEW b \in Machines
    PROVE  Bus!Enumerated(b) = Bus!FirstDevices(b)
<1> DEFINE list == Bus!Enumerated(b)
           all == Bus!Answering(b)
<1>1. Before(b, BusSize) = all
  BY Sizes DEF Before, Bus!Answering, BusSize
<1>2. /\ list \in Seq(Device)
      /\ Len(list) = Room(Cardinality(all))
      /\ \A i \in 1..Len(list) :
           \E p \in all : Bus!Rank(all, p) = i - 1 /\ list[i] = b[p]
  BY <1>1, AllTurns DEF Gathered
<1>3. Bus!Cardinality(all) = Cardinality(all)
  BY DEF Bus!Cardinality, Cardinality, Bus!IsFiniteSet, IsFiniteSet
<1>4. Bus!FirstDevices(b) =
        [i \in 1..Room(Cardinality(all)) |->
           b[CHOOSE place \in all : Bus!Rank(all, place) = i - 1]]
  BY <1>3 DEF Bus!FirstDevices, Room
<1> HIDE DEF list, all
<1>5. ASSUME NEW i \in 1..Len(list)
      PROVE  list[i] = b[CHOOSE place \in all : Bus!Rank(all, place) = i - 1]
  <2>1. PICK p \in all : Bus!Rank(all, p) = i - 1 /\ list[i] = b[p]
    BY <1>2
  <2>2. \A q \in all : Bus!Rank(all, q) = i - 1 => q = p
    BY <2>1, RanksDiffer DEF all
  <2>3. p = CHOOSE place \in all : Bus!Rank(all, place) = i - 1
    BY <2>1, <2>2
  <2> QED
    BY <2>1, <2>3
<1>6. list = [i \in 1..Len(list) |-> list[i]]
  BY <1>2
<1>7. list = Bus!FirstDevices(b)
  BY <1>2, <1>4, <1>5, <1>6
<1> QED
  BY <1>7 DEF list

LEMMA BootStarts == BootInit => bus \in Machines
<1> SUFFICES ASSUME BootInit PROVE bus \in Machines
  OBVIOUS
<1>1. PICK S \in SUBSET BusPlaces :
        \E d \in [S -> Device] :
          bus = [p \in BusPlaces |-> IF p \in S THEN d[p] ELSE Bus!Absent]
  BY DEF BootInit
<1> QED
  BY <1>1 DEF Machines

BusInv == bus \in Machines \cup {<<>>}

LEMMA BootBusStep == BusInv /\ [BootNext]_boot_vars => BusInv'
BY DEF BusInv, BootNext, Enumerate, ProbeCards, UsbProbe, UsbController, boot_vars

\* Whatever answers on the buses, the enumeration lists every function of
\* every slot whose function 0 answers, in order, up to the length of its table.
THEOREM EnumerationListsAll == BootSpec => EnumerationComplete
<1>1. BootInit => BusInv
  BY BootStarts DEF BusInv
<1>2. BusInv /\ [BootNext]_boot_vars
        => [bus # <<>> /\ bus' = <<>> => pci' = Bus!FirstDevices(bus)]_boot_vars
  <2> SUFFICES ASSUME BusInv, BootNext,
                      bus # <<>>, bus' = <<>>
               PROVE  pci' = Bus!FirstDevices(bus)
    OBVIOUS
  <2>1. Enumerate
    BY DEF BootNext, ProbeCards, UsbProbe, UsbController
  <2> QED
    BY <2>1, Complete DEF Enumerate, BusInv
<1> QED
  BY <1>1, <1>2, BootBusStep, PTL DEF BootSpec, EnumerationComplete

-----------------------------------------------------------------------------
(* The network interfaces *)

\* What every probe leaves and every driver keeps.
Lists == {list \in Seq(Interface) :
            /\ Len(list) <= MaxInterfaces
            /\ \A i \in 1..Len(list) : FlagsAgree(list[i])}

NetworkInv ==
    /\ pci \in Seq(Device) /\ Len(pci) <= MaxDevices
    /\ ifaces \in Lists
    /\ next \in Nat
    /\ BusInv
    /\ bus # <<>> => next = 0
    /\ next = 0 => ifaces = <<>> /\ ~booted

LEMMA OneConsidered ==
    ASSUME pci \in Seq(Device), Len(pci) <= MaxDevices,
           NEW i \in 1..Len(pci), NEW list \in Lists
    PROVE  Considered(list, i) \in Lists
<1>1. /\ list \in Seq(Interface) /\ Len(list) <= MaxInterfaces
      /\ Len(list) \in Nat /\ MaxInterfaces \in Nat
      /\ \A j \in 1..Len(list) : FlagsAgree(list[j])
  BY NetworkAssumption DEF Lists
<1>2. CASE pci[i].kind \in Drivers /\ Len(list) < MaxInterfaces
  <2> DEFINE longer == Append(list, Added(i))
  <2>1. i \in 1..MaxDevices /\ pci[i] \in Device
    BY NetworkAssumption
  <2>2. Added(i) \in Interface /\ FlagsAgree(Added(i))
    BY <1>2, <2>1 DEF Added, Interface, Device, FlagsAgree
  <2>3. /\ longer \in Seq(Interface) /\ Len(longer) = Len(list) + 1
        /\ \A j \in 1..Len(list) : longer[j] = list[j]
        /\ longer[Len(list) + 1] = Added(i)
    BY <1>1, <2>2, AppendProperties
  <2>4. Considered(list, i) = longer
    BY <1>2 DEF Considered
  <2> HIDE DEF longer
  <2>5. \A j \in 1..Len(longer) : FlagsAgree(longer[j])
    BY <1>1, <2>2, <2>3
  <2> QED
    BY <1>1, <1>2, <2>3, <2>4, <2>5 DEF Lists
<1>3. CASE ~(pci[i].kind \in Drivers /\ Len(list) < MaxInterfaces)
  BY <1>3 DEF Considered
<1> QED
  BY <1>2, <1>3

\* probe_pci() leaves what its loop leaves, turn by turn.
LEMMA ProbedTurns ==
    ASSUME pci \in Seq(Device), Len(pci) <= MaxDevices
    PROVE  \E after :
             /\ Probed = after[Len(pci)] /\ after[0] = <<>>
             /\ \A i \in 1..Len(pci) : after[i] = Considered(after[i - 1], i)
<1> DEFINE N == Len(pci)
           turn == [i \in 1..N |-> [list \in Lists |-> Considered(list, i)]]
           Loop(f) == [i \in 0..N |->
                         IF i = 0 THEN <<>> ELSE Considered(f[i - 1], i)]
           after == CHOOSE f : f = Loop(f)
<1>1. N \in Nat
  OBVIOUS
<1>2. turn \in Turns(N, Lists)
  BY OneConsidered DEF Turns
<1>3. <<>> \in Lists
  BY NetworkAssumption DEF Lists
<1>4. PICK f : f \in LoopRuns(N, Lists, <<>>, turn)
  <2> HIDE DEF N, turn, Loop, after
  <2> QED
    BY <1>1, <1>2, <1>3, LoopDefined
<1> HIDE DEF N
<1>5. f = Loop(f)
  <2>1. ASSUME NEW i \in 0..N
        PROVE  f[i] = IF i = 0 THEN <<>> ELSE Considered(f[i - 1], i)
    <3>1. CASE i = 0
      BY <1>4, <3>1 DEF LoopRuns
    <3>2. CASE i # 0
      <4>1. i \in 1..N /\ i - 1 \in 0..N
        BY <1>1, <3>2
      <4>2. f[i - 1] \in Lists /\ f[i] = turn[i][f[i - 1]]
        BY <1>4, <4>1 DEF LoopRuns
      <4> QED
        BY <3>2, <4>1, <4>2
    <3> QED
      BY <3>1, <3>2
  <2> QED
    BY <1>4, <2>1 DEF LoopRuns
<1>6. after = Loop(after)
  <2> HIDE DEF Loop
  <2> QED
    BY <1>5
<1>7. Probed = after[N]
  BY DEF Probed, N
<1> HIDE DEF after
<1>8. after[0] = <<>> /\ \A i \in 1..N : after[i] = Considered(after[i - 1], i)
  BY <1>1, <1>6
<1> QED
  BY <1>7, <1>8 DEF N

LEMMA ProbedLists ==
    ASSUME pci \in Seq(Device), Len(pci) <= MaxDevices
    PROVE  Probed \in Lists
<1> DEFINE N == Len(pci)
<1>1. N \in Nat
  OBVIOUS
<1>2. PICK after :
        /\ Probed = after[N] /\ after[0] = <<>>
        /\ \A i \in 1..N : after[i] = Considered(after[i - 1], i)
  BY ProbedTurns
<1> HIDE DEF N
<1> DEFINE Kept == {i \in 0..N : after[i] \in Lists}
<1>3. 0 \in Kept
  <2>1. <<>> \in Lists
    BY NetworkAssumption DEF Lists
  <2> QED
    BY <1>1, <1>2, <2>1
<1>4. ASSUME NEW i \in 0..(N - 1), i \in Kept PROVE i + 1 \in Kept
  <2>1. i + 1 \in 1..N /\ i + 1 \in 0..N /\ (i + 1) - 1 = i
    BY <1>1
  <2>2. after[i + 1] = Considered(after[i], i + 1)
    BY <1>2, <2>1
  <2> QED
    BY <1>4, <2>1, <2>2, OneConsidered DEF N
<1>5. N \in Kept
  <2> HIDE DEF Kept
  <2>1. 0..N \subseteq Kept
    BY <1>1, <1>3, <1>4, InductionUpTo
  <2> QED
    BY <1>1, <2>1
<1> QED
  BY <1>2, <1>5

LEMMA OutcomeTypes ==
    ASSUME NEW n \in Interface, FlagsAgree(n),
           NEW m \in Tried(n)
    PROVE  m \in Interface /\ FlagsAgree(m)
<1>1. CASE n.state = "initialized" /\ n.active
  BY <1>1 DEF Tried
<1>2. CASE ~(n.state = "initialized" /\ n.active)
  \* No driver is called while the link is up.
  <2>1. n.link # "up"
    BY <1>2 DEF FlagsAgree
  <2>2. Failed(n) \in Interface /\ FlagsAgree(Failed(n))
    BY <2>1 DEF Interface, Failed, FlagsAgree
  <2>3. \A link \in {"up", "down"} :
          Linked(n, link) \in Interface /\ FlagsAgree(Linked(n, link))
    BY DEF Interface, Linked, FlagsAgree
  <2>4. /\ Failed(Linked(n, "unknown")) \in Interface
        /\ FlagsAgree(Failed(Linked(n, "unknown")))
    BY DEF Interface, Linked, Failed, FlagsAgree
  <2>5. n.driver \in Drivers
    BY DEF Interface
  <2>6. \/ m = Failed(n) \/ m = Failed(Linked(n, "unknown"))
        \/ \E link \in {"up", "down"} : m = Linked(n, link)
    BY <1>2, <2>5 DEF Tried, Outcomes, Drivers
  <2> QED
    BY <2>2, <2>3, <2>4, <2>6
<1> QED
  BY <1>1, <1>2

\* An interface that is changed for a sound one leaves a sound list.
LEMMA OneChanged ==
    ASSUME ifaces \in Lists, NEW i \in DOMAIN ifaces, NEW m \in Interface,
           FlagsAgree(m),
           ifaces' = [ifaces EXCEPT ![i] = m]
    PROVE  /\ ifaces' \in Lists /\ DOMAIN ifaces' = DOMAIN ifaces
           /\ \A j \in DOMAIN ifaces : j # i => ifaces'[j] = ifaces[j]
           /\ ifaces'[i] = m
<1>1. ifaces \in Seq(Interface) /\ Len(ifaces) <= MaxInterfaces
      /\ DOMAIN ifaces = 1..Len(ifaces)
  BY DEF Lists
<1>2. ifaces' \in Seq(Interface) /\ Len(ifaces') = Len(ifaces)
  BY <1>1
<1>3. /\ DOMAIN ifaces' = DOMAIN ifaces
      /\ \A j \in DOMAIN ifaces : j # i => ifaces'[j] = ifaces[j]
      /\ ifaces'[i] = m
  BY <1>1
<1>4. \A j \in 1..Len(ifaces') : FlagsAgree(ifaces'[j])
  BY <1>1, <1>2, <1>3 DEF Lists
<1> QED
  BY <1>1, <1>2, <1>3, <1>4 DEF Lists

LEMMA ListSound ==
    ASSUME ifaces \in Lists
    PROVE  \A i \in DOMAIN ifaces :
             ifaces[i] \in Interface /\ FlagsAgree(ifaces[i])
BY DEF Lists

\* What BringUpSticks says of the interfaces a step finds active.
Stick == \A i \in DOMAIN ifaces :
            ifaces[i].active =>
              \/ ifaces'[i] = ifaces[i]
              \/ BringDown(ifaces[i].id)
              \/ Reprobe

LEMMA BroughtUpSticks ==
    ASSUME ifaces \in Lists, NEW id, BroughtUp(id)
    PROVE  ifaces' \in Lists
           /\ \A i \in DOMAIN ifaces : ifaces[i].active => ifaces'[i] = ifaces[i]
<1>1. CASE UNCHANGED ifaces
  BY <1>1
<1>2. CASE \E i \in WithId(id) : \E m \in Tried(ifaces[i]) :
             ifaces' = [ifaces EXCEPT ![i] = m]
  <2>1. PICK i \in WithId(id) :
          \E m \in Tried(ifaces[i]) : ifaces' = [ifaces EXCEPT ![i] = m]
    BY <1>2
  <2>2. PICK m \in Tried(ifaces[i]) : ifaces' = [ifaces EXCEPT ![i] = m]
    BY <2>1
  <2>3. i \in DOMAIN ifaces
    BY DEF WithId
  <2>4. m \in Interface /\ FlagsAgree(m)
    BY <2>3, ListSound, OutcomeTypes
  <2>5. ifaces[i].active => m = ifaces[i]
    BY <2>3, ListSound DEF Tried, FlagsAgree
  <2> QED
    BY <2>2, <2>3, <2>4, <2>5, OneChanged
<1> QED
  BY <1>1, <1>2 DEF BroughtUp

\* An interface that is taken down is so by bring_down(), and no other changes.
LEMMA TakenDownSound ==
    ASSUME ifaces \in Lists, NEW id, BringDown(id)
    PROVE  ifaces' \in Lists /\ Stick
<1>1. PICK i \in WithId(id) :
        ifaces' = [ifaces EXCEPT ![i] = TakenDown(ifaces[i])]
  BY DEF BringDown
<1>2. i \in DOMAIN ifaces /\ ifaces[i].id = id
  BY DEF WithId
<1>3. TakenDown(ifaces[i]) \in Interface /\ FlagsAgree(TakenDown(ifaces[i]))
  <2>1. ifaces[i] \in Interface
    BY <1>2, ListSound
  <2> QED
    BY <2>1 DEF Interface, TakenDown, FlagsAgree
<1>4. ifaces' \in Lists
      /\ \A j \in DOMAIN ifaces : j # i => ifaces'[j] = ifaces[j]
  BY <1>1, <1>2, <1>3, OneChanged
<1>5. BringDown(ifaces[i].id)
  BY <1>2
<1> QED
  BY <1>4, <1>5 DEF Stick

LEMMA NetworkStep ==
    ASSUME NetworkInv, [BootNext]_boot_vars
    PROVE  NetworkInv' /\ [Stick]_vars
<1>1. CASE Enumerate
  <2>1. bus \in Machines /\ bus' = <<>> /\ UNCHANGED <<ifaces, next, booted>>
        /\ pci' = Bus!Enumerated(bus)
    BY <1>1 DEF Enumerate, NetworkInv, BusInv
  <2>2. pci' \in Seq(Device) /\ Len(pci') <= MaxDevices
    <3>1. /\ pci' \in Seq(Device)
          /\ Len(pci') = Room(Cardinality(Before(bus, BusSize)))
      BY <2>1, AllTurns DEF Gathered
    <3>2. Cardinality(Before(bus, BusSize)) \in Nat
      BY Sizes, BeforeCounted
    <3> QED
      BY <3>1, <3>2, Sizes DEF Room
  <2>3. NetworkInv'
    BY <2>1, <2>2 DEF NetworkInv, BusInv
  <2>4. Stick
    BY <2>1 DEF Stick
  <2> QED
    BY <2>3, <2>4
<1>2. CASE ProbeCards
  <2>1. /\ next = 0 /\ next' = 1 /\ ifaces' = Probed
        /\ bus = <<>> /\ UNCHANGED <<bus, pci>>
    BY <1>2 DEF ProbeCards, BootProbe
  <2>2. ifaces' \in Lists
    BY <2>1, ProbedLists DEF NetworkInv
  <2>3. NetworkInv'
    BY <2>1, <2>2 DEF NetworkInv, BusInv
  <2>4. Stick
    BY <2>1 DEF Stick, NetworkInv
  <2> QED
    BY <2>3, <2>4
<1>3. CASE UsbProbe \/ UsbController
  BY <1>3 DEF UsbProbe, UsbController, vars, NetworkInv, BusInv
<1>4. CASE AfterProbe /\ UNCHANGED <<bus, usb>>
  <2>1. ASSUME BootBringUp PROVE NetworkInv' /\ Stick
    <3>1. BroughtUp(next) /\ next' = next + 1 /\ next # 0 /\ next' # 0 /\ UNCHANGED pci
      BY <2>1 DEF NetworkInv, BootBringUp, Looping
    <3>2. ifaces' \in Lists
          /\ \A i \in DOMAIN ifaces : ifaces[i].active => ifaces'[i] = ifaces[i]
      BY <3>1, BroughtUpSticks DEF NetworkInv
    <3> QED
      BY <1>4, <3>1, <3>2 DEF NetworkInv, BusInv, Stick
  <2>2. ASSUME BootReport PROVE NetworkInv' /\ Stick
    BY <1>4, <2>2 DEF BootReport, NetworkInv, BusInv, Stick
  <2>3. ASSUME NEW id, BringUp(id) PROVE NetworkInv' /\ Stick
    <3>1. BroughtUp(id) /\ UNCHANGED <<pci, next>>
          /\ WithId(id) # {}
      BY <2>3 DEF BringUp
    <3>2. ifaces' \in Lists
          /\ \A i \in DOMAIN ifaces : ifaces[i].active => ifaces'[i] = ifaces[i]
      BY <3>1, BroughtUpSticks DEF NetworkInv
    <3>3. next # 0
      BY <3>1 DEF WithId, NetworkInv
    <3> QED
      BY <1>4, <3>1, <3>2, <3>3 DEF NetworkInv, BusInv, Stick
  <2>4. ASSUME NEW id, BringDown(id) PROVE NetworkInv' /\ Stick
    <3>1. UNCHANGED <<pci, next>> /\ WithId(id) # {}
      BY <2>4 DEF BringDown
    <3>2. ifaces' \in Lists /\ Stick
      BY <2>4, TakenDownSound DEF NetworkInv
    <3>3. next # 0
      BY <3>1 DEF WithId, NetworkInv
    <3> QED
      BY <1>4, <3>1, <3>2, <3>3 DEF NetworkInv, BusInv
  <2>5. ASSUME Reprobe PROVE NetworkInv' /\ Stick
    <3>1. ifaces' \in Lists /\ UNCHANGED <<pci, next, booted>> /\ next # 0
      BY <2>5, ProbedLists DEF Reprobe, NetworkInv
    <3> QED
      BY <1>4, <2>5, <3>1 DEF NetworkInv, BusInv, Stick
  <2> QED
    BY <1>4, <2>1, <2>2, <2>3, <2>4, <2>5 DEF AfterProbe
<1>5. CASE UNCHANGED boot_vars
  BY <1>5 DEF boot_vars, vars, NetworkInv, BusInv
<1> QED
  BY <1>1, <1>2, <1>3, <1>4, <1>5 DEF BootNext

\* Whatever the cards answer, and in whatever order the drivers are called
\* after the boot, bringing interfaces up never takes a working one down, nor
\* leaves a flag of an earlier life.
THEOREM WorkingStaysUp == BootSpec => BringUpSticks
<1>1. BootInit => NetworkInv
  BY BootStarts, NetworkAssumption
     DEF BootInit, NothingProbed, NetworkInv, BusInv, Lists
<1>2. NetworkInv /\ [BootNext]_boot_vars => NetworkInv' /\ [Stick]_vars
  BY NetworkStep
<1>3. NetworkInv => \A i \in DOMAIN ifaces : FlagsAgree(ifaces[i])
  BY ListSound DEF NetworkInv
<1> QED
  BY <1>1, <1>2, <1>3, PTL DEF BootSpec, BringUpSticks, Stick

-----------------------------------------------------------------------------
(* What the boot reports *)

\* After i turns, if the first k devices are cards and there is room for them:
\* the ids rise with the places they are, and the first k are 1 to k.
LoopSays(list, i, k) ==
    /\ list \in Lists /\ Len(list) <= i
    /\ \A j \in 1..Len(list) :
         list[j].id \in j..i /\ pci[list[j].id].kind \in Drivers
    /\ \A j, l \in 1..Len(list) : j < l => list[l].id - list[j].id >= l - j
    /\ i <= k => Len(list) = i
    /\ k <= i => Len(list) >= k
    /\ \A j \in 1..Len(list) : j <= k => list[j].id = j

LEMMA OneMore ==
    ASSUME pci \in Seq(Device), Len(pci) <= MaxDevices,
           NEW i \in 1..Len(pci), NEW list, NEW k \in Nat,
           k <= MaxInterfaces, \A p \in 1..Len(pci) : p <= k => pci[p].kind \in Drivers,
           LoopSays(list, i - 1, k)
    PROVE  LoopSays(Considered(list, i), i, k)
<1> DEFINE n == Len(list)
<1>1. list \in Lists /\ list \in Seq(Interface) /\ n \in Nat /\ n <= i - 1
      /\ MaxInterfaces \in Nat
  BY NetworkAssumption DEF LoopSays, Lists
<1>2. Considered(list, i) \in Lists
  BY <1>1, OneConsidered
<1>3. \A j \in 1..n : /\ list[j].id \in j..(i - 1) /\ list[j].id \in j..i
                      /\ pci[list[j].id].kind \in Drivers
                      /\ j <= k => list[j].id = j
  <2> SUFFICES ASSUME NEW j \in 1..n
               PROVE  /\ list[j].id \in j..(i - 1) /\ list[j].id \in j..i
                      /\ pci[list[j].id].kind \in Drivers
                      /\ j <= k => list[j].id = j
    OBVIOUS
  <2>1. /\ list[j].id \in j..(i - 1) /\ pci[list[j].id].kind \in Drivers
        /\ j <= k => list[j].id = j
    BY DEF LoopSays
  <2>2. list[j].id \in j..i
    BY <2>1
  <2> QED
    BY <2>1, <2>2
<1>4. CASE pci[i].kind \in Drivers /\ n < MaxInterfaces
  <2> DEFINE longer == Append(list, Added(i))
  <2>1. /\ longer = Considered(list, i) /\ longer \in Lists
    BY <1>2, <1>4 DEF Considered
  <2>2. Added(i).id = i
    BY DEF Added
  <2>3. /\ Len(longer) = n + 1
        /\ \A j \in 1..n : longer[j] = list[j]
        /\ longer[n + 1].id = i
    <3>1. longer \in Seq(Interface) /\ Added(i) \in Interface
      <4>1. i \in 1..MaxDevices /\ pci[i] \in Device
        BY NetworkAssumption
      <4> QED
        BY <1>4, <2>1, <4>1 DEF Added, Interface, Device, Lists
    <3> QED
      BY <1>1, <2>2, <3>1, AppendProperties
  <2> HIDE DEF longer, n
  <2>4. i - 1 <= k => n = i - 1
    BY DEF LoopSays, n
  <2>5. k <= i - 1 => n >= k
    BY DEF LoopSays, n
  <2>6. \A j \in 1..(n + 1) : j \in 1..n \/ j = n + 1
    BY <1>1
  <2>7. \A j \in 1..Len(longer) :
          /\ longer[j].id \in j..i /\ pci[longer[j].id].kind \in Drivers
    BY <1>1, <1>3, <1>4, <2>3, <2>6
  <2>8. \A j, l \in 1..Len(longer) : j < l => longer[l].id - longer[j].id >= l - j
    <3> SUFFICES ASSUME NEW j \in 1..(n + 1), NEW l \in 1..(n + 1), j < l
                 PROVE  longer[l].id - longer[j].id >= l - j
      BY <2>3
    <3>1. CASE l \in 1..n
      <4>1. j \in 1..n /\ longer[l] = list[l] /\ longer[j] = list[j]
        BY <1>1, <2>3, <3>1
      <4> QED
        BY <3>1, <4>1 DEF LoopSays, n
    <3>2. CASE l = n + 1
      <4>1. j \in 1..n /\ n \in 1..n /\ longer[l].id = i /\ longer[j] = list[j]
        BY <1>1, <2>3, <3>2
      <4>2. list[n].id \in Int /\ list[n].id <= i - 1 /\ list[j].id \in Int
        BY <1>3, <4>1
      <4>3. list[n].id - list[j].id >= n - j
        <5>1. CASE j = n
          BY <4>2, <5>1
        <5>2. CASE j < n
          BY <4>1, <5>2 DEF LoopSays, n
        <5> QED
          BY <1>1, <4>1, <5>1, <5>2
      <4> QED
        BY <1>1, <3>2, <4>1, <4>2, <4>3
    <3> QED
      BY <2>6, <3>1, <3>2
  <2>9. \A j \in 1..Len(longer) : j <= k => longer[j].id = j
    <3> SUFFICES ASSUME NEW j \in 1..(n + 1), j <= k PROVE longer[j].id = j
      BY <2>3
    <3>1. CASE j \in 1..n
      BY <1>3, <2>3, <3>1
    <3>2. CASE j = n + 1
      <4>1. n = i - 1
        BY <1>1, <2>4, <2>5, <3>2
      <4> QED
        BY <2>3, <3>2, <4>1
    <3> QED
      BY <2>6, <3>1, <3>2
  <2>10. /\ Len(longer) <= i
         /\ i <= k => Len(longer) = i
         /\ k <= i => Len(longer) >= k
    BY <1>1, <2>3, <2>4, <2>5
  <2>11. LoopSays(longer, i, k)
    BY <2>1, <2>7, <2>8, <2>9, <2>10 DEF LoopSays
  <2> QED
    BY <2>1, <2>11
<1>5. CASE ~(pci[i].kind \in Drivers /\ n < MaxInterfaces)
  <2>1. Considered(list, i) = list
    BY <1>5 DEF Considered
  <2>2. i - 1 <= k => n = i - 1
    BY DEF LoopSays
  <2>3. k <= i - 1 => n >= k
    BY DEF LoopSays
  <2>4. ~(i <= k)
    <3> SUFFICES ASSUME i <= k PROVE FALSE
      OBVIOUS
    <3>1. n = i - 1 /\ n < MaxInterfaces
      BY <1>1, <2>2
    <3> QED
      BY <1>5, <3>1
  <2>5. n <= i /\ (k <= i => n >= k)
    BY <1>1, <2>3, <2>4
  <2> QED
    BY <1>1, <1>3, <2>1, <2>4, <2>5 DEF LoopSays
<1> QED
  BY <1>4, <1>5

LEMMA LoopEnds ==
    ASSUME pci \in Seq(Device), Len(pci) <= MaxDevices, NEW k \in Nat,
           k <= MaxInterfaces, \A p \in 1..Len(pci) : p <= k => pci[p].kind \in Drivers
    PROVE  LoopSays(Probed, Len(pci), k)
<1> DEFINE N == Len(pci)
<1>1. N \in Nat
  OBVIOUS
<1>2. PICK after :
        /\ Probed = after[N] /\ after[0] = <<>>
        /\ \A i \in 1..N : after[i] = Considered(after[i - 1], i)
  BY ProbedTurns
<1> HIDE DEF N
<1> DEFINE Kept == {i \in 0..N : LoopSays(after[i], i, k)}
<1>3. 0 \in Kept
  <2>1. <<>> \in Lists
    BY NetworkAssumption DEF Lists
  <2>2. LoopSays(<<>>, 0, k)
    BY <2>1 DEF LoopSays
  <2> QED
    BY <1>1, <1>2, <2>2
<1>4. ASSUME NEW i \in 0..(N - 1), i \in Kept PROVE i + 1 \in Kept
  <2>1. i + 1 \in 1..N /\ i + 1 \in 0..N /\ (i + 1) - 1 = i
    BY <1>1
  <2>2. after[i + 1] = Considered(after[i], i + 1)
    BY <1>2, <2>1
  <2>3. LoopSays(Considered(after[i], i + 1), i + 1, k)
    BY <1>4, <2>1, OneMore DEF N
  <2> QED
    BY <2>1, <2>2, <2>3
<1>5. N \in Kept
  <2> HIDE DEF Kept
  <2>1. 0..N \subseteq Kept
    BY <1>1, <1>3, <1>4, InductionUpTo
  <2> QED
    BY <1>1, <2>1
<1> QED
  BY <1>2, <1>5 DEF N

\* The ids of the interfaces are distinct, and the loop of the boot that asks
\* for 1 to their number asks for all of them exactly if the cards come first.
LEMMA AskedForAll ==
    ASSUME pci \in Seq(Device), Len(pci) <= MaxDevices
    PROVE  /\ Probed \in Lists
           /\ \A j \in 1..Len(Probed) : Probed[j].id \in Nat \ {0}
           /\ \A j, l \in 1..Len(Probed) : Probed[j].id = Probed[l].id => j = l
           /\ CardsFirst <=>
                \A j \in 1..Len(Probed) : Probed[j].id <= Len(Probed)
<1> DEFINE n == Len(Probed)
<1>1. LoopSays(Probed, Len(pci), 0)
  BY LoopEnds, NetworkAssumption
<1>2. Probed \in Lists /\ n \in Nat /\ n <= MaxInterfaces /\ n <= Len(pci)
      /\ MaxInterfaces \in Nat /\ Len(pci) \in Nat
  BY <1>1, NetworkAssumption DEF LoopSays, Lists
<1>3. \A j \in 1..n : /\ Probed[j].id \in Nat \ {0} /\ Probed[j].id >= j
                      /\ pci[Probed[j].id].kind \in Drivers
  BY <1>1, <1>2 DEF LoopSays
<1> HIDE DEF n
<1>4. \A j, l \in 1..n : j < l => Probed[l].id - Probed[j].id >= l - j
  BY <1>1 DEF LoopSays, n
<1>5. ASSUME NEW j \in 1..n, NEW l \in 1..n, Probed[j].id = Probed[l].id
      PROVE  j = l
  <2>1. j \in Nat /\ l \in Nat /\ Probed[l].id - Probed[j].id = 0
    BY <1>2, <1>3, <1>5
  <2>2. ~(j < l)
    BY <1>4, <2>1
  <2>3. Probed[j].id - Probed[l].id = 0
    BY <1>3, <1>5
  <2>4. ~(l < j)
    BY <1>4, <2>1, <2>3
  <2> QED
    BY <2>1, <2>2, <2>4
<1>6. ASSUME CardsFirst PROVE \A j \in 1..n : Probed[j].id = j
  <2>1. LoopSays(Probed, Len(pci), n)
    BY <1>2, <1>6, LoopEnds DEF CardsFirst, n
  <2> QED
    BY <1>2, <2>1 DEF LoopSays, n
<1>7. ASSUME \A j \in 1..n : Probed[j].id <= n, NEW p \in 1..n
      PROVE  pci[p].kind \in Drivers
  <2>1. n \in 1..n /\ Probed[n].id <= n
    BY <1>2, <1>7
  <2>2. p < n => Probed[n].id - Probed[p].id >= n - p
    BY <1>4, <2>1
  <2>3. Probed[p].id = p
    BY <1>2, <1>3, <1>7, <2>1, <2>2
  <2> QED
    BY <1>3, <2>3
<1> QED
  BY <1>2, <1>3, <1>5, <1>6, <1>7 DEF CardsFirst, n

\* From the probe on the interfaces are those it listed, by their ids; those
\* the loop has asked for were tried.
ReportInv ==
    /\ next > 0 =>
         /\ Len(ifaces) = Len(Probed)
         /\ \A j \in 1..Len(ifaces) : ifaces[j].id = Probed[j].id
    /\ ~booted => \A j \in 1..Len(ifaces) :
                    ifaces[j].id < next => ifaces[j].state # "probed"
    /\ ReportExact

LEMMA SameProbe == pci' = pci => Probed' = Probed /\ CardsFirst' = CardsFirst
BY DEF Probed, Considered, Added, CardsFirst

LEMMA OutcomeKeepsId ==
    ASSUME NEW n \in Interface, NEW m \in Tried(n)
    PROVE  m.id = n.id /\ m.state # "probed"
<1>1. \A link \in {"up", "down", "unknown"} :
        LET l == Linked(n, link)
        IN  /\ l.id = n.id /\ l.state = "initialized"
            /\ Failed(l).id = n.id /\ Failed(l).state = "failed"
  BY DEF Interface, Linked, Failed
<1>2. Failed(n).id = n.id /\ Failed(n).state = "failed"
  BY DEF Interface, Failed
<1>3. n.driver \in Drivers
  BY DEF Interface
<1>4. \/ m = n /\ n.state = "initialized"
      \/ m = Failed(n)
      \/ \E link \in {"up", "down", "unknown"} :
             m = Linked(n, link) \/ m = Failed(Linked(n, link))
  BY <1>3 DEF Tried, Outcomes, Drivers
<1> QED
  BY <1>1, <1>2, <1>4

\* bring_up(id) keeps all ids, and leaves the interface with this one tried.
LEMMA BroughtUpTries ==
    ASSUME ifaces \in Lists, NEW id, BroughtUp(id),
           \A j, l \in 1..Len(ifaces) : ifaces[j].id = ifaces[l].id => j = l
    PROVE  /\ Len(ifaces') = Len(ifaces)
           /\ \A j \in 1..Len(ifaces) :
                /\ ifaces'[j].id = ifaces[j].id
                /\ ifaces[j].id = id \/ ifaces[j].state # "probed"
                     => ifaces'[j].state # "probed"
<1>1. DOMAIN ifaces = 1..Len(ifaces) /\ Len(ifaces) \in Nat
      /\ ifaces \in Seq(Interface)
  BY DEF Lists
<1>2. CASE WithId(id) = {} /\ UNCHANGED ifaces
  BY <1>1, <1>2 DEF WithId
<1>3. CASE \E i \in WithId(id) : \E m \in Tried(ifaces[i]) :
             ifaces' = [ifaces EXCEPT ![i] = m]
  <2>1. PICK i \in WithId(id) :
          \E m \in Tried(ifaces[i]) : ifaces' = [ifaces EXCEPT ![i] = m]
    BY <1>3
  <2>2. PICK m \in Tried(ifaces[i]) : ifaces' = [ifaces EXCEPT ![i] = m]
    BY <2>1
  <2>3. i \in 1..Len(ifaces) /\ ifaces[i].id = id
    BY <1>1 DEF WithId
  <2>4. m.id = ifaces[i].id /\ m.state # "probed"
    BY <1>1, <2>3, OutcomeKeepsId
  <2>5. /\ Len(ifaces') = Len(ifaces) /\ ifaces'[i] = m
        /\ \A j \in 1..Len(ifaces) : j # i => ifaces'[j] = ifaces[j]
    BY <1>1, <2>2, <2>3
  <2> QED
    BY <2>3, <2>4, <2>5
<1> QED
  BY <1>2, <1>3 DEF BroughtUp

LEMMA TakenDownKeepsIds ==
    ASSUME ifaces \in Lists, NEW id, BringDown(id)
    PROVE  /\ Len(ifaces') = Len(ifaces)
           /\ \A j \in 1..Len(ifaces) : ifaces'[j].id = ifaces[j].id
<1>1. DOMAIN ifaces = 1..Len(ifaces) /\ Len(ifaces) \in Nat
      /\ ifaces \in Seq(Interface)
  BY DEF Lists
<1>2. PICK i \in WithId(id) :
        ifaces' = [ifaces EXCEPT ![i] = TakenDown(ifaces[i])]
  BY DEF BringDown
<1>3. i \in 1..Len(ifaces) /\ ifaces[i] \in Interface
  BY <1>1 DEF WithId
<1>4. TakenDown(ifaces[i]).id = ifaces[i].id
  BY <1>3 DEF TakenDown, Interface
<1> QED
  BY <1>1, <1>2, <1>3, <1>4

\* The interfaces that are printed are as many as there are interfaces exactly
\* if all of them have an id the loop asks for.
LEMMA ReportCounts ==
    ASSUME ifaces \in Lists,
           \A j \in 1..Len(ifaces) : ifaces[j].id \in Nat \ {0},
           \A j, l \in 1..Len(ifaces) : ifaces[j].id = ifaces[l].id => j = l
    PROVE  /\ \A m \in Reported : \E j \in 1..Len(ifaces) :
                m = ifaces[j] /\ ifaces[j].id <= Len(ifaces)
           /\ Cardinality(Reported) = Len(ifaces) <=>
                \A j \in 1..Len(ifaces) : ifaces[j].id <= Len(ifaces)
<1> DEFINE n == Len(ifaces)
           J == {j \in 1..n : ifaces[j].id <= n}
           f == [j \in J |-> ifaces[j]]
<1>1. n \in Nat /\ DOMAIN ifaces = 1..n
  BY DEF Lists
<1>2. Reported = {ifaces[j] : j \in J}
  <2>1. UNION {WithId(id) : id \in 1..n} = J
    BY <1>1 DEF WithId
  <2> HIDE DEF J
  <2> QED
    BY <2>1 DEF Reported
<1>3. f \in Bijection(J, Reported)
  BY <1>2 DEF Bijection, Injection, Surjection, IsInjective
<1>4. J \in SUBSET (1..n)
  OBVIOUS
<1> HIDE DEF n, J, f
<1>5. /\ IsFiniteSet(1..n) /\ Cardinality(1..n) = n
  BY <1>1, FS_Interval
<1>6. IsFiniteSet(J) /\ (Cardinality(J) = n <=> J = 1..n)
  BY <1>4, <1>5, FS_Subset
<1>7. Cardinality(Reported) = Cardinality(J)
  <2>1. ExistsBijection(J, Reported)
    BY <1>3 DEF ExistsBijection
  <2> QED
    BY <1>6, <2>1, FS_Bijection
<1>8. J = 1..n <=> \A j \in 1..n : ifaces[j].id <= n
  BY DEF J
<1>9. \A m \in Reported : \E j \in 1..n : m = ifaces[j] /\ ifaces[j].id <= n
  BY <1>2 DEF J
<1> QED
  BY <1>6, <1>7, <1>8, <1>9 DEF n

LEMMA ReportStep ==
    ASSUME NetworkInv, ReportInv, [BootNext]_boot_vars
    PROVE  ReportInv'
<1>1. /\ pci \in Seq(Device) /\ Len(pci) <= MaxDevices /\ ifaces \in Lists
      /\ Len(ifaces) \in Nat /\ next \in Nat
  BY DEF NetworkInv, Lists
<1>2. /\ \A j \in 1..Len(Probed) : Probed[j].id \in Nat \ {0}
      /\ \A j, l \in 1..Len(Probed) : Probed[j].id = Probed[l].id => j = l
      /\ CardsFirst <=> \A j \in 1..Len(Probed) : Probed[j].id <= Len(Probed)
  BY <1>1, AskedForAll
<1>3. ASSUME next > 0
      PROVE  /\ \A j \in 1..Len(ifaces) : ifaces[j].id \in Nat \ {0}
             /\ \A j, l \in 1..Len(ifaces) : ifaces[j].id = ifaces[l].id => j = l
             /\ CardsFirst <=> \A j \in 1..Len(ifaces) : ifaces[j].id <= Len(ifaces)
  BY <1>2, <1>3 DEF ReportInv
<1>4. ASSUME UNCHANGED <<pci, booted, shown>> PROVE ReportExact'
  BY <1>4, SameProbe DEF ReportInv, ReportExact
<1>5. CASE UNCHANGED vars
  <2>1. UNCHANGED <<pci, ifaces, next, booted, shown>>
    BY <1>5 DEF vars
  <2> QED
    BY <1>4, <2>1, SameProbe DEF ReportInv
<1>6. CASE Enumerate
  <2>1. ifaces' = <<>> /\ next' = 0 /\ ~booted'
    BY <1>6 DEF Enumerate, NetworkInv
  <2> QED
    BY <2>1 DEF ReportInv, ReportExact
<1>7. CASE ProbeCards
  <2>1. ifaces' = Probed /\ next' = 1 /\ ~booted' /\ pci' = pci
    BY <1>7 DEF ProbeCards, BootProbe, NetworkInv
  <2>2. \A j \in 1..Len(Probed) : ~(Probed[j].id < 1)
    BY <1>2
  <2> QED
    BY <2>1, <2>2, SameProbe DEF ReportInv, ReportExact
<1>8. CASE BootBringUp
  <2>1. /\ BroughtUp(next) /\ next' = next + 1 /\ next > 0
        /\ UNCHANGED <<pci, booted, shown>>
    BY <1>1, <1>8 DEF BootBringUp, Looping
  <2>2. /\ Len(ifaces') = Len(ifaces)
        /\ \A j \in 1..Len(ifaces) :
             /\ ifaces'[j].id = ifaces[j].id
             /\ ifaces[j].id = next \/ ifaces[j].state # "probed"
                  => ifaces'[j].state # "probed"
    BY <1>1, <1>3, <2>1, BroughtUpTries
  <2>3. ~booted => \A j \in 1..Len(ifaces) :
                    ifaces[j].id < next + 1 => ifaces'[j].state # "probed"
    BY <1>1, <1>3, <2>1, <2>2 DEF ReportInv
  <2> QED
    BY <1>4, <2>1, <2>2, <2>3, SameProbe DEF ReportInv
<1>9. CASE BootReport
  <2>1. /\ next > 0 /\ ~(next \in 1..Len(ifaces)) /\ ~booted /\ booted'
        /\ shown' = Reported /\ UNCHANGED <<pci, ifaces, next>>
    BY <1>9 DEF BootReport, Looping
  <2>2. next > Len(ifaces)
    BY <1>1, <2>1
  <2>3. /\ \A m \in Reported : \E j \in 1..Len(ifaces) :
             m = ifaces[j] /\ ifaces[j].id <= Len(ifaces)
        /\ Cardinality(Reported) = Len(ifaces) <=> CardsFirst
    BY <1>1, <1>3, <2>1, ReportCounts
  <2>4. \A m \in Reported : m.state # "probed"
    BY <1>1, <1>3, <2>1, <2>2, <2>3 DEF ReportInv
  <2>5. Len(ifaces) = Len(Probed)
    BY <2>1 DEF ReportInv
  <2>6. ReportExact'
    BY <2>1, <2>3, <2>4, <2>5, SameProbe DEF ReportExact
  <2> QED
    BY <2>1, <2>6, SameProbe DEF ReportInv
<1>10. ASSUME booted, booted' = booted, next' = next, UNCHANGED <<pci, shown>>,
              Len(ifaces') = Len(ifaces),
              \A j \in 1..Len(ifaces) : ifaces'[j].id = ifaces[j].id
       PROVE  ReportInv'
  BY <1>4, <1>10, SameProbe DEF ReportInv
<1>11. ASSUME NEW id, BringUp(id) PROVE ReportInv'
  <2>1. /\ BroughtUp(id) /\ booted /\ UNCHANGED <<pci, next, booted, shown>>
    BY <1>11 DEF BringUp
  <2>2. next > 0
    BY <1>1, <2>1 DEF NetworkInv
  <2> QED
    BY <1>1, <1>3, <1>10, <2>1, <2>2, BroughtUpTries
<1>12. ASSUME NEW id, BringDown(id) PROVE ReportInv'
  BY <1>1, <1>10, <1>12, TakenDownKeepsIds DEF BringDown
<1>13. CASE Reprobe
  <2>1. booted /\ ifaces' = Probed /\ UNCHANGED <<pci, next, booted, shown>>
    BY <1>13 DEF Reprobe
  <2> QED
    BY <1>4, <2>1, SameProbe DEF ReportInv
<1> QED
  BY <1>5, <1>6, <1>7, <1>8, <1>9, <1>11, <1>12, <1>13
     DEF BootNext, boot_vars, UsbProbe, UsbController, AfterProbe

\* Whatever devices there are and whatever the cards answer: an interface the
\* boot prints was tried before, and it prints all of them exactly if their
\* cards are the first devices listed.
THEOREM ReportIsExact == BootSpec => []ReportExact
<1>1. BootInit => NetworkInv /\ ReportInv
  <2> SUFFICES ASSUME BootInit PROVE NetworkInv /\ ReportInv
    OBVIOUS
  <2>1. NetworkInv
    BY BootStarts, NetworkAssumption
       DEF BootInit, NothingProbed, NetworkInv, BusInv, Lists
  <2>2. ReportInv
    BY DEF BootInit, NothingProbed, ReportInv, ReportExact
  <2> QED
    BY <2>1, <2>2
<1>2. NetworkInv /\ ReportInv /\ [BootNext]_boot_vars => NetworkInv' /\ ReportInv'
  BY NetworkStep, ReportStep
<1>3. ReportInv => ReportExact
  BY DEF ReportInv
<1> QED
  BY <1>1, <1>2, <1>3, PTL DEF BootSpec

-----------------------------------------------------------------------------
(* The boot keeps its types *)

UsbTypes ==
    /\ run \in BOOLEAN /\ reset \in BOOLEAN /\ halted \in BOOLEAN
    /\ busy \in BOOLEAN /\ reset_ok \in BOOLEAN /\ running \in BOOLEAN
    /\ result \in {"none", "running", "absent"}

LEMMA UsbTypesStep ==
    ASSUME UsbTypes, [BootNext]_boot_vars
    PROVE  UsbTypes'
<1>1. CASE Usb!Stop \/ Usb!Reset \/ Usb!Start
  BY <1>1 DEF Usb!Stop, Usb!Reset, Usb!Start, UsbTypes
<1>2. CASE Usb!PollHalted \/ Usb!PollReset \/ Usb!PollRunning
  BY <1>2 DEF Usb!PollHalted, Usb!PollReset, Usb!PollRunning, Usb!device, UsbTypes
<1>3. CASE Usb!Controller
  BY <1>3 DEF Usb!Controller, Usb!Halt, Usb!Leave, Usb!EndReset, Usb!Ready,
              Usb!code, UsbTypes
<1>4. CASE UNCHANGED usb
  BY <1>4 DEF usb, UsbTypes
<1> QED
  BY <1>1, <1>2, <1>3, <1>4
     DEF BootNext, Enumerate, ProbeCards, UsbProbe, UsbController, Usb!Probe, boot_vars

\* The loop over the interfaces ends behind the last one, and what it prints
\* are interfaces.
LoopTypes ==
    /\ next \in 0..(MaxInterfaces + 1)
    /\ booted \in BOOLEAN
    /\ shown \subseteq Interface

LEMMA LoopTypesStep ==
    ASSUME NetworkInv, LoopTypes, [BootNext]_boot_vars
    PROVE  LoopTypes'
<1>1. /\ ifaces \in Lists /\ Len(ifaces) \in Nat /\ Len(ifaces) <= MaxInterfaces
      /\ MaxInterfaces \in Nat /\ next \in Nat
  BY NetworkAssumption DEF NetworkInv, Lists
<1>2. CASE BootProbe
  BY <1>1, <1>2 DEF BootProbe, LoopTypes
<1>3. CASE BootBringUp
  <2>1. next <= Len(ifaces) /\ next' = next + 1
    BY <1>1, <1>3 DEF BootBringUp, Looping
  <2> QED
    BY <1>1, <1>3, <2>1 DEF BootBringUp, LoopTypes
<1>4. CASE BootReport
  <2>1. Reported \subseteq Interface
    BY <1>1, ListSound DEF Reported, WithId
  <2> QED
    BY <1>4, <2>1 DEF BootReport, LoopTypes
<1>5. ASSUME UNCHANGED <<next, booted, shown>> PROVE LoopTypes'
  BY <1>5 DEF LoopTypes
<1>6. ASSUME NEW id, BringUp(id) \/ BringDown(id) PROVE LoopTypes'
  BY <1>5, <1>6 DEF BringUp, BringDown
<1>7. CASE Enumerate \/ Reprobe \/ UNCHANGED vars
  BY <1>5, <1>7 DEF Enumerate, Reprobe, vars
<1> QED
  BY <1>2, <1>3, <1>4, <1>6, <1>7
     DEF BootNext, ProbeCards, UsbProbe, UsbController, AfterProbe, boot_vars

\* Whatever is on the buses and whatever it answers, the boot keeps its types:
\* among them that no list outgrows its table, and that no polling loop counts
\* past its limit.
THEOREM BootTypes == BootSpec => [](TypeOK /\ Usb!TypeOK)
<1> DEFINE Types == NetworkInv /\ LoopTypes /\ PollsBounded /\ UsbTypes
<1>1. BootInit => Types
  <2> SUFFICES ASSUME BootInit PROVE Types
    OBVIOUS
  <2>1. NetworkInv
    BY BootStarts, NetworkAssumption
       DEF BootInit, NothingProbed, NetworkInv, BusInv, Lists
  <2>2. LoopTypes
    <3>1. next = 0 /\ booted = FALSE /\ shown = {}
      BY DEF BootInit, NothingProbed
    <3>2. 0 \in 0..(MaxInterfaces + 1)
      BY NetworkAssumption
    <3> QED
      BY <3>1, <3>2 DEF LoopTypes
  <2>3. PollsBounded /\ UsbTypes
    BY DEF BootInit, Usb!Init, PollsBounded, UsbTypes
  <2> QED
    BY <2>1, <2>2, <2>3
<1>2. Types /\ [BootNext]_boot_vars => Types'
  <2> SUFFICES ASSUME Types, [BootNext]_boot_vars PROVE Types'
    OBVIOUS
  <2>1. PollsBounded'
    <3>1. CASE UsbProbe
      BY <3>1, ProbeStep DEF UsbProbe
    <3>2. CASE ~UsbProbe
      BY <3>2 DEF BootNext, Enumerate, ProbeCards, UsbController, Usb!Controller,
                  Usb!code, usb, boot_vars, PollsBounded
    <3> QED
      BY <3>1, <3>2
  <2> QED
    BY <2>1, NetworkStep, LoopTypesStep, UsbTypesStep
<1>3. Types => TypeOK /\ Usb!TypeOK
  <2> SUFFICES ASSUME Types PROVE TypeOK /\ Usb!TypeOK
    OBVIOUS
  <2>1. TypeOK
    BY DEF NetworkInv, LoopTypes, Lists, TypeOK
  <2>2. \E limit \in {HaltPolls, ResetPolls, RunPolls} : polls <= limit
    <3>1. HaltPolls \in Nat /\ ResetPolls \in Nat /\ RunPolls \in Nat
      BY BootAssumption
    <3> QED
      BY <3>1 DEF PollsBounded
  <2>3. Usb!TypeOK
    BY <2>2 DEF PollsBounded, UsbTypes, Usb!TypeOK, Usb!Loops
  <2> QED
    BY <2>1, <2>3
<1> QED
  BY <1>1, <1>2, <1>3, PTL DEF BootSpec
=============================================================================
