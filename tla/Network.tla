------------------------------ MODULE Network ------------------------------
(***************************************************************************)
(* The network drivers (kernel/drivers/network.cpp) on the PCI devices the *)
(* enumeration found, and what the boot (arch/x86_64/kernel64.cpp) does    *)
(* with them.  The registers of a card appear as the ways its              *)
(* initialisation can end; addresses, buffers and the MAC are left out,    *)
(* and so are the ipv4, ipv6, dhcp and dns flags, which nothing ever sets. *)
(***************************************************************************)
EXTENDS Naturals, Sequences, FiniteSets

CONSTANTS
    MaxInterfaces,  \* kMaxInterfaces
    MaxDevices,     \* bound: length of the PCI list
    Kinds           \* kinds of PCI device on the machine; "other" is one that
                    \* is no network card, or none that add() knows

Drivers == {"rtl8139", "e1000", "virtio"}

ASSUME NetworkAssumption ==
    /\ MaxInterfaces \in Nat \ {0} /\ MaxDevices \in Nat
    /\ Kinds \subseteq Drivers \cup {"other"}

VARIABLES
    pci,        \* pci::devices(), and whether the BAR the driver wants is set
    ifaces,     \* g_interfaces, first g_count entries
    next,       \* the boot loop's i, from 1; 0 before the probe
    booted,     \* the boot has printed its report
    shown       \* the set of the interfaces, as it printed them

vars == <<pci, ifaces, next, booted, shown>>

Device == [kind : Kinds, bar : BOOLEAN]
Interface == [id : 1..MaxDevices, driver : Drivers, bar : BOOLEAN,
              link : {"down", "up", "unknown"},
              state : {"probed", "initialized", "failed"}, active : BOOLEAN]

-----------------------------------------------------------------------------
\* add(): the id is the place in the PCI list, counted from 1.
Added(i) == [id |-> i, driver |-> pci[i].kind, bar |-> pci[i].bar,
             link |-> "unknown", state |-> "probed", active |-> FALSE]

\* One turn of the loop of probe_pci(): add() keeps device i if it has a driver
\* and there is room.
Considered(list, i) ==
    IF pci[i].kind \in Drivers /\ Len(list) < MaxInterfaces
    THEN Append(list, Added(i)) ELSE list

\* probe_pci(), by the list it leaves.
Probed ==
    LET after[i \in 0..Len(pci)] ==             \* i turns
          IF i = 0 THEN <<>> ELSE Considered(after[i - 1], i)
    IN  after[Len(pci)]

Failed(n) == [n EXCEPT !.state = "failed", !.active = FALSE]
Linked(n, link) ==
    [n EXCEPT !.link = link, !.state = "initialized", !.active = (link = "up")]

\* What the three init functions and the end of bring_up() can make of n.
\* The e1000 reset is not checked, and a virtio card without link, having
\* set its link to unknown, counts as failed.
Outcomes(n) ==
    IF ~n.bar THEN {Failed(n)}
    ELSE CASE n.driver = "rtl8139" ->
                {Failed(n), Linked(n, "up"), Linked(n, "down")}
           [] n.driver = "e1000" -> {Linked(n, "up"), Linked(n, "down")}
           [] n.driver = "virtio" ->
                {Failed(n), Linked(n, "up"), Failed(Linked(n, "unknown"))}

\* Fault for BringUpSticks: a card that is up is initialised again.
AlwaysTried(n) == Outcomes(n)
Tried(n) == IF n.state = "initialized" /\ n.active THEN {n} ELSE Outcomes(n)

WithId(id) == {i \in DOMAIN ifaces : ifaces[i].id = id}

\* bring_up(id), which leaves everything alone when no interface has the id.
BroughtUp(id) ==
    \/ WithId(id) = {} /\ UNCHANGED ifaces
    \/ \E i \in WithId(id) : \E n \in Tried(ifaces[i]) :
         ifaces' = [ifaces EXCEPT ![i] = n]

TakenDown(n) == [n EXCEPT !.active = FALSE, !.link = "down"]

-----------------------------------------------------------------------------
NothingProbed == ifaces = <<>> /\ next = 0 /\ booted = FALSE /\ shown = {}

Init ==
    /\ pci \in UNION {[1..n -> Device] : n \in 0..MaxDevices}
    /\ NothingProbed

BootProbe ==
    /\ next = 0
    /\ ifaces' = Probed
    /\ next' = 1
    /\ UNCHANGED <<pci, booted, shown>>

Looping == next \in 1..Len(ifaces)

\* The loop asks for the ids 1 to net_count.
BootBringUp ==
    /\ Looping
    /\ BroughtUp(next)
    /\ next' = next + 1
    /\ UNCHANGED <<pci, booted, shown>>

\* Fault for ReportExact: the loop counts from 0 and asks for what it counts.
ReportedFromZero ==
    {ifaces[i] : i \in UNION {WithId(id) : id \in 0..(Len(ifaces) - 1)}}

\* What it prints: by the same ids, the interfaces there are.
Reported == {ifaces[i] : i \in UNION {WithId(id) : id \in 1..Len(ifaces)}}

BootReport ==
    /\ next > 0 /\ ~Looping /\ ~booted
    /\ booted' = TRUE
    /\ shown' = Reported
    /\ UNCHANGED <<pci, ifaces, next>>

BringUp(id) ==
    /\ booted /\ WithId(id) # {}
    /\ BroughtUp(id)
    /\ UNCHANGED <<pci, next, booted, shown>>

BringDown(id) ==
    /\ booted
    /\ \E i \in WithId(id) :
         ifaces' = [ifaces EXCEPT ![i] = TakenDown(ifaces[i])]
    /\ UNCHANGED <<pci, next, booted, shown>>

\* probe_pci() called again: every interface is as new.
Reprobe ==
    /\ booted
    /\ ifaces' = Probed
    /\ UNCHANGED <<pci, next, booted, shown>>

AfterProbe ==
    \/ BootBringUp
    \/ BootReport
    \/ \E id \in 1..MaxDevices : BringUp(id) \/ BringDown(id)
    \/ Reprobe

Next == BootProbe \/ AfterProbe

Spec == Init /\ [][Next]_vars

-----------------------------------------------------------------------------
(* Properties *)

TypeOK ==
    /\ pci \in Seq(Device) /\ Len(pci) <= MaxDevices
    /\ ifaces \in Seq(Interface) /\ Len(ifaces) <= MaxInterfaces
    /\ next \in 0..(MaxInterfaces + 1)
    /\ booted \in BOOLEAN /\ shown \subseteq Interface

\* The two flags that available() asks for together, and the state that
\* bring_up() asks for with the first.
FlagsAgree(n) ==
    /\ n.active <=> n.link = "up"
    /\ n.active => n.state = "initialized"

\* Bringing interfaces up never takes a working one down: only bring_down()
\* and a new probe do.  Nor does it leave a flag of an earlier life: whatever
\* was brought up, down, and up again in vain, the link is up exactly where
\* the interface is active, and only one that was initialised is.
BringUpSticks ==
    /\ [][\A i \in DOMAIN ifaces :
            ifaces[i].active =>
              \/ ifaces'[i] = ifaces[i]
              \/ BringDown(ifaces[i].id)
              \/ Reprobe]_vars
    /\ [](\A i \in DOMAIN ifaces : FlagsAgree(ifaces[i]))

\* How far the report can be relied on: what it prints was tried before, and
\* it prints every interface exactly if no other device is listed before the
\* card of one.
CardsFirst == \A i \in 1..Len(Probed) : pci[i].kind \in Drivers
ReportExact ==
    booted =>
      /\ \A n \in shown : n.state # "probed"
      /\ Cardinality(shown) = Len(Probed) <=> CardsFirst

\* The boot tries and prints every card it has a driver for, as the smoke
\* tests of the drivers look for it (.github/workflows/build.yml:95-96).
BootShowsCards == booted => Cardinality(shown) = Len(Probed)
=============================================================================
