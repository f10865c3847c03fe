-------------------------------- MODULE Boot --------------------------------
(***************************************************************************)
(* The part of the boot that waits for hardware (kernel_main64() in        *)
(* arch/x86_64/kernel64.cpp), in its order: the PCI devices are            *)
(* enumerated, the network cards among them are listed, the USB controller *)
(* is probed, the cards are brought up and the report is printed.  After   *)
(* it the drivers may be called in any order.                              *)
(***************************************************************************)
EXTENDS Network

CONSTANTS
    BusSlots, Functions,
    MaxPresent,     \* bound: devices on the machine
    HaltPolls, ResetPolls, RunPolls

ASSUME BootAssumption ==
    {BusSlots, Functions, HaltPolls, ResetPolls, RunPolls} \subseteq Nat \ {0}

VARIABLES
    bus,            \* what answers at each place of the PCI buses; <<>> once
                    \* it was enumerated: nobody looks again
    pc, polls, run, reset, halted, busy, reset_ok, running, result

usb == <<pc, polls, run, reset, halted, busy, reset_ok, running, result>>

Usb == INSTANCE Xhci

Bus == INSTANCE Pci
BusPlaces == 0..(BusSlots * Functions - 1)

BootInit ==
    /\ \E S \in SUBSET BusPlaces :
         /\ Cardinality(S) <= MaxPresent                 \* bound
         /\ \E d \in [S -> Device] :
              bus = [p \in BusPlaces |-> IF p \in S THEN d[p] ELSE Bus!Absent]
    /\ pci = <<>>
    /\ NothingProbed
    /\ Usb!Init

\* pci::enumerate().
Enumerate ==
    /\ bus # <<>>
    /\ pci' = Bus!Enumerated(bus)
    /\ bus' = <<>>
    /\ UNCHANGED <<ifaces, next, booted, shown, usb>>

\* network::probe_pci() on what was enumerated.
ProbeCards == bus = <<>> /\ BootProbe /\ UNCHANGED <<bus, usb>>

\* xhci::probe(), between probe_pci() and the loop over the interfaces.
UsbProbe == next > 0 /\ Usb!Probe /\ UNCHANGED <<bus, vars>>

\* What the controller does once it was probed is read by nobody.
UsbController == pc # "done" /\ Usb!Controller /\ UNCHANGED <<bus, vars>>

BootNext ==
    \/ Enumerate
    \/ ProbeCards
    \/ UsbProbe
    \/ UsbController
    \/ pc = "done" /\ AfterProbe /\ UNCHANGED <<bus, usb>>

boot_vars == <<bus, vars, usb>>

\* The processor runs on; of the controller nothing is assumed.
BootFairness ==
    /\ WF_boot_vars(Enumerate)
    /\ WF_boot_vars(ProbeCards)
    /\ WF_boot_vars(UsbProbe)

BootSpec == BootInit /\ [][BootNext]_boot_vars /\ BootFairness

-----------------------------------------------------------------------------
(* Properties *)

\* The enumeration lists every function of every slot whose function 0
\* answers, gaps between the functions or not, once and in order, up to the
\* length of the table: the drivers' ids are places in this list.
EnumerationComplete ==
    [][bus # <<>> /\ bus' = <<>> => pci' = Bus!FirstDevices(bus)]_boot_vars

\* The controller is told to run only when its reset is over and it is ready,
\* whatever it did while the processor looked away.
RunsWhenReset == [][Usb!Starts => Usb!ResetOver]_boot_vars

\* The probe of the controller ends, and the boot goes on, even if the
\* controller never answers at all; its answer agrees with what it recorded.
ProbeEnds == Usb!ProbeEnds
=============================================================================
