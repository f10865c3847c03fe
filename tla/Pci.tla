-------------------------------- MODULE Pci --------------------------------
(***************************************************************************)
(* The enumeration of the PCI devices (kernel/drivers/pci.cpp): three      *)
(* nested loops over buses, slots and functions, which give a slot up when *)
(* its function 0 does not answer.  A slot here is a slot of a bus; the    *)
(* identification registers are the device they identify.                  *)
(***************************************************************************)
EXTENDS Naturals, Sequences, FiniteSets

CONSTANTS
    BusSlots,       \* slots, of all buses together
    Functions,      \* functions of a slot: 8
    MaxDevices      \* kMaxDevices: length of g_devices

\* No device answers there: the vendor reads as 0xFFFF.
Absent == [kind |-> "absent", bar |-> FALSE]

\* The places in the order of the loops: function i % Functions of a slot.
Places == [i \in 1..(BusSlots * Functions) |-> i - 1]
SlotOf(place) == place \div Functions
IsFunction0(place) == place % Functions = 0

\* Fault for EnumerationComplete: every missing function ends its slot.
GivesUpAtAny(place) == TRUE

GivesUp(place) == IsFunction0(place)

\* One turn of the innermost loop, on [devices, skipped]: the slot that is
\* given up has none of its later functions read.
Read(bus, found, place) ==
    IF Len(found.devices) >= MaxDevices \/ found.skipped = {SlotOf(place)}
      THEN found
    ELSE IF bus[place] # Absent
      THEN [found EXCEPT !.devices = Append(@, bus[place])]
    ELSE [found EXCEPT !.skipped = IF GivesUp(place) THEN {SlotOf(place)} ELSE @]

\* enumerate(), by the list it leaves in g_devices.
Enumerated(bus) ==
    LET after[n \in 0..Len(Places)] ==         \* n turns
          IF n = 0 THEN [devices |-> <<>>, skipped |-> {}]
          ELSE Read(bus, after[n - 1], Places[n])
    IN  after[Len(Places)].devices

-----------------------------------------------------------------------------
(* Reference *)

\* The places of every device of a slot whose function 0 answers.
Answering(bus) ==
    {place \in 0..(BusSlots * Functions - 1) :
        bus[place] # Absent /\ bus[SlotOf(place) * Functions] # Absent}

\* How many of the places come before one.
Rank(places, place) == Cardinality({q \in places : q < place})

\* The devices there, in the order of the places, as many as the table holds.
FirstDevices(bus) ==
    LET all == Answering(bus)
        most == IF Cardinality(all) > MaxDevices THEN MaxDevices ELSE Cardinality(all)
    IN  [i \in 1..most |-> bus[CHOOSE place \in all : Rank(all, place) = i - 1]]
=============================================================================
