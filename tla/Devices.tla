------------------------------- MODULE Devices -------------------------------
(***************************************************************************)
(* The device service (services/device/service.rs) with its device manager *)
(* (manager.rs), devices (device.rs) and drivers (driver.rs), and the      *)
(* receive buffers of the simulated keyboard, serial port and network card *)
(* (hardware/device.rs).                                                   *)
(*                                                                         *)
(* The service registers and unregisters devices and keeps the clipboard;  *)
(* the other requests it takes answer or print and change nothing.  Opening*)
(* and closing a device, and the drivers, are the managers' own interface, *)
(* which no request reaches: a device is Ready only once operations were   *)
(* set for it.  Anybody may close a device that is open, and a driver may  *)
(* be given any id: neither call asks the manager.                         *)
(***************************************************************************)
EXTENDS Naturals, Sequences, FiniteSets, FiniteSetsExt, SequencesExt

CONSTANTS
    DevNames, DevTypes, DevPids, DriverNames, PortNames,
    MaxDevice, MaxOpens, MaxArrivals   \* bounds on ids, opens and input

ASSUME DevicesAssumption ==
    /\ DevPids \subseteq Nat \ {0}
    /\ MaxDevice \in Nat /\ MaxOpens \in Nat /\ MaxArrivals \in Nat

VARIABLES
    devices,   \* id -> [name, type, ready, opens, exclusive, owner] and users, a history:
               \* who has opened it since it was last neither open nor exclusive
    nextDevice,
    nameMap,   \* name -> id
    typeMap,   \* type -> ids
    drivers,   \* name -> [loaded, refs, devices]
    clipboard,
    port       \* hardware buffers: [online, buffer, arrived, taken] of each device

devVars == <<devices, nextDevice, nameMap, typeMap, drivers, clipboard, port>>

NoPid    == 0
NoDevice == [d \in {} |-> 0]

DevInit ==
    /\ devices = NoDevice
    /\ nextDevice = 1
    /\ nameMap = NoDevice
    /\ typeMap = [t \in DevTypes |-> <<>>]
    /\ drivers = NoDevice
    /\ clipboard = 0
    /\ port = [q \in PortNames |-> [online |-> TRUE, buffer |-> <<>>, arrived |-> 0, taken |-> 0]]

Dropping(f, x) == [y \in DOMAIN f \ {x} |-> f[y]]
With(f, x, e)  == [y \in DOMAIN f \cup {x} |-> IF y = x THEN e ELSE f[y]]

------------------------------------------------------------------------------
(* One device.                                                               *)

NewDevice(n, t) ==
    [name |-> n, type |-> t, ready |-> FALSE, opens |-> 0,
     exclusive |-> FALSE, owner |-> NoPid, users |-> {}]

\* Device::open: only a Ready device; an exclusive one for its owner alone, and
\* exclusively only when nobody has it open.
CanOpen(d, p, exclusive) ==
    /\ d.ready
    /\ IF d.exclusive THEN d.owner = p ELSE exclusive => d.opens = 0

Opened(d, p, exclusive) ==
    [d EXCEPT !.opens = @ + 1,
              !.exclusive = @ \/ exclusive,
              !.owner = IF ~d.exclusive /\ exclusive THEN p ELSE @,
              !.users = @ \cup {p}]

\* Device::close: the last close gives exclusive access up if it is the owner's; a last
\* close of somebody else leaves a device that nobody has open and only its owner may.
Closed(d, p) ==
    LET left == d.exclusive /\ ~(d.owner = p /\ d.opens = 1)
    IN  [d EXCEPT !.opens = @ - 1,
                  !.exclusive = left,
                  !.owner = IF left THEN @ ELSE NoPid,
                  !.users = IF d.opens = 1 /\ ~left THEN {} ELSE @]

------------------------------------------------------------------------------
(* DeviceManager, through RegisterDevice and UnregisterDevice requests.      *)

\* A name that is taken leads to the new device from now on.
HandleRegisterDevice(n, t) ==
    /\ nextDevice <= MaxDevice
    /\ devices' = With(devices, nextDevice, NewDevice(n, t))
    /\ nextDevice' = nextDevice + 1
    /\ nameMap' = With(nameMap, n, nextDevice)
    /\ typeMap' = [typeMap EXCEPT ![t] = Append(@, nextDevice)]
    /\ UNCHANGED <<drivers, clipboard, port>>

\* Mutant of TypesWithout: an unregister that forgets the list of the device's type.
TypesForgotten(d) == typeMap

\* type_map's retain: an id is listed once.
TypesWithout(d) == [typeMap EXCEPT ![devices[d].type] = RemoveFirst(@, d)]

\* Refused while the device is open.  Its name is removed, wherever it leads by now.
HandleUnregisterDevice(d) ==
    /\ d \in DOMAIN devices /\ devices[d].opens = 0
    /\ devices' = Dropping(devices, d)
    /\ nameMap' = Dropping(nameMap, devices[d].name)
    /\ typeMap' = TypesWithout(d)
    /\ UNCHANGED <<nextDevice, drivers, clipboard, port>>

\* Device::set_operations, with operations that report Ready.
SetOperations(d) ==
    /\ d \in DOMAIN devices /\ ~devices[d].ready
    /\ devices' = [devices EXCEPT ![d].ready = TRUE]
    /\ UNCHANGED <<nextDevice, nameMap, typeMap, drivers, clipboard, port>>

\* DeviceManager::open and close.
OpenDevice(d, p, exclusive) ==
    /\ d \in DOMAIN devices /\ CanOpen(devices[d], p, exclusive)
    /\ devices[d].opens < MaxOpens
    /\ devices' = [devices EXCEPT ![d] = Opened(@, p, exclusive)]
    /\ UNCHANGED <<nextDevice, nameMap, typeMap, drivers, clipboard, port>>

CloseDevice(d, p) ==
    /\ d \in DOMAIN devices /\ devices[d].opens > 0
    /\ devices' = [devices EXCEPT ![d] = Closed(@, p)]
    /\ UNCHANGED <<nextDevice, nameMap, typeMap, drivers, clipboard, port>>

\* ClipboardSet replaces the text.
ClipboardSet(x) ==
    /\ clipboard' = x
    /\ UNCHANGED <<devices, nextDevice, nameMap, typeMap, drivers, port>>

------------------------------------------------------------------------------
(* DriverManager and Driver.                                                 *)

UnchangedButDrivers == UNCHANGED <<devices, nextDevice, nameMap, typeMap, clipboard, port>>

RegisterDriver(n) ==
    /\ n \notin DOMAIN drivers
    /\ drivers' = With(drivers, n, [loaded |-> FALSE, refs |-> 0, devices |-> <<>>])
    /\ UnchangedButDrivers

UnregisterDriver(n) ==
    /\ n \in DOMAIN drivers /\ ~drivers[n].loaded
    /\ drivers' = Dropping(drivers, n)
    /\ UnchangedButDrivers

LoadDriver(n) ==
    /\ n \in DOMAIN drivers /\ ~drivers[n].loaded
    /\ drivers' = [drivers EXCEPT ![n].loaded = TRUE]
    /\ UnchangedButDrivers

UnloadDriver(n) ==
    /\ n \in DOMAIN drivers /\ drivers[n].loaded
    /\ drivers[n].refs = 0 /\ drivers[n].devices = <<>>
    /\ drivers' = [drivers EXCEPT ![n].loaded = FALSE]
    /\ UnchangedButDrivers

\* Driver::add_device and remove_device.
WithDevice(r, d)    == [r EXCEPT !.devices = Append(@, d), !.refs = @ + 1]
WithoutDevice(r, d) == [r EXCEPT !.devices = RemoveFirst(@, d), !.refs = IF @ > 0 THEN @ - 1 ELSE 0]

AddDevice(n, d) ==
    /\ n \in DOMAIN drivers
    /\ d \notin ToSet(drivers[n].devices)
    /\ drivers' = [drivers EXCEPT ![n] = WithDevice(@, d)]
    /\ UnchangedButDrivers

RemoveDevice(n, d) ==
    /\ n \in DOMAIN drivers /\ d \in ToSet(drivers[n].devices)
    /\ drivers' = [drivers EXCEPT ![n] = WithoutDevice(@, d)]
    /\ UnchangedButDrivers

------------------------------------------------------------------------------
(* The hardware devices: input arrives online or not; reset empties the      *)
(* buffer.                                                                   *)

UnchangedButPorts == UNCHANGED <<devices, nextDevice, nameMap, typeMap, drivers, clipboard>>

Buffered(b) == [b EXCEPT !.buffer = Append(@, b.arrived + 1), !.arrived = @ + 1]
Consumed(b) == [b EXCEPT !.buffer = Tail(@), !.taken = Head(b.buffer)]
Emptied(b)  == [b EXCEPT !.buffer = <<>>, !.online = TRUE, !.taken = b.arrived]

\* key_press, receive_data, inject_packet.
Arrives(q) ==
    /\ port[q].arrived < MaxArrivals
    /\ port' = [port EXCEPT ![q] = Buffered(@)]
    /\ UnchangedButPorts

\* read_char, read_byte, receive_packet.
Takes(q) ==
    /\ port[q].buffer # <<>>
    /\ port' = [port EXCEPT ![q] = Consumed(@)]
    /\ UnchangedButPorts

SetOnline(q, on) ==   \* init, shutdown
    /\ port[q].online # on
    /\ port' = [port EXCEPT ![q].online = on]
    /\ UnchangedButPorts

ResetPort(q) ==
    /\ port' = [port EXCEPT ![q] = Emptied(@)]
    /\ UnchangedButPorts

DevNext ==
    \/ \E n \in DevNames, t \in DevTypes : HandleRegisterDevice(n, t)
    \/ \E d \in 1 .. MaxDevice :
         \/ HandleUnregisterDevice(d) \/ SetOperations(d)
         \/ \E p \in DevPids : CloseDevice(d, p) \/ \E x \in BOOLEAN : OpenDevice(d, p, x)
         \/ \E n \in DriverNames : AddDevice(n, d) \/ RemoveDevice(n, d)
    \/ \E n \in DriverNames :
         RegisterDriver(n) \/ UnregisterDriver(n) \/ LoadDriver(n) \/ UnloadDriver(n)
    \/ \E x \in 0 .. 1 : ClipboardSet(x)

PortNext ==
    \E q \in PortNames :
        Arrives(q) \/ Takes(q) \/ ResetPort(q) \/ \E on \in BOOLEAN : SetOnline(q, on)

DevSpec == DevInit /\ [][DevNext \/ PortNext]_devVars

------------------------------------------------------------------------------
(* A name leads to a live device of that name, and to the newest, also after  *)
(* names were taken twice and devices unregistered (DeviceManager::register,  *)
(* unregister).  A device may have lost its name to a namesake that went.     *)
NamesLead ==
    /\ \A n \in DOMAIN nameMap : nameMap[n] \in DOMAIN devices /\ devices[nameMap[n]].name = n
    /\ \A d \in DOMAIN devices :
         devices[d].name \in DOMAIN nameMap => d <= nameMap[devices[d].name]

\* A type's list holds exactly the live devices of the type, oldest first.
TypesListed ==
    \A t \in DevTypes :
        /\ ToSet(typeMap[t]) = {d \in DOMAIN devices : devices[d].type = t}
        /\ \A i, j \in DOMAIN typeMap[t] : i < j => typeMap[t][i] < typeMap[t][j]

\* Nobody but its owner has got into a device while it is exclusive, whoever closes it;
\* and a device that is not exclusive has no owner to keep others out (Device::open, close).
ExclusivelyOpen(d) ==
    IF d.exclusive THEN d.users = {d.owner} ELSE d.owner = NoPid

\* A driver counts its devices and never holds one twice (Driver::add_device, remove_device).
DriversCount ==
    \A n \in DOMAIN drivers :
        drivers[n].refs = Len(drivers[n].devices) /\ IsInjective(drivers[n].devices)

\* Input is read in the order it came (KeyboardDevice, SerialDevice, NetworkDevice).
InputInOrder ==
    \A q \in PortNames :
        port[q].buffer = [i \in 1 .. port[q].arrived - port[q].taken |-> port[q].taken + i]

(* The tables of the device side agree: the manager's names and types, the    *)
(* devices' exclusive access, the drivers' reference counts and the hardware  *)
(* buffers are what the calls so far, in any order, make of them.             *)
DevicesExact ==
    /\ NamesLead
    /\ TypesListed
    /\ \A d \in DOMAIN devices : ExclusivelyOpen(devices[d])
    /\ DriversCount
    /\ InputInOrder
==============================================================================
