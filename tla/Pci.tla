--------------------------------- MODULE Pci ---------------------------------
(***************************************************************************)
(* The scan of the PCI bus, src/src/hardwarecommunication/pci.cpp, and the *)
(* configuration space it reads (external).                                *)
(*                                                                         *)
(* A function has a header: [vendor, type, bars], bars being the values of *)
(* its base address registers by number.  A device with one function       *)
(* answers for every function number, since it does not look at it.        *)
(***************************************************************************)
EXTENDS Integers, Sequences, FiniteSets

CONSTANTS
  MAX_PCI_BUS,             \* 8
  MAX_DEVICE_PER_PCI_BUS,  \* 32
  MAX_FUNC_PER_DEVICE,     \* 8
  MAX_BAR,                 \* 6
  DeviceKinds,             \* devices that may sit in a slot: function -> header
  Leftovers                \* addresses an uninitialised variable may hold

Slots == (0 .. MAX_PCI_BUS - 1) \X (0 .. MAX_DEVICE_PER_PCI_BUS - 1)

Absent == [f \in {} |-> 0]

VendorIds == {n \in Nat : 0 < n /\ n < 65535}
HeaderTypes == 0 .. 127
Bars6 == [0 .. 5 -> Nat]
PciHeader == [vendor : VendorIds, type : HeaderTypes, bars : Bars6]

(* A device that is there has a function 0.                                *)
IsDevice(d) ==
  \/ d = Absent
  \/ /\ d \in [DOMAIN d -> PciHeader]
     /\ DOMAIN d \subseteq 0 .. MAX_FUNC_PER_DEVICE - 1 /\ 0 \in DOMAIN d

ASSUME PciAssumption ==
  /\ MAX_PCI_BUS \in 1 .. 256
  /\ MAX_DEVICE_PER_PCI_BUS \in 1 .. 32
  /\ MAX_FUNC_PER_DEVICE \in 1 .. 8
  /\ MAX_BAR = 6
  /\ \A d \in DeviceKinds : IsDevice(d)
  /\ Leftovers \subseteq Nat

VARIABLES
  devices,       \* [slot -> device]: what sits on the bus, external
  bus, device, function, numFunctions,   \* SelectDrivers' loops
  barNum,        \* the register looked at, -1 before the descriptor is read
  portBase,      \* dev.portBase
  found          \* what was found: sequence of [at, portBase]

loops == <<bus, device, function, numFunctions, barNum, portBase, found>>
pciVars == <<devices, loops>>

-----------------------------------------------------------------------------
(* The configuration space.                                                *)

Multi(d) == Cardinality(DOMAIN d) > 1

(* The byte or word at offset o of function f of device d; all ones where  *)
(* nothing answers.                                                        *)
Register(d, f, o) ==
  LET h == IF f \in DOMAIN d THEN d[f] ELSE d[0]
      answers == d # Absent /\ (f \in DOMAIN d \/ ~Multi(d))
  IN  CASE o = 0  -> IF answers THEN h.vendor ELSE 65535
        [] o = 14 -> IF answers THEN h.type + (IF Multi(d) THEN 128 ELSE 0) ELSE 255
        [] o >= 16 -> h.bars[(o - 16) \div 4]

-----------------------------------------------------------------------------
(* Access through the two ports.  Bit 31 of the address is left out.       *)

Id(b, d, f, o) ==
  (b % 256) * 65536 + (d % 32) * 2048 + (f % 8) * 256 + 4 * ((o % 256) \div 4)

IdBus(id) == id \div 65536
IdDevice(id) == (id \div 2048) % 32
IdFunction(id) == (id \div 256) % 8
IdRegister(id) == id % 256

(* The dword at the address is shifted until the byte asked for is first.  *)
Read(b, d, f, o) ==
  LET id == Id(b, d, f, o)
  IN  Register(devices[<<IdBus(id), IdDevice(id)>>], IdFunction(id),
               IdRegister(id) + (o % 4))

DeviceHasFunctions(b, d) == Read(b, d, 0, 14) \div 128 = 1

(* The possible results: pAddress is not set for a memory register, and    *)
(* nothing is for one the header does not have.                            *)
GetBaseAddressRegister(b, d, f, bar) ==
  LET headerType == Read(b, d, f, 14) % 128
      maxBars == 6 - 4 * headerType
  IN  IF bar >= maxBars
      THEN [io : BOOLEAN, pAddress : Leftovers]
      ELSE LET value == Read(b, d, f, 16 + 4 * bar)
           IN  IF value % 2 = 1
               THEN {[io |-> TRUE, pAddress |-> value - (value % 4)]}
               ELSE [io : {FALSE}, pAddress : Leftovers]

-----------------------------------------------------------------------------
(* SelectDrivers.                                                          *)

ScanDone == bus = MAX_PCI_BUS

\* Mutant: every device is asked for all its functions.
FunctionsAlways(b, d) == MAX_FUNC_PER_DEVICE

Functions(b, d) == IF DeviceHasFunctions(b, d) THEN MAX_FUNC_PER_DEVICE ELSE 1

StartDevice ==
  /\ ~ScanDone /\ numFunctions = 0
  /\ numFunctions' = Functions(bus, device)
  /\ function' = 0
  /\ UNCHANGED <<devices, bus, device, barNum, portBase, found>>

EndDevice ==
  /\ ~ScanDone /\ numFunctions # 0 /\ function = numFunctions
  /\ numFunctions' = 0
  /\ device' = (device + 1) % MAX_DEVICE_PER_PCI_BUS
  /\ bus' = IF device' = 0 THEN bus + 1 ELSE bus
  /\ UNCHANGED <<devices, function, barNum, portBase, found>>

(* GetDeviceDescriptor.  The descriptor's portBase has no value yet.       *)
StartFunction ==
  /\ ~ScanDone /\ function < numFunctions /\ barNum = -1
  /\ IF Read(bus, device, function, 0) \in {0, 65535}
     THEN function' = function + 1 /\ UNCHANGED <<barNum, portBase>>
     ELSE barNum' = 0 /\ portBase' \in Leftovers /\ UNCHANGED function
  /\ UNCHANGED <<devices, bus, device, numFunctions, found>>

(* GetDriver knows of no driver, so there is none to add.                  *)
ScanBar ==
  /\ barNum \in 0 .. MAX_BAR - 1
  /\ \E r \in GetBaseAddressRegister(bus, device, function, barNum) :
       portBase' = IF r.io /\ r.pAddress # 0 THEN r.pAddress ELSE portBase
  /\ barNum' = barNum + 1
  /\ UNCHANGED <<devices, bus, device, function, numFunctions, found>>

EndFunction ==
  /\ barNum = MAX_BAR
  /\ found' = Append(found, [at |-> <<bus, device, function>>, portBase |-> portBase])
  /\ barNum' = -1
  /\ function' = function + 1
  /\ UNCHANGED <<devices, bus, device, numFunctions, portBase>>

SelectDrivers == StartDevice \/ EndDevice \/ StartFunction \/ ScanBar \/ EndFunction

PciInit ==
  /\ devices \in [Slots -> DeviceKinds]
  /\ bus = 0 /\ device = 0 /\ function = 0 /\ numFunctions = 0 /\ barNum = -1
  /\ portBase \in Leftovers
  /\ found = << >>

-----------------------------------------------------------------------------

(* The I/O registers of a header that have an address.                     *)
IoBars(h) == {k \in 0 .. 5 : h.bars[k] % 2 = 1 /\ h.bars[k] > 3}

(* Each function on the bus is found once, also where a device answers for *)
(* functions it does not have; and one with a standard header (type 0) has *)
(* the address of its last I/O register, whatever uninitialised variables  *)
(* hold.                                                                   *)
ScanTrue ==
  ScanDone =>
    /\ {found[n].at : n \in 1 .. Len(found)} =
         UNION {{<<s[1], s[2], f>> : f \in DOMAIN devices[s]} : s \in Slots}
    /\ \A n, m \in 1 .. Len(found) : found[n].at = found[m].at => n = m
    /\ \A n \in 1 .. Len(found) :
         LET at == found[n].at
             h == devices[<<at[1], at[2]>>][at[3]]
         IN  h.type = 0 =>
               \A k \in IoBars(h) :
                 (\A j \in IoBars(h) : j <= k) => found[n].portBase = h.bars[k] - (h.bars[k] % 4)
=============================================================================
