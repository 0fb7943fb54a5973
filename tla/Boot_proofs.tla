----------------------------- MODULE Boot_proofs -----------------------------
(***************************************************************************)
(* Theorems about the boot, for every machine and every state the firmware *)
(* leaves: about the two encodings it relies on (segment descriptors and   *)
(* the addresses of PCI registers), the scan of the PCI buses, kernelMain  *)
(* itself and the reader of partitions and volumes it ends with.           *)
(***************************************************************************)
EXTENDS Boot, FatReader, SequenceTheorems, FiniteSetTheorems, WellFoundedInduction,
        TLAPS

Word32 == {n \in Nat : n < 4294967296}   \* 2^32
Word20 == {n \in Nat : n < 1048576}

-----------------------------------------------------------------------------
(* Segment descriptors.                                                    *)

(* Stored never exceeds 20 bits.                                           *)
LEMMA StoredFits ==
  ASSUME NEW limit \in Word32
  PROVE  Stored(limit) \in Word20
<1>1. CASE limit <= 65536
  BY SMT, <1>1 DEF Stored, Paged, Word32, Word20
<1>2. CASE limit > 65536
  <2>1. limit \div 4096 \in Word20 /\ limit \div 4096 >= 16
    BY SMT, <1>2 DEF Word32, Word20
  <2> QED
    BY SMT, <1>2, <2>1 DEF Stored, Paged, Word20
<1> QED
  BY SMT, <1>1, <1>2 DEF Word32, Word20

(* A number of 32 bits is put together again from its bytes.               *)
LEMMA FromBytes ==
  ASSUME NEW n \in Word32
  PROVE  ((((n \div 16777216) % 256) * 256 + ((n \div 65536) % 256)) * 256
            + ((n \div 256) % 256)) * 256 + (n % 256) = n
<1> DEFINE a == n \div 256   b == a \div 256   c == b \div 256
<1>1. a \in Nat /\ n = 256 * a + (n % 256) /\ n \div 65536 = a \div 256
  BY SMT DEF Word32
<1>2. b \in Nat /\ a = 256 * b + (a % 256) /\ n \div 16777216 = b \div 256
  BY SMT, <1>1 DEF Word32
<1>3. c \in 0 .. 255 /\ b = 256 * c + (b % 256)
  BY SMT, <1>2 DEF Word32
<1>4. c % 256 = c
  BY SMT, <1>3
<1>5. n \div 256 = a /\ n \div 65536 = b /\ n \div 16777216 = c
  BY SMT, <1>1, <1>2
<1> HIDE DEF a, b, c
<1>6. 256 * b + (a % 256) = a /\ 256 * c + (b % 256) = b /\ c % 256 = c
  BY SMT, <1>2, <1>3, <1>4
<1>7. ((c % 256) * 256 + (b % 256)) = b
  BY SMT, <1>3, <1>6
<1>8. b * 256 + (a % 256) = a
  BY SMT, <1>2, <1>6
<1> QED
  BY SMT, <1>1, <1>5, <1>7, <1>8 DEF Word32

(* Shifting by two bytes is shifting by one twice.                         *)
LEMMA TwoBytes ==
  ASSUME NEW n \in Nat
  PROVE  n \div 65536 = (n \div 256) \div 256
BY SMT

(* So is a stored limit, of 20 bits, next to the flags.                    *)
LEMMA FromBytesAndNibble ==
  ASSUME NEW n \in Word20, NEW flags \in {64, 192}
  PROVE  /\ (((flags + ((n \div 65536) % 16)) % 16) * 256 + ((n \div 256) % 256)) * 256
              + (n % 256) = n
         /\ (flags + ((n \div 65536) % 16)) \div 64 = 3 <=> flags = 192
<1> DEFINE a == n \div 256   b == a \div 256
<1>1. a \in 0 .. 4095 /\ n = 256 * a + (n % 256)
  BY SMT DEF Word20
<1>0. n \in Nat
  BY SMT DEF Word20
<1>5. n \div 256 = a /\ n \div 65536 = b
  BY <1>0, TwoBytes
<1> HIDE DEF a
<1>2. b \in 0 .. 15 /\ a = 256 * b + (a % 256)
  BY SMT, <1>1
<1>3. b % 16 = b /\ (flags + b) % 16 = b
  BY SMT, <1>2
<1>4. (flags + b) \div 64 = 3 <=> flags = 192
  BY SMT, <1>2
<1> HIDE DEF b
<1>6. b * 256 + (a % 256) = a
  BY SMT, <1>1, <1>2
<1> QED
  BY SMT, <1>1, <1>3, <1>4, <1>5, <1>6 DEF Word20

(* Every descriptor gives back its base, and a limit that is at most the   *)
(* one asked for and less than a page below it.                            *)
THEOREM DescriptorsDescribe ==
  ASSUME NEW base \in Word32, NEW limit \in Word32, NEW type \in 0 .. 255
  PROVE  Describes(SegmentDescriptor(base, limit, type), base, limit)
<1> DEFINE t == SegmentDescriptor(base, limit, type)
           l == Stored(limit)
<1>1. /\ t[0] = l % 256 /\ t[1] = (l \div 256) % 256
      /\ t[2] = base % 256 /\ t[3] = (base \div 256) % 256
      /\ t[4] = (base \div 65536) % 256 /\ t[7] = (base \div 16777216) % 256
      /\ t[6] = Flags(limit) + ((l \div 65536) % 16)
  BY SMT DEF SegmentDescriptor
<1>2. Base(t) = base
  <2> HIDE DEF t
  <2> QED
    BY SMT, <1>1, FromBytes DEF Base
<1>3. l \in Word20
  BY SMT, StoredFits
<1>4. Limit(t) = IF Paged(limit) THEN l * 4096 + 4095 ELSE l
  <2>1. Flags(limit) \in {64, 192} /\ (Flags(limit) = 192 <=> Paged(limit))
    BY SMT DEF Flags
  <2> HIDE DEF l, t
  <2>2. /\ ((t[6] % 16) * 256 + t[1]) * 256 + t[0] = l
        /\ t[6] \div 64 = 3 <=> Paged(limit)
    BY SMT, <1>1, <1>3, <2>1, FromBytesAndNibble
  <2> QED
    BY SMT, <2>2 DEF Limit
<1>5. Limit(t) <= limit /\ limit - Limit(t) <= 4095
  <2>1. CASE limit <= 65536
    BY SMT, <1>4, <2>1 DEF Stored, Paged, Word32
  <2>2. CASE limit > 65536
    <3> DEFINE q == limit \div 4096   r == limit % 4096
    <3>1. q \in Int /\ r \in 0 .. 4095 /\ limit = 4096 * q + r
      BY SMT, <2>2 DEF Word32
    <3>2. Stored(limit) = IF r # 4095 THEN q - 1 ELSE q
      BY SMT, <2>2 DEF Stored, Paged, Word32
    <3>3. Limit(t) = Stored(limit) * 4096 + 4095
      BY SMT, <1>4, <2>2 DEF Paged, Word32
    <3> HIDE DEF q, r, t
    <3> QED
      BY SMT, <3>1, <3>2, <3>3
  <2> QED
    BY SMT, <2>1, <2>2 DEF Word32
<1> QED
  BY SMT, <1>2, <1>5 DEF Describes

-----------------------------------------------------------------------------
(* PCI addresses.                                                          *)

Bytes == 0 .. 255
DeviceNumbers == 0 .. 31
FunctionNumbers == 0 .. 7

(* An address designates the bus, device and function it was made from,    *)
(* and the dword of the register: no field runs into another.              *)
THEOREM IdsDesignate ==
  ASSUME NEW b \in Bytes, NEW d \in DeviceNumbers, NEW f \in FunctionNumbers, NEW o \in Bytes
  PROVE  /\ IdBus(Id(b, d, f, o)) = b
         /\ IdDevice(Id(b, d, f, o)) = d
         /\ IdFunction(Id(b, d, f, o)) = f
         /\ IdRegister(Id(b, d, f, o)) + (o % 4) = o
<1> USE DEF Bytes, DeviceNumbers, FunctionNumbers
<1> DEFINE r == 4 * (o \div 4)
           id == b * 65536 + d * 2048 + f * 256 + r
<1>1. r \in 0 .. 255 /\ r + (o % 4) = o
  BY SMT
<1>2. Id(b, d, f, o) = id
  <2>1. b % 256 = b /\ d % 32 = d /\ f % 8 = f /\ o % 256 = o
    BY SMT
  <2> QED
    BY SMT, <2>1 DEF Id
<1> HIDE DEF r
<1>3. id \div 65536 = b
  BY SMT, <1>1
<1>4. (id \div 2048) % 32 = d
  <2>1. id \div 2048 = b * 32 + d
    BY SMT, <1>1
  <2> QED
    BY SMT, <2>1
<1>5. (id \div 256) % 8 = f
  <2>1. id \div 256 = (b * 32 + d) * 8 + f
    BY SMT, <1>1
  <2> QED
    BY SMT, <2>1
<1>6. id % 256 = r
  BY SMT, <1>1
<1> QED
  BY SMT, <1>1, <1>2, <1>3, <1>4, <1>5, <1>6 DEF IdBus, IdDevice, IdFunction, IdRegister

-----------------------------------------------------------------------------
(* The scan of the bus.                                                    *)

(* The functions that are there.                                           *)
Places == {<<s[1], s[2], f>> : s \in Slots, f \in 0 .. MAX_FUNC_PER_DEVICE - 1}
Present(p) == p[3] \in DOMAIN devices[<<p[1], p[2]>>]

(* The loops have passed a place.                                          *)
Passed(p) ==
  \/ p[1] < bus
  \/ p[1] = bus /\ p[2] < device
  \/ p[1] = bus /\ p[2] = device /\ numFunctions # 0 /\ p[3] < function

(* An address of the last I/O register of those before bar.                *)
PortSeen(h, port, bar) ==
  h.type = 0 =>
    \A k \in IoBars(h) :
      k < bar /\ (\A j \in IoBars(h) : j < bar => j <= k)
        => port = h.bars[k] - (h.bars[k] % 4)

Header(p) == devices[<<p[1], p[2]>>][p[3]]
Here == <<bus, device, function>>

LoopsOK ==
  /\ devices \in [Slots -> DeviceKinds]
  /\ bus \in 0 .. MAX_PCI_BUS /\ device \in 0 .. MAX_DEVICE_PER_PCI_BUS - 1
  /\ ScanDone => device = 0 /\ numFunctions = 0
  /\ barNum \in -1 .. MAX_BAR
  /\ portBase \in Nat /\ function \in Nat
  /\ numFunctions = 0 => barNum = -1
  /\ numFunctions # 0 =>
       /\ numFunctions = Functions(bus, device)
       /\ function \in 0 .. numFunctions
  /\ barNum # -1 =>
       /\ function < numFunctions /\ Present(Here)
       /\ PortSeen(Header(Here), portBase, barNum)

Finding == [at : Places, portBase : Nat]

FoundOK ==
  /\ found \in Seq(Finding)
  /\ \A n \in 1 .. Len(found) :
       /\ Present(found[n].at) /\ Passed(found[n].at)
       /\ PortSeen(Header(found[n].at), found[n].portBase, MAX_BAR)
  /\ \A n, m \in 1 .. Len(found) : found[n].at = found[m].at => n = m

NoneMissed ==
  \A p \in Places : Present(p) /\ Passed(p) => \E n \in 1 .. Len(found) : found[n].at = p

ScanInv == LoopsOK /\ FoundOK /\ NoneMissed

(* What is known of a device: its functions, and those of one that does    *)
(* not look at the number it is asked for.                                 *)
LEMMA DeviceFacts ==
  ASSUME NEW d \in DeviceKinds
  PROVE  /\ DOMAIN d \subseteq 0 .. MAX_FUNC_PER_DEVICE - 1
         /\ \A f \in DOMAIN d : d[f] \in PciHeader
         /\ d = Absent => DOMAIN d = {} /\ ~Multi(d)
         /\ d # Absent => 0 \in DOMAIN d
         /\ d # Absent /\ ~Multi(d) => DOMAIN d = {0}
<1>1. IsDevice(d) /\ MAX_FUNC_PER_DEVICE \in 1 .. 8
  BY PciAssumption
<1>2. CASE d = Absent
  <2>1. DOMAIN d = {}
    BY <1>2 DEF Absent
  <2>2. Cardinality({}) = 0
    BY FS_EmptySet
  <2> QED
    BY <1>2, <2>1, <2>2 DEF Multi
<1>3. CASE d # Absent
  <2>1. DOMAIN d \subseteq 0 .. MAX_FUNC_PER_DEVICE - 1 /\ 0 \in DOMAIN d
        /\ \A f \in DOMAIN d : d[f] \in PciHeader
    BY <1>1, <1>3 DEF IsDevice
  <2>2. IsFiniteSet(DOMAIN d)
    <3>1. IsFiniteSet(0 .. MAX_FUNC_PER_DEVICE - 1)
      BY <1>1, FS_Interval
    <3> QED
      BY <2>1, <3>1, FS_Subset
  <2>3. ASSUME ~Multi(d) PROVE DOMAIN d = {0}
    <3>1. Cardinality(DOMAIN d) \in Nat /\ Cardinality(DOMAIN d) <= 1
      BY <2>2, <2>3, FS_CardinalityType DEF Multi
    <3>2. Cardinality(DOMAIN d) # 0
      BY <2>1, <2>2, FS_EmptySet
    <3>3. Cardinality(DOMAIN d) = 1
      BY <3>1, <3>2
    <3>4. PICK x : DOMAIN d = {x}
      BY <2>2, <3>3, FS_Singleton
    <3> QED
      BY <2>1, <3>4
  <2> QED
    BY <1>3, <2>1, <2>3
<1> QED
  BY <1>2, <1>3

LEMMA HeaderFields ==
  ASSUME NEW h \in PciHeader
  PROVE  /\ h.vendor \notin {0, 65535}
         /\ h.type \in 0 .. 127
         /\ h.bars \in [0 .. 5 -> Nat]
<1>1. h.vendor \in VendorIds /\ h.type \in HeaderTypes /\ h.bars \in Bars6
  BY DEF PciHeader
<1>2. ASSUME NEW v \in VendorIds PROVE v \notin {0, 65535}
  BY SMT DEF VendorIds
<1> QED
  BY <1>1, <1>2 DEF HeaderTypes, Bars6

(* What a function that is there answers, and what is read where none is.  *)
LEMMA Answers ==
  ASSUME NEW d \in DeviceKinds
  PROVE  /\ \A f \in DOMAIN d :
              /\ Register(d, f, 0) = d[f].vendor
              /\ Register(d, f, 14) % 128 = d[f].type
              /\ \A k \in 0 .. 5 : Register(d, f, 16 + 4 * k) = d[f].bars[k]
         /\ \A f : f \notin DOMAIN d /\ (d = Absent \/ Multi(d)) => Register(d, f, 0) = 65535
         /\ Register(d, 0, 14) \div 128 = 1 <=> d = Absent \/ Multi(d)
<1>1. ASSUME NEW f \in DOMAIN d
      PROVE  /\ Register(d, f, 0) = d[f].vendor
             /\ Register(d, f, 14) = d[f].type + (IF Multi(d) THEN 128 ELSE 0)
             /\ \A k \in 0 .. 5 : Register(d, f, 16 + 4 * k) = d[f].bars[k]
  <2>1. d # Absent
    BY DeviceFacts
  <2>2. Register(d, f, 0) = d[f].vendor
    BY <2>1 DEF Register
  <2>3. Register(d, f, 14) = d[f].type + (IF Multi(d) THEN 128 ELSE 0)
    BY <2>1 DEF Register
  <2>4. ASSUME NEW k \in 0 .. 5 PROVE Register(d, f, 16 + 4 * k) = d[f].bars[k]
    <3>1. 16 + 4 * k # 0 /\ 16 + 4 * k # 14 /\ 16 + 4 * k >= 16 /\ ((16 + 4 * k) - 16) \div 4 = k
      OBVIOUS
    <3> DEFINE o == 16 + 4 * k
    <3> HIDE DEF o
    <3>2. o # 0 /\ o # 14 /\ o >= 16 /\ (o - 16) \div 4 = k
      BY <3>1 DEF o
    <3>3. Register(d, f, o) = d[f].bars[k]
      BY <3>2 DEF Register
    <3> QED
      BY <3>3 DEF o
  <2> QED
    BY <2>2, <2>3, <2>4
<1>2. ASSUME NEW f \in DOMAIN d
      PROVE  /\ d[f].type \in 0 .. 127
             /\ (d[f].type + 128) % 128 = d[f].type /\ (d[f].type + 128) \div 128 = 1
             /\ (d[f].type + 0) % 128 = d[f].type /\ (d[f].type + 0) \div 128 = 0
  <2>1. d[f].type \in 0 .. 127
    <3>1. d[f] \in PciHeader
      BY DeviceFacts
    <3> QED
      BY <3>1, HeaderFields
  <2> QED
    BY <2>1
<1>3. ASSUME NEW f, f \notin DOMAIN d, d = Absent \/ Multi(d) PROVE Register(d, f, 0) = 65535
  BY <1>3 DEF Register
<1>4. Register(d, 0, 14) \div 128 = 1 <=> d = Absent \/ Multi(d)
  <2>1. CASE d = Absent
    <3>1. Register(d, 0, 14) = 255
      BY <2>1 DEF Register
    <3> QED
      BY <2>1, <3>1
  <2>2. CASE d # Absent
    BY <1>1, <1>2, <2>2, DeviceFacts
  <2> QED
    BY <2>1, <2>2
<1> QED
  BY <1>1, <1>2, <1>3, <1>4

(* What the ports give for a place of the loops is what is there.          *)
LEMMA Reads ==
  ASSUME LoopsOK, ~ScanDone, NEW f \in FunctionNumbers, NEW o \in Bytes
  PROVE  Read(bus, device, f, o) = Register(devices[<<bus, device>>], f, o)
<1>1. bus \in Bytes /\ device \in DeviceNumbers
  BY PciAssumption DEF LoopsOK, ScanDone, Bytes, DeviceNumbers
<1> QED
  BY <1>1, IdsDesignate DEF Read

(* The loop over the functions of a device reaches all it has, and the     *)
(* vendor tells those that are there.                                      *)
LEMMA LoopReaches ==
  ASSUME LoopsOK, ~ScanDone, NEW d, d = devices[<<bus, device>>]
  PROVE  /\ d \in DeviceKinds
         /\ Functions(bus, device) \in 1 .. MAX_FUNC_PER_DEVICE
         /\ DOMAIN d \subseteq 0 .. Functions(bus, device) - 1
         /\ \A f \in 0 .. Functions(bus, device) - 1 :
              Read(bus, device, f, 0) \in {0, 65535} <=> f \notin DOMAIN d
<1>1. <<bus, device>> \in Slots
  <2>1. bus \in 0 .. MAX_PCI_BUS - 1 /\ device \in 0 .. MAX_DEVICE_PER_PCI_BUS - 1
    BY PciAssumption DEF LoopsOK, ScanDone
  <2> QED
    BY <2>1 DEF Slots
<1>2. d \in DeviceKinds
  BY <1>1 DEF LoopsOK
<1>3. MAX_FUNC_PER_DEVICE \in 1 .. 8
  BY PciAssumption
<1>4. Functions(bus, device) = IF d = Absent \/ Multi(d) THEN MAX_FUNC_PER_DEVICE ELSE 1
  <2>1. Read(bus, device, 0, 14) = Register(d, 0, 14)
    <3>1. 0 \in FunctionNumbers /\ 14 \in Bytes
      BY DEF FunctionNumbers, Bytes
    <3> QED
      BY <3>1, Reads
  <2> QED
    BY <1>2, <2>1, Answers DEF Functions, DeviceHasFunctions
<1>5. DOMAIN d \subseteq 0 .. Functions(bus, device) - 1
  BY <1>2, <1>3, <1>4, DeviceFacts
<1>6. ASSUME NEW f \in 0 .. Functions(bus, device) - 1
      PROVE  Read(bus, device, f, 0) \in {0, 65535} <=> f \notin DOMAIN d
  <2>1. f \in FunctionNumbers
    BY <1>3, <1>4 DEF FunctionNumbers
  <2>2. Read(bus, device, f, 0) = Register(d, f, 0)
    <3>1. 0 \in Bytes
      BY DEF Bytes
    <3> QED
      BY <2>1, <3>1, Reads
  <2>3. CASE f \in DOMAIN d
    <3>1. Register(d, f, 0) = d[f].vendor /\ d[f] \in PciHeader
      BY <1>2, <2>3, Answers, DeviceFacts
    <3>2. d[f].vendor \notin {0, 65535}
      BY <3>1, HeaderFields
    <3> QED
      BY <2>2, <2>3, <3>1, <3>2
  <2>4. CASE f \notin DOMAIN d
    <3>1. d = Absent \/ Multi(d)
      BY <1>2, <1>4, <2>4, DeviceFacts
    <3> QED
      BY <1>2, <2>2, <2>4, <3>1, Answers
  <2> QED
    BY <2>3, <2>4
<1> QED
  BY <1>2, <1>3, <1>4, <1>5, <1>6

(* A place is a slot and a function number.                                *)
LEMMA PlaceParts ==
  ASSUME NEW p \in Places
  PROVE  /\ p[1] \in 0 .. MAX_PCI_BUS - 1 /\ p[2] \in 0 .. MAX_DEVICE_PER_PCI_BUS - 1
         /\ p[3] \in 0 .. MAX_FUNC_PER_DEVICE - 1
         /\ p[1] \in Nat /\ p[2] \in Nat /\ p[3] \in Nat
         /\ p = <<p[1], p[2], p[3]>> /\ <<p[1], p[2]>> \in Slots
<1>0. /\ MAX_PCI_BUS - 1 \in Nat /\ MAX_DEVICE_PER_PCI_BUS - 1 \in Nat
      /\ MAX_FUNC_PER_DEVICE - 1 \in Nat
  BY PciAssumption
<1>1. PICK s \in Slots, f \in 0 .. MAX_FUNC_PER_DEVICE - 1 : p = <<s[1], s[2], f>>
  BY DEF Places
<1>2. /\ s[1] \in 0 .. MAX_PCI_BUS - 1 /\ s[2] \in 0 .. MAX_DEVICE_PER_PCI_BUS - 1
      /\ s = <<s[1], s[2]>>
  BY DEF Slots
<1>3. \A n \in Nat : 0 .. n \subseteq Nat
  OBVIOUS
<1> QED
  BY <1>0, <1>1, <1>2, <1>3

LEMMA PlaceOf ==
  ASSUME NEW b \in 0 .. MAX_PCI_BUS - 1, NEW d \in 0 .. MAX_DEVICE_PER_PCI_BUS - 1,
         NEW f \in 0 .. MAX_FUNC_PER_DEVICE - 1
  PROVE  <<b, d, f>> \in Places
<1>1. <<b, d>> \in Slots
  BY DEF Slots
<1>2. <<b, d, f>> = << <<b, d>>[1], <<b, d>>[2], f>>
  OBVIOUS
<1> QED
  BY <1>1, <1>2 DEF Places

(* While the devices stay, so do the functions of the one looked at.       *)
LEMMA FunctionsStay ==
  ASSUME UNCHANGED <<devices, bus, device>>
  PROVE  Functions(bus, device)' = Functions(bus, device)
BY DEF Functions, DeviceHasFunctions, Read

(* What is known of what was found is kept by a step that finds nothing    *)
(* and passes no function that is there.                                   *)
LEMMA FindingsKept ==
  ASSUME FoundOK, NoneMissed, UNCHANGED <<devices, found>>,
         \A p \in Places : Present(p) => (Passed(p)' <=> Passed(p))
  PROVE  FoundOK' /\ NoneMissed'
<1>1. ASSUME NEW p \in Places PROVE Present(p)' <=> Present(p)
  BY DEF Present
<1>2. ASSUME NEW n \in 1 .. Len(found)
      PROVE  /\ found[n].at \in Places /\ Present(found[n].at) /\ Passed(found[n].at)
             /\ PortSeen(Header(found[n].at), found[n].portBase, MAX_BAR)
  <2>1. found \in Seq(Finding)
    BY DEF FoundOK
  <2>2. found[n] \in Finding
    BY <2>1
  <2> QED
    BY <2>2 DEF FoundOK, Finding
<1>3. FoundOK'
  <2>1. ASSUME NEW n \in 1 .. Len(found')
        PROVE  /\ Present(found[n].at)' /\ Passed(found[n].at)'
               /\ PortSeen(Header(found[n].at)', found'[n].portBase, MAX_BAR)
    <3>1. n \in 1 .. Len(found) /\ found'[n] = found[n]
      OBVIOUS
    <3>2. PICK p \in Places : p = found[n].at
      BY <1>2, <3>1
    <3>3. Present(p)' /\ Passed(p)'
      BY <1>1, <1>2, <3>1, <3>2
    <3>4. found'[n].at = p
      BY <3>1, <3>2
    <3>5. Present(found[n].at)' /\ Passed(found[n].at)'
      BY <3>3, <3>4 DEF Present, Passed
    <3>6. Header(found[n].at)' = Header(found[n].at)
      BY <3>1 DEF Header
    <3> QED
      BY <1>2, <3>1, <3>5, <3>6
  <2>2. /\ found' \in Seq(Finding)
        /\ \A n, m \in 1 .. Len(found') : found'[n].at = found'[m].at => n = m
    BY DEF FoundOK, Finding
  <2> QED
    BY <2>1, <2>2 DEF FoundOK, Finding
<1>4. NoneMissed'
  <2>1. ASSUME NEW p \in Places, Present(p)', Passed(p)'
        PROVE  \E n \in 1 .. Len(found') : found'[n].at = p
    BY <1>1, <2>1 DEF NoneMissed
  <2> QED
    BY <2>1 DEF NoneMissed
<1> QED
  BY <1>3, <1>4

LEMMA DeviceStarted ==
  ASSUME ScanInv, StartDevice
  PROVE  ScanInv'
<1>0. LoopsOK /\ FoundOK /\ NoneMissed
  BY DEF ScanInv
<1>1. /\ ~ScanDone /\ numFunctions = 0 /\ numFunctions' = Functions(bus, device) /\ function' = 0
      /\ UNCHANGED <<devices, bus, device, barNum, portBase, found>> /\ barNum = -1
  BY <1>0 DEF StartDevice, LoopsOK
<1>2. Functions(bus, device) \in 1 .. MAX_FUNC_PER_DEVICE
  BY <1>0, <1>1, LoopReaches
<1>3. Functions(bus, device)' = numFunctions'
  BY <1>1, FunctionsStay
<1>4. LoopsOK'
  <2>1. numFunctions' # 0 /\ function' \in 0 .. numFunctions' /\ function' \in Nat
    <3>1. MAX_FUNC_PER_DEVICE \in Nat
      BY PciAssumption
    <3> QED
      BY <1>1, <1>2, <3>1
  <2>2. ~ScanDone'
    BY <1>1 DEF ScanDone
  <2> QED
    BY <1>0, <1>1, <1>3, <2>1, <2>2 DEF LoopsOK
<1>5. ASSUME NEW p \in Places PROVE Passed(p)' <=> Passed(p)
  <2>1. p[3] \in Nat
    BY PlaceParts
  <2> QED
    BY <1>1, <2>1 DEF Passed
<1> QED
  BY <1>0, <1>1, <1>4, <1>5, FindingsKept DEF ScanInv

LEMMA DeviceEnded ==
  ASSUME ScanInv, EndDevice
  PROVE  ScanInv'
<1>0. LoopsOK /\ FoundOK /\ NoneMissed
  BY DEF ScanInv
<1>1. /\ ~ScanDone /\ numFunctions # 0 /\ function = numFunctions /\ numFunctions' = 0
      /\ device' = (device + 1) % MAX_DEVICE_PER_PCI_BUS
      /\ bus' = (IF device' = 0 THEN bus + 1 ELSE bus)
      /\ UNCHANGED <<devices, function, barNum, portBase, found>>
  BY DEF EndDevice
<1>2. /\ bus \in 0 .. MAX_PCI_BUS - 1 /\ device \in 0 .. MAX_DEVICE_PER_PCI_BUS - 1
      /\ MAX_PCI_BUS \in 1 .. 256 /\ MAX_DEVICE_PER_PCI_BUS \in 1 .. 32
  BY <1>0, <1>1, PciAssumption DEF LoopsOK, ScanDone
<1>3. barNum = -1 /\ numFunctions = Functions(bus, device) /\ function \in Nat
  BY <1>0, <1>1 DEF LoopsOK
<1>4. \/ device + 1 < MAX_DEVICE_PER_PCI_BUS /\ device' = device + 1 /\ bus' = bus
      \/ device + 1 = MAX_DEVICE_PER_PCI_BUS /\ device' = 0 /\ bus' = bus + 1
  <2>1. ASSUME NEW n \in 1 .. 32, NEW d \in 0 .. n - 1
        PROVE  (d + 1) % n = IF d + 1 = n THEN 0 ELSE d + 1
    OBVIOUS
  <2>2. device' = IF device + 1 = MAX_DEVICE_PER_PCI_BUS THEN 0 ELSE device + 1
    BY <1>1, <1>2, <2>1
  <2> QED
    BY <1>1, <1>2, <2>2
<1>5. LoopsOK'
  BY <1>0, <1>1, <1>2, <1>3, <1>4, PciAssumption DEF LoopsOK, ScanDone
<1>6. ASSUME NEW p \in Places, Present(p) PROVE Passed(p)' <=> Passed(p)
  <2>1. p[1] \in 0 .. MAX_PCI_BUS - 1 /\ p[2] \in 0 .. MAX_DEVICE_PER_PCI_BUS - 1
    BY PlaceParts
  <2>2. ASSUME p[1] = bus, p[2] = device PROVE p[3] < function
    <3>1. p[3] \in DOMAIN devices[<<bus, device>>]
      BY <1>6, <2>2 DEF Present
    <3>2. p[3] \in 0 .. Functions(bus, device) - 1
      BY <1>0, <1>1, <3>1, LoopReaches
    <3> QED
      BY <1>1, <1>3, <3>2
  <2>3. Passed(p) <=> p[1] < bus \/ (p[1] = bus /\ p[2] <= device)
    BY <1>1, <1>2, <2>1, <2>2 DEF Passed
  <2>4. Passed(p)' <=> p[1] < bus' \/ (p[1] = bus' /\ p[2] < device')
    BY <1>1 DEF Passed
  <2> QED
    BY <1>2, <1>4, <2>1, <2>3, <2>4
<1> QED
  BY <1>0, <1>1, <1>5, <1>6, FindingsKept DEF ScanInv

(* Where the loops are, when they look at a function.                      *)
LEMMA AtFunction ==
  ASSUME LoopsOK, ~ScanDone, function < numFunctions
  PROVE  /\ numFunctions = Functions(bus, device) /\ function \in 0 .. numFunctions - 1
         /\ Here \in Places /\ <<bus, device>> \in Slots
         /\ function \in FunctionNumbers
<1>1. bus \in 0 .. MAX_PCI_BUS - 1 /\ device \in 0 .. MAX_DEVICE_PER_PCI_BUS - 1
  BY PciAssumption DEF LoopsOK, ScanDone
<1>2. numFunctions # 0
  BY DEF LoopsOK
<1>3. numFunctions = Functions(bus, device) /\ function \in 0 .. numFunctions
  BY <1>2 DEF LoopsOK
<1>4. Functions(bus, device) \in 1 .. MAX_FUNC_PER_DEVICE /\ MAX_FUNC_PER_DEVICE \in 1 .. 8
  BY LoopReaches, PciAssumption
<1>5. function \in 0 .. numFunctions - 1 /\ function \in 0 .. MAX_FUNC_PER_DEVICE - 1
  BY <1>3, <1>4
<1>6. Here \in Places
  BY <1>1, <1>5, PlaceOf DEF Here
<1> QED
  BY <1>1, <1>3, <1>4, <1>5, <1>6 DEF Slots, FunctionNumbers

(* Passing a function adds its place to those passed.                      *)
LEMMA PassingHere ==
  ASSUME LoopsOK, ~ScanDone, function < numFunctions, function' = function + 1,
         UNCHANGED <<bus, device, numFunctions>>, NEW p \in Places
  PROVE  /\ Passed(p)' <=> Passed(p) \/ p = Here
         /\ ~Passed(Here)
<1>1. p[1] \in Nat /\ p[2] \in Nat /\ p[3] \in Nat /\ p = <<p[1], p[2], p[3]>>
  BY PlaceParts
<1>2. bus \in Nat /\ device \in Nat /\ function \in Nat /\ numFunctions # 0
  BY PciAssumption DEF LoopsOK
<1>3. Here[1] = bus /\ Here[2] = device /\ Here[3] = function
  BY DEF Here
<1>4. p = Here <=> p[1] = bus /\ p[2] = device /\ p[3] = function
  BY <1>1, <1>3 DEF Here
<1> QED
  BY <1>1, <1>2, <1>3, <1>4 DEF Passed

LEMMA FunctionStarted ==
  ASSUME ScanInv, StartFunction
  PROVE  ScanInv'
<1>0. LoopsOK /\ FoundOK /\ NoneMissed
  BY DEF ScanInv
<1>1. /\ ~ScanDone /\ function < numFunctions /\ barNum = -1
      /\ UNCHANGED <<devices, bus, device, numFunctions, found>>
  BY DEF StartFunction
<1>2. /\ numFunctions = Functions(bus, device) /\ function \in 0 .. numFunctions - 1
      /\ Here \in Places
  BY <1>0, <1>1, AtFunction
<1>3. Functions(bus, device)' = Functions(bus, device)
  BY <1>1, FunctionsStay
<1>4. Read(bus, device, function, 0) \in {0, 65535} <=> ~Present(Here)
  <2>1. Here[1] = bus /\ Here[2] = device /\ Here[3] = function
    BY DEF Here
  <2> QED
    BY <1>0, <1>1, <1>2, <2>1, LoopReaches DEF Present
<1>5. numFunctions # 0 /\ numFunctions \in Int
  BY <1>0, <1>1, <1>2, LoopReaches, PciAssumption
<1>6. CASE ~Present(Here)
  <2>1. function' = function + 1 /\ UNCHANGED <<barNum, portBase>>
    BY <1>4, <1>6 DEF StartFunction
  <2>2. LoopsOK'
    BY <1>0, <1>1, <1>2, <1>3, <1>5, <2>1 DEF LoopsOK, ScanDone
  <2>3. ASSUME NEW p \in Places, Present(p) PROVE Passed(p)' <=> Passed(p)
    BY <1>0, <1>1, <1>6, <2>1, <2>3, PassingHere
  <2> QED
    BY <1>0, <1>1, <2>2, <2>3, FindingsKept DEF ScanInv
<1>7. CASE Present(Here)
  <2>1. barNum' = 0 /\ portBase' \in Nat /\ UNCHANGED function
    <3>1. ~(Read(bus, device, function, 0) \in {0, 65535})
      BY <1>4, <1>7
    <3>2. barNum' = 0 /\ portBase' \in Leftovers /\ UNCHANGED function
      BY <3>1 DEF StartFunction
    <3>3. Leftovers \subseteq Nat
      BY PciAssumption
    <3> QED
      BY <3>2, <3>3
  <2>2. Present(Here)' /\ Header(Here)' = Header(Here)
    BY <1>1, <1>7, <2>1 DEF Present, Header, Here
  <2>3. PortSeen(Header(Here), portBase', 0)
    BY DEF PortSeen, IoBars
  <2>4. LoopsOK'
    <3>1. PortSeen(Header(Here), portBase, barNum)'
      BY <2>1, <2>2, <2>3 DEF PortSeen
    <3>2. 0 \in -1 .. MAX_BAR
      BY PciAssumption
    <3> QED
      BY <1>0, <1>1, <1>2, <1>3, <1>5, <2>1, <2>2, <3>1, <3>2 DEF LoopsOK, ScanDone
  <2>5. ASSUME NEW p \in Places PROVE Passed(p)' <=> Passed(p)
    BY <1>1, <2>1 DEF Passed
  <2> QED
    BY <1>0, <1>1, <2>4, <2>5, FindingsKept DEF ScanInv
<1> QED
  BY <1>6, <1>7

(* What a register's value says: the address of an I/O register is not 0   *)
(* when the value is more than its two flag bits.                          *)
LEMMA IoAddress ==
  ASSUME NEW v \in Nat
  PROVE  /\ v - (v % 4) \in Nat
         /\ v % 2 = 1 => (v - (v % 4) # 0 <=> v > 3)
OBVIOUS

(* What one more register adds to the port of a standard header.           *)
LEMMA OneMoreBar ==
  ASSUME NEW h \in PciHeader, NEW port, NEW bar \in 0 .. 5, PortSeen(h, port, bar),
         NEW next,
         h.type = 0 => next = IF bar \in IoBars(h) THEN h.bars[bar] - (h.bars[bar] % 4) ELSE port
  PROVE  PortSeen(h, next, bar + 1)
<1>1. SUFFICES ASSUME h.type = 0, NEW k \in IoBars(h), k < bar + 1,
                      \A j \in IoBars(h) : j < bar + 1 => j <= k
               PROVE  next = h.bars[k] - (h.bars[k] % 4)
  BY DEF PortSeen
<1>2. k \in 0 .. 5
  BY DEF IoBars
<1>3. CASE bar \in IoBars(h)
  <2>1. bar <= k
    BY <1>1, <1>3
  <2>2. k = bar
    BY <1>1, <1>2, <2>1
  <2> QED
    BY <1>1, <1>3, <2>2
<1>4. CASE bar \notin IoBars(h)
  <2>1. next = port
    BY <1>1, <1>4
  <2>2. k # bar
    BY <1>4
  <2>3. k < bar
    BY <1>1, <1>2, <2>2
  <2>4. ASSUME NEW j \in IoBars(h), j < bar PROVE j <= k
    <3>1. j \in 0 .. 5
      BY DEF IoBars
    <3>2. j < bar + 1
      BY <2>4, <3>1
    <3> QED
      BY <1>1, <3>2
  <2> QED
    BY <1>1, <2>1, <2>3, <2>4 DEF PortSeen
<1> QED
  BY <1>3, <1>4

(* What GetBaseAddressRegister may give for a register of the header.      *)
LEMMA BarsRead ==
  ASSUME LoopsOK, ~ScanDone, function < numFunctions, Present(Here), NEW bar \in 0 .. 5,
         NEW r \in GetBaseAddressRegister(bus, device, function, bar)
  PROVE  /\ r.pAddress \in Nat
         /\ Header(Here).type = 0 =>
              /\ r.io /\ r.pAddress # 0 <=> bar \in IoBars(Header(Here))
              /\ bar \in IoBars(Header(Here)) =>
                   r.pAddress = Header(Here).bars[bar] - (Header(Here).bars[bar] % 4)
<1> DEFINE d == devices[<<bus, device>>]
           h == Header(Here)
           v == Read(bus, device, function, 16 + 4 * bar)
           t == Read(bus, device, function, 14) % 128
<1>1. function \in FunctionNumbers /\ d \in DeviceKinds /\ function \in DOMAIN d /\ h = d[function]
  <2>1. Here[1] = bus /\ Here[2] = device /\ Here[3] = function
    BY DEF Here
  <2>2. function \in FunctionNumbers
    BY AtFunction
  <2>3. d \in DeviceKinds
    BY LoopReaches
  <2>4. function \in DOMAIN d /\ h = d[function]
    BY <2>1 DEF Present, Header
  <2> QED
    BY <2>2, <2>3, <2>4
<1>2. h \in PciHeader
  BY <1>1, DeviceFacts
<1>3. h.type \in 0 .. 127 /\ h.bars \in [0 .. 5 -> Nat]
  BY <1>2, HeaderFields
<1>4. 16 + 4 * bar \in Bytes /\ 14 \in Bytes
  BY DEF Bytes
<1>5. v = Register(d, function, 16 + 4 * bar)
  BY <1>1, <1>4, Reads
<1>6. Register(d, function, 16 + 4 * bar) = h.bars[bar]
  BY <1>1, Answers
<1>7. Read(bus, device, function, 14) = Register(d, function, 14)
  BY <1>1, <1>4, Reads
<1>8. t = h.type
  BY <1>1, <1>7, Answers
<1>9. v = h.bars[bar] /\ v \in Nat
  BY <1>3, <1>5, <1>6
<1>10. v - (v % 4) \in Nat /\ (v % 2 = 1 => (v - (v % 4) # 0 <=> v > 3))
  BY <1>9, IoAddress
<1>11. bar \in IoBars(h) <=> v % 2 = 1 /\ v > 3
  BY <1>9 DEF IoBars
<1>12. r \in (IF bar >= 6 - 4 * t
              THEN [io : BOOLEAN, pAddress : Leftovers]
              ELSE IF v % 2 = 1
                   THEN {[io |-> TRUE, pAddress |-> v - (v % 4)]}
                   ELSE [io : {FALSE}, pAddress : Leftovers])
  BY DEF GetBaseAddressRegister
<1> HIDE DEF v, t, h
<1>13. Leftovers \subseteq Nat
  BY PciAssumption
<1>14. CASE bar >= 6 - 4 * t
  <2>1. r \in [io : BOOLEAN, pAddress : Leftovers]
    BY <1>12, <1>14
  <2>2. h.type # 0
    BY <1>3, <1>8, <1>14
  <2> QED
    BY <1>13, <2>1, <2>2 DEF h
<1>15. CASE ~(bar >= 6 - 4 * t) /\ v % 2 = 1
  <2>1. r = [io |-> TRUE, pAddress |-> v - (v % 4)]
    BY <1>12, <1>15
  <2>2. r.io = TRUE /\ r.pAddress = v - (v % 4)
    BY <2>1
  <2> QED
    BY <1>9, <1>10, <1>11, <1>15, <2>2 DEF h
<1>16. CASE ~(bar >= 6 - 4 * t) /\ ~(v % 2 = 1)
  <2>1. r \in [io : {FALSE}, pAddress : Leftovers]
    BY <1>12, <1>16
  <2>2. r.io = FALSE /\ r.pAddress \in Nat
    BY <1>13, <2>1
  <2> QED
    BY <1>11, <1>16, <2>2 DEF h
<1> QED
  BY <1>14, <1>15, <1>16

LEMMA BarScanned ==
  ASSUME ScanInv, ScanBar
  PROVE  ScanInv'
<1>0. LoopsOK /\ FoundOK /\ NoneMissed
  BY DEF ScanInv
<1>1. /\ barNum \in 0 .. 5 /\ barNum' = barNum + 1 /\ MAX_BAR = 6
      /\ UNCHANGED <<devices, bus, device, function, numFunctions, found>>
  BY PciAssumption DEF ScanBar
<1>2. /\ function < numFunctions /\ Present(Here) /\ ~ScanDone
      /\ PortSeen(Header(Here), portBase, barNum)
  BY <1>0, <1>1 DEF LoopsOK
<1>3. Header(Here) \in PciHeader
  <2>1. Here[1] = bus /\ Here[2] = device /\ Here[3] = function
    BY DEF Here
  <2>2. devices[<<bus, device>>] \in DeviceKinds
    BY <1>0, <1>2, LoopReaches
  <2> QED
    BY <1>2, <2>1, <2>2, DeviceFacts DEF Present, Header
<1>4. PICK r \in GetBaseAddressRegister(bus, device, function, barNum) :
        portBase' = IF r.io /\ r.pAddress # 0 THEN r.pAddress ELSE portBase
  BY DEF ScanBar
<1>5. /\ r.pAddress \in Nat
      /\ Header(Here).type = 0 =>
           /\ r.io /\ r.pAddress # 0 <=> barNum \in IoBars(Header(Here))
           /\ barNum \in IoBars(Header(Here)) =>
                r.pAddress = Header(Here).bars[barNum] - (Header(Here).bars[barNum] % 4)
  BY <1>0, <1>1, <1>2, <1>4, BarsRead
<1>6. PortSeen(Header(Here), portBase', barNum + 1)
  <2>1. Header(Here).type = 0 =>
          portBase' = IF barNum \in IoBars(Header(Here))
                      THEN Header(Here).bars[barNum] - (Header(Here).bars[barNum] % 4)
                      ELSE portBase
    BY <1>4, <1>5
  <2> QED
    BY <1>1, <1>2, <1>3, <2>1, OneMoreBar
<1>7. portBase' \in Nat
  BY <1>0, <1>4, <1>5 DEF LoopsOK
<1>8. Functions(bus, device)' = Functions(bus, device)
  BY <1>1, FunctionsStay
<1>9. Present(Here)' /\ Header(Here)' = Header(Here)
  BY <1>1, <1>2 DEF Present, Header, Here
<1>10. PortSeen(Header(Here), portBase, barNum)'
  BY <1>1, <1>6, <1>9 DEF PortSeen
<1>11. LoopsOK'
  <2>1. barNum' \in -1 .. MAX_BAR /\ barNum' # -1 /\ numFunctions # 0
    BY <1>0, <1>1 DEF LoopsOK
  <2> QED
    BY <1>0, <1>1, <1>2, <1>7, <1>8, <1>9, <1>10, <2>1 DEF LoopsOK, ScanDone
<1>12. ASSUME NEW p \in Places PROVE Passed(p)' <=> Passed(p)
  BY <1>1 DEF Passed
<1> QED
  BY <1>0, <1>1, <1>11, <1>12, FindingsKept DEF ScanInv

(* What is found is where the loops are, and they had not been there.      *)
LEMMA FunctionEnded ==
  ASSUME ScanInv, EndFunction
  PROVE  ScanInv'
<1>0. LoopsOK /\ FoundOK /\ NoneMissed
  BY DEF ScanInv
<1> DEFINE new == [at |-> Here, portBase |-> portBase]
<1>1. /\ barNum = MAX_BAR /\ barNum' = -1 /\ function' = function + 1 /\ MAX_BAR = 6
      /\ found' = Append(found, new)
      /\ UNCHANGED <<devices, bus, device, numFunctions, portBase>>
  BY PciAssumption DEF EndFunction, Here
<1>2. /\ function < numFunctions /\ Present(Here) /\ ~ScanDone
      /\ PortSeen(Header(Here), portBase, MAX_BAR) /\ portBase \in Nat
  BY <1>0, <1>1 DEF LoopsOK
<1>3. /\ Here \in Places /\ numFunctions = Functions(bus, device)
      /\ function \in 0 .. numFunctions - 1
  BY <1>0, <1>2, AtFunction
<1>4. Functions(bus, device)' = Functions(bus, device)
  BY <1>1, FunctionsStay
<1>5. LoopsOK'
  <2>1. numFunctions \in Int /\ numFunctions # 0
    BY <1>0, <1>2, <1>3, LoopReaches, PciAssumption
  <2>2. -1 \in -1 .. MAX_BAR
    BY <1>1
  <2> QED
    BY <1>0, <1>1, <1>2, <1>3, <1>4, <2>1, <2>2 DEF LoopsOK, ScanDone
<1>6. /\ ~Passed(Here)
      /\ \A p \in Places : Passed(p)' <=> Passed(p) \/ p = Here
  BY <1>0, <1>1, <1>2, <1>3, PassingHere
<1>7. \A p \in Places : (Present(p)' <=> Present(p)) /\ Header(p)' = Header(p)
  BY <1>1 DEF Present, Header
<1>8. new \in Finding /\ new.at = Here /\ new.portBase = portBase
  BY <1>2, <1>3 DEF Finding
<1>9. /\ found \in Seq(Finding)
      /\ \A n \in 1 .. Len(found) :
           /\ Present(found[n].at) /\ Passed(found[n].at)
           /\ PortSeen(Header(found[n].at), found[n].portBase, MAX_BAR)
      /\ \A n, m \in 1 .. Len(found) : found[n].at = found[m].at => n = m
  BY <1>0 DEF FoundOK
<1> HIDE DEF new
<1>10. /\ found' \in Seq(Finding) /\ Len(found') = Len(found) + 1
       /\ \A n \in 1 .. Len(found) : found'[n] = found[n]
       /\ found'[Len(found) + 1] = new
  BY <1>1, <1>8, <1>9, AppendProperties
<1>11. Len(found) \in Nat
  BY <1>9
<1>12. \A n \in 1 .. Len(found') : n \in 1 .. Len(found) \/ n = Len(found) + 1
  BY <1>10, <1>11
<1>13. ASSUME NEW n \in 1 .. Len(found)
       PROVE  found[n] \in Finding /\ found[n].at \in Places /\ found[n].portBase \in Nat
  <2>1. found[n] \in Finding
    BY <1>9
  <2> QED
    BY <2>1 DEF Finding
<1>14. ASSUME NEW n \in 1 .. Len(found')
       PROVE  /\ Present(found[n].at)' /\ Passed(found[n].at)'
              /\ PortSeen(Header(found[n].at)', found'[n].portBase, MAX_BAR)
  <2>1. PICK p \in Places, port \in Nat :
          /\ p = found'[n].at /\ port = found'[n].portBase
          /\ Present(p) /\ (Passed(p) \/ p = Here) /\ PortSeen(Header(p), port, MAX_BAR)
    <3>1. CASE n \in 1 .. Len(found)
      BY <1>9, <1>10, <1>13, <3>1
    <3>2. CASE n = Len(found) + 1
      BY <1>2, <1>3, <1>8, <1>10, <3>2
    <3> QED
      BY <1>12, <3>1, <3>2
  <2>2. Present(p)' /\ Passed(p)' /\ Header(p)' = Header(p)
    BY <1>6, <1>7, <2>1
  <2>3. Present(found[n].at)' /\ Passed(found[n].at)'
    BY <2>1, <2>2 DEF Present, Passed
  <2>4. Header(found[n].at)' = Header(p)
    BY <2>1, <2>2 DEF Header
  <2> QED
    BY <2>1, <2>3, <2>4
<1>15. \A n \in 1 .. Len(found) : found[n].at # Here
  BY <1>6, <1>9
<1>16. ASSUME NEW n \in 1 .. Len(found'), NEW m \in 1 .. Len(found'), found'[n].at = found'[m].at
       PROVE  n = m
  BY <1>8, <1>9, <1>10, <1>12, <1>15, <1>16
<1>17. FoundOK'
  BY <1>10, <1>14, <1>16 DEF FoundOK, Finding
<1>18. ASSUME NEW p \in Places, Present(p)', Passed(p)'
       PROVE  \E n \in 1 .. Len(found') : found'[n].at = p
  <2>1. CASE p = Here
    <3>1. Len(found) + 1 \in 1 .. Len(found') /\ found'[Len(found) + 1].at = p
      BY <1>8, <1>10, <1>11, <2>1
    <3> QED
      BY <3>1
  <2>2. CASE p # Here
    <3>1. PICK n \in 1 .. Len(found) : found[n].at = p
      BY <1>0, <1>6, <1>7, <1>18, <2>2 DEF NoneMissed
    <3>2. n \in 1 .. Len(found') /\ found'[n].at = p
      BY <1>10, <1>11, <3>1
    <3> QED
      BY <3>2
  <2> QED
    BY <2>1, <2>2
<1>19. NoneMissed'
  BY <1>18 DEF NoneMissed
<1> QED
  BY <1>5, <1>17, <1>19 DEF ScanInv

LEMMA ScanStarts == PciInit => ScanInv
<1> SUFFICES ASSUME PciInit PROVE ScanInv
  OBVIOUS
<1>1. /\ devices \in [Slots -> DeviceKinds] /\ bus = 0 /\ device = 0 /\ function = 0
      /\ numFunctions = 0 /\ barNum = -1 /\ portBase \in Nat /\ found = << >>
  BY PciAssumption DEF PciInit
<1>2. 0 \in 0 .. MAX_PCI_BUS /\ 0 \in 0 .. MAX_DEVICE_PER_PCI_BUS - 1 /\ -1 \in -1 .. MAX_BAR
  BY PciAssumption
<1>3. LoopsOK
  BY <1>1, <1>2 DEF LoopsOK
<1>4. FoundOK
  BY <1>1 DEF FoundOK
<1>5. ASSUME NEW p \in Places PROVE ~Passed(p)
  <2>1. p[1] \in Nat /\ p[2] \in Nat
    BY PlaceParts
  <2> QED
    BY <1>1, <2>1 DEF Passed
<1> QED
  BY <1>3, <1>4, <1>5 DEF ScanInv, NoneMissed

(* The scan's steps are the only ones that touch its state.                *)
LEMMA ScanSteps ==
  ASSUME ScanInv, [BootNext]_bootVars
  PROVE  ScanInv'
<1>1. CASE SelectDrivers
  BY <1>1, DeviceStarted, DeviceEnded, FunctionStarted, BarScanned, FunctionEnded
     DEF SelectDrivers
<1>2. CASE UNCHANGED pciVars
  <2>1. UNCHANGED <<devices, bus, device, function, numFunctions, barNum, portBase, found>>
    BY <1>2 DEF pciVars, loops
  <2>2. LoopsOK'
    <3>1. Functions(bus, device)' = Functions(bus, device)
      BY <2>1, FunctionsStay
    <3>2. ScanDone' <=> ScanDone
      BY <2>1 DEF ScanDone
    <3>3. (Present(Here)' <=> Present(Here)) /\ Header(Here)' = Header(Here)
      BY <2>1 DEF Present, Header, Here
    <3>4. PortSeen(Header(Here), portBase, barNum)' <=> PortSeen(Header(Here), portBase, barNum)
      BY <2>1, <3>3 DEF PortSeen
    <3> QED
      BY <2>1, <3>1, <3>2, <3>3, <3>4 DEF ScanInv, LoopsOK
  <2>3. ASSUME NEW p \in Places PROVE Passed(p)' <=> Passed(p)
    BY <2>1 DEF Passed
  <2>4. FoundOK' /\ NoneMissed'
    BY <2>1, <2>3, FindingsKept DEF ScanInv
  <2> QED
    BY <2>2, <2>4 DEF ScanInv
<1>3. SelectDrivers \/ UNCHANGED pciVars
  BY DEF BootNext, ConstructGdt, ConstructMemoryManager, ConstructInterrupts, ConstructHandler,
     Scan, ActivateAll, SwitchMode, AddWindows, ReadDisks, EnableInterrupts, Loop, Elsewhere,
     bootVars
<1> QED
  BY <1>1, <1>2, <1>3

(* Whatever is on the bus and whatever uninitialised variables hold, each  *)
(* function is found once and has the port of its last I/O register.       *)
THEOREM ScanFindsAll == BootSpec => []ScanTrue
<1>1. ASSUME ScanInv, ScanDone PROVE ScanTrue
  <2>0. LoopsOK /\ FoundOK /\ NoneMissed
    BY <1>1 DEF ScanInv
  <2>1. ASSUME NEW p \in Places PROVE Passed(p)
    <3>1. p[1] \in 0 .. MAX_PCI_BUS - 1
      BY PlaceParts
    <3>2. MAX_PCI_BUS \in Nat
      BY PciAssumption
    <3>3. p[1] < MAX_PCI_BUS
      BY <3>1, <3>2
    <3> QED
      BY <1>1, <3>3 DEF Passed, ScanDone
  <2>2. ASSUME NEW n \in 1 .. Len(found)
        PROVE  /\ found[n].at \in Places /\ Present(found[n].at)
               /\ PortSeen(Header(found[n].at), found[n].portBase, MAX_BAR)
    <3>1. found \in Seq(Finding)
      BY <2>0 DEF FoundOK
    <3>2. found[n] \in Finding
      BY <3>1
    <3> QED
      BY <2>0, <3>2 DEF FoundOK, Finding
  <2> DEFINE There == UNION {{<<s[1], s[2], f>> : f \in DOMAIN devices[s]} : s \in Slots}
             Seen == {found[n].at : n \in 1 .. Len(found)}
  <2>3. ASSUME NEW p \in Seen PROVE p \in There
    <3>1. PICK n \in 1 .. Len(found) : p = found[n].at
      BY <2>3
    <3>2. p \in Places /\ Present(p)
      BY <2>2, <3>1
    <3>3. p = <<p[1], p[2], p[3]>> /\ <<p[1], p[2]>> \in Slots
      BY <3>2, PlaceParts
    <3>4. p[3] \in DOMAIN devices[<<p[1], p[2]>>]
      BY <3>2 DEF Present
    <3>5. PICK s \in Slots : s = <<p[1], p[2]>>
      BY <3>3
    <3>6. p = <<s[1], s[2], p[3]>> /\ p[3] \in DOMAIN devices[s]
      BY <3>3, <3>4, <3>5
    <3> QED
      BY <3>6
  <2>4. ASSUME NEW s \in Slots, NEW f \in DOMAIN devices[s] PROVE <<s[1], s[2], f>> \in Seen
    <3>1. /\ s[1] \in 0 .. MAX_PCI_BUS - 1 /\ s[2] \in 0 .. MAX_DEVICE_PER_PCI_BUS - 1
          /\ s = <<s[1], s[2]>>
      BY DEF Slots
    <3>2. f \in 0 .. MAX_FUNC_PER_DEVICE - 1
      BY <2>0, DeviceFacts DEF LoopsOK
    <3>3. PICK p \in Places : p = <<s[1], s[2], f>>
      BY <3>1, <3>2, PlaceOf
    <3>4. Present(p)
      BY <3>1, <3>3 DEF Present
    <3>5. PICK n \in 1 .. Len(found) : found[n].at = p
      BY <2>0, <2>1, <3>4 DEF NoneMissed
    <3> QED
      BY <3>3, <3>5
  <2>5. Seen = There
    BY <2>3, <2>4
  <2>6. \A n, m \in 1 .. Len(found) : found[n].at = found[m].at => n = m
    BY <2>0 DEF FoundOK
  <2>7. ASSUME NEW n \in 1 .. Len(found), Header(found[n].at).type = 0,
               NEW k \in IoBars(Header(found[n].at)),
               \A j \in IoBars(Header(found[n].at)) : j <= k
        PROVE  found[n].portBase =
                 Header(found[n].at).bars[k] - (Header(found[n].at).bars[k] % 4)
    <3> DEFINE h == Header(found[n].at)
    <3>1. PortSeen(h, found[n].portBase, MAX_BAR)
      BY <2>2
    <3>2. k \in IoBars(h) /\ h.type = 0 /\ \A j \in IoBars(h) : j <= k
      BY <2>7
    <3> HIDE DEF h
    <3>3. k < MAX_BAR
      BY <3>2, PciAssumption DEF IoBars
    <3>4. found[n].portBase = h.bars[k] - (h.bars[k] % 4)
      BY <3>1, <3>2, <3>3 DEF PortSeen
    <3> QED
      BY <3>4 DEF h
  <2>8. \A n \in 1 .. Len(found) :
          LET at == found[n].at
              h == devices[<<at[1], at[2]>>][at[3]]
          IN  h.type = 0 =>
                \A k \in IoBars(h) :
                  (\A j \in IoBars(h) : j <= k) => found[n].portBase = h.bars[k] - (h.bars[k] % 4)
    BY <2>7 DEF Header
  <2> HIDE DEF There, Seen
  <2>9. {found[n].at : n \in 1 .. Len(found)} =
          UNION {{<<s[1], s[2], f>> : f \in DOMAIN devices[s]} : s \in Slots}
    BY <2>5 DEF There, Seen
  <2> QED
    BY <2>6, <2>8, <2>9 DEF ScanTrue
<1>2. ScanInv => ScanTrue
  BY <1>1 DEF ScanTrue
<1>3. BootInit => ScanInv
  BY ScanStarts DEF BootInit
<1> QED
  BY <1>2, <1>3, ScanSteps, PTL DEF BootSpec

-----------------------------------------------------------------------------
(* The boot.  BootInv says of each stage what is done by then.             *)

Early == {"gdt", "memoryManager", "interrupts"}
Constructing == {"syscalls", "keyboard", "mouse"}
Late == {"disks", "enable", "loop"}

StageOK ==
  /\ stage \in Early \cup Constructing \cup {"pci", "activate", "vga", "windows"} \cup Late
  /\ graphics \in BOOLEAN /\ memupper \in MemUppers
  /\ enabled <=> stage = "loop"
  /\ stage \in {"vga", "windows"} => graphics

SegmentsInv == stage # "gdt" => SegmentsReady

HeapInv == stage \notin {"gdt", "memoryManager"} => (HeapInMemory <=> EnoughMemory)

(* "wild" entries are overwritten by ConstructInterrupts.                  *)
HandlersInv ==
  /\ handlers \in [Names -> {"wild", "none", "base", "complete"}]
  /\ stage \notin Early \cup {"syscalls"} => handlers["syscalls"] = "complete"
  /\ stage \notin Early \cup {"syscalls", "keyboard"} => handlers["keyboard"] = "complete"
  /\ stage \notin Early \cup Constructing => handlers["mouse"] = "complete"
  /\ stage = "syscalls" => handlers["syscalls"] \in {"none", "base"}
  /\ stage \in {"syscalls", "keyboard"} =>
       /\ handlers["keyboard"] \in {"none", "base"}
       /\ stage = "syscalls" => handlers["keyboard"] = "none"
  /\ stage \in Constructing =>
       /\ handlers["mouse"] \in {"none", "base"}
       /\ stage # "mouse" => handlers["mouse"] = "none"

ListInv ==
  /\ ppDrivers \in [0 .. MAX_DRIVERS - 1 -> {"wild", "keyboard", "mouse"}]
  /\ numDrivers = IF stage \in Early \cup {"syscalls", "keyboard"} THEN 0
                  ELSE IF stage = "mouse" THEN 1 ELSE 2
  /\ numDrivers > 0 => ppDrivers[0] = "keyboard"
  /\ numDrivers > 1 => ppDrivers[1] = "mouse"

NoneActive == << >>
OneActive == <<"keyboard">>
BothActive == <<"keyboard", "mouse">>

ActiveInv ==
  /\ stage = "activate" =>
       activated = NoneActive \/ activated = OneActive \/ activated = BothActive
  /\ stage \in Early \cup Constructing \cup {"pci"} => activated = NoneActive
  /\ stage \in {"vga", "windows"} \cup Late => activated = BothActive

(* Up to the place that SetMode has come to, the card holds the table.  It *)
(* is protected no more when the loop over the CRTC begins.                *)
VgaInv ==
  /\ card \in VgaCard
  /\ bank \in {"off", "misc"} => place = 1
  /\ bank = "sequencer" => place \in 2 .. 6
  /\ bank = "protected" => place = 7
  /\ bank = "crtc" => place \in 7 .. 31 /\ ~Protected(card)
  /\ bank = "graphics" => place \in 32 .. 40
  /\ bank = "attribute" => place \in 41 .. 61
  /\ bank \in {"picture", "done"} => place = 62
  /\ bank = "done" => PictureOn(card)
  /\ \A k \in Registers : k < place => card.registers[k] = Mode[k]

PictureInv ==
  /\ VgaInv
  /\ stage \in Early \cup Constructing \cup {"pci", "activate"} => bank = "off"
  /\ graphics /\ stage \in {"windows"} \cup Late => bank = "done"
  /\ graphics /\ stage \in Late => children = <<"win1", "win2">>

BootInv ==
  /\ StageOK /\ SegmentsInv /\ HeapInv /\ HandlersInv
  /\ ListInv /\ ActiveInv /\ PictureInv

(* A sequence of 61 is a function on them.                                 *)
LEMMA SequenceIsFunction ==
  ASSUME NEW S, NEW s \in Seq(S), Len(s) = 61
  PROVE  s \in [Registers -> S]
<1>1. s \in [1 .. Len(s) -> S]
  BY LenProperties
<1> QED
  BY <1>1 DEF Registers

(* The table has a byte for each register; the two entries that are        *)
(* changed before they are written are right as they stand.                *)
LEMMA ModeIsTable ==
  /\ Mode \in [Registers -> 0 .. 255]
  /\ Mode[24] = 14 /\ Mode[38] = 5
  /\ Table = Mode
<1>1. Mode \in [Registers -> 0 .. 255]
  <2>1. Mode \in Seq(0 .. 255)
    BY DEF Mode
  <2>2. Len(Mode) = 61
    BY DEF Mode
  <2> QED
    BY <2>1, <2>2, SequenceIsFunction
<1>2. Mode[10] = 130 /\ Mode[24] = 14 /\ Mode[38] = 5
  BY DEF Mode
<1>3. Table = Mode
  <2>1. First.crtc + 3 = 10 /\ First.crtc + 17 = 24
    BY DEF First
  <2>2. SetBit7(130) = 130 /\ ClearBit7(14) = 14
    BY SMT DEF SetBit7, ClearBit7
  <2>3. Table = [[Mode EXCEPT ![10] = 130] EXCEPT ![24] = 14]
    BY <1>1, <1>2, <2>1, <2>2 DEF Table, Registers
  <2> QED
    BY <1>1, <1>2, <2>3
<1> QED
  BY <1>1, <1>2, <1>3

LEMMA TableBytes ==
  ASSUME NEW k \in Registers
  PROVE  Table[k] \in 0 .. 255
BY ModeIsTable

(* What one write to a register that accepts it does.                      *)
LEMMA OneRegister ==
  ASSUME NEW c \in VgaCard, NEW k \in Registers, NEW v \in 0 .. 255
  PROVE  /\ [c EXCEPT !.registers[k] = v] \in VgaCard
         /\ [c EXCEPT !.registers[k] = v].registers = [c.registers EXCEPT ![k] = v]
BY DEF VgaCard

(* A turn that writes the value of the place it is at.                     *)
LEMMA TurnKeeps ==
  ASSUME VgaInv, place \in Registers, card' \in VgaCard, place' = place + 1,
         card'.registers = [card.registers EXCEPT ![place] = Table[place]]
  PROVE  \A k \in Registers : k < place' => card'.registers[k] = Mode[k]
<1> SUFFICES ASSUME NEW k \in Registers, k < place'
             PROVE  card'.registers[k] = Mode[k]
  OBVIOUS
<1>1. card.registers \in [Registers -> 0 .. 255]
  BY DEF VgaInv, VgaCard
<1>2. Table[place] = Mode[place]
  BY ModeIsTable
<1>3. CASE k = place
  BY <1>1, <1>2, <1>3
<1>4. CASE k # place
  <2>1. k < place
    BY <1>4 DEF Registers
  <2>2. card.registers[k] = Mode[k]
    BY <2>1 DEF VgaInv
  <2> QED
    BY <1>1, <1>4, <2>2
<1> QED
  BY <1>3, <1>4

(* Both ports of the pair are met in turn, whatever the latch was.         *)
LEMMA PairWrites ==
  ASSUME VgaInv, bank = "attribute"
  PROVE  /\ AttributePair \in VgaCard
         /\ AttributePair.registers = [card.registers EXCEPT ![place] = Table[place]]
<1> DEFINE i == place - 41
           c1 == ReadReset(card)
           c2 == WriteAttribute(c1, i)
<1>1. place \in 41 .. 61 /\ card \in VgaCard /\ First.attribute = 41
  BY DEF VgaInv, First
<1>2. i \in 0 .. 20 /\ i % 64 = i /\ i % 32 = i /\ 41 + i = place
  BY <1>1
<1>3. /\ c1 \in VgaCard /\ c1.registers = card.registers
      /\ c1.latch = "index"
  BY <1>1 DEF ReadReset, VgaCard
<1> HIDE DEF c1, i
<1>4. c2 = [c1 EXCEPT !.index = i, !.latch = "value"]
  BY <1>2, <1>3 DEF WriteAttribute
<1> HIDE DEF c2
<1>5. /\ c2 \in VgaCard /\ c2.registers = card.registers
      /\ c2.latch = "value" /\ c2.index = i
  <2>1. i \in 0 .. 63
    BY <1>2
  <2> QED
    <3>1. c1.registers \in [Registers -> 0 .. 255]
      BY <1>3 DEF VgaCard
    <3>2. c2 = [registers |-> c1.registers, index |-> i, latch |-> "value"]
      BY <1>3, <1>4 DEF VgaCard
    <3>3. c2 \in VgaCard
      BY <2>1, <3>1, <3>2 DEF VgaCard
    <3> QED
      BY <1>3, <3>2, <3>3
<1>6. Table[place] \in 0 .. 255
  <2>1. place \in Registers
    BY <1>1 DEF Registers
  <2> QED
    BY <2>1, TableBytes
<1>7. AttributePair = [c2 EXCEPT !.registers[place] = Table[place], !.latch = "index"]
  <2>1. AttributePair = WriteAttribute(c2, Table[place])
    BY <1>1 DEF AttributePair, c1, c2, i
  <2>2. c2.index % 32 = i /\ ~(i > 20) /\ First.attribute + i = place
    BY <1>1, <1>2, <1>5
  <2> QED
    BY <1>5, <2>1, <2>2 DEF WriteAttribute
<1> DEFINE written == [card.registers EXCEPT ![place] = Table[place]]
<1>8. written \in [Registers -> 0 .. 255]
  BY <1>1, <1>6 DEF VgaCard
<1>9. AttributePair = [registers |-> written, index |-> i, latch |-> "index"]
  BY <1>5, <1>7 DEF VgaCard
<1> HIDE DEF written
<1>10. i \in 0 .. 63
  BY <1>2
<1>11. AttributePair \in VgaCard /\ AttributePair.registers = written
  BY <1>8, <1>9, <1>10 DEF VgaCard
<1> QED
  BY <1>11 DEF written

(* Each step of SetMode keeps what is written and where it has come to.    *)
LEMMA VgaSteps ==
  ASSUME VgaInv, SetMode(320, 200, 8) \/ WriteRegisters
  PROVE  VgaInv'
<1>a. card \in VgaCard /\ card.registers \in [Registers -> 0 .. 255]
  BY DEF VgaInv, VgaCard
<1>b. /\ First = [misc |-> 1, sequencer |-> 2, crtc |-> 7, graphics |-> 32,
                  attribute |-> 41, end |-> 62]
  BY DEF First
<1>1. CASE SetMode(320, 200, 8)
  BY <1>1 DEF SetMode, SupportMode, VgaInv
<1>2. ASSUME NEW b, NEW end, NEW after, Turn(b, end, after, Plain),
             \/ b = "misc" /\ end = 2 /\ after = "sequencer"
             \/ b = "sequencer" /\ end = 7 /\ after = "protected"
             \/ b = "graphics" /\ end = 41 /\ after = "attribute"
      PROVE  VgaInv'
  <2>1. /\ bank = b /\ card' = Plain /\ place' = place + 1
        /\ bank' = IF place + 1 = end THEN after ELSE b
    BY <1>2 DEF Turn
  <2>2. \/ b = "misc" /\ place = 1
        \/ b = "sequencer" /\ place \in 2 .. 6
        \/ b = "graphics" /\ place \in 32 .. 40
    BY <1>2, <2>1 DEF VgaInv
  <2>3. place \in Registers /\ Table[place] \in 0 .. 255
    <3>1. place \in Registers
      BY <2>2 DEF Registers
    <3> QED
      BY <3>1, TableBytes
  <2>4. /\ card' \in VgaCard
        /\ card'.registers = [card.registers EXCEPT ![place] = Table[place]]
    <3>1. card' = [card EXCEPT !.registers[place] = Table[place]]
      BY <2>1 DEF Plain
    <3> QED
      BY <1>a, <2>3, <3>1, OneRegister
  <2>5. \A k \in Registers : k < place' => card'.registers[k] = Mode[k]
    BY <2>1, <2>3, <2>4, TurnKeeps
  <2>6. \/ bank' = "sequencer" /\ place' \in 2 .. 6
        \/ bank' = "protected" /\ place' = 7
        \/ bank' = "graphics" /\ place' \in 32 .. 40
        \/ bank' = "attribute" /\ place' \in 41 .. 61
    BY <1>2, <2>1, <2>2
  <2> QED
    BY <2>4, <2>5, <2>6 DEF VgaInv
<1>3. CASE Unprotect
  <2> DEFINE c3 == WriteCrtc(card, 3, SetBit7(card.registers[10]))
             v == ClearBit7(c3.registers[24])
  <2>1. bank = "protected" /\ place = 7 /\ bank' = "crtc" /\ place' = 7 /\ card' = Unprotected(card)
    BY <1>3 DEF Unprotect, VgaInv
  <2>2. ASSUME NEW n \in 0 .. 255
        PROVE  /\ SetBit7(n) \in 0 .. 255
               /\ ClearBit7(n) \in 0 .. 255 /\ ~(ClearBit7(n) >= 128)
    BY SMT DEF SetBit7, ClearBit7
  <2>3. 10 \in Registers /\ 24 \in Registers
    BY DEF Registers
  <2>4. \/ c3 = card
        \/ c3 = [card EXCEPT !.registers[10] = SetBit7(card.registers[10])]
    BY <1>b DEF WriteCrtc
  <2> HIDE DEF c3
  <2>5. /\ c3 \in VgaCard
        /\ \A k \in Registers : k < 7 => c3.registers[k] = card.registers[k]
    <3>1. SetBit7(card.registers[10]) \in 0 .. 255
      BY <1>a, <2>2, <2>3
    <3>2. CASE c3 = card
      BY <1>a, <3>2
    <3>3. CASE c3 = [card EXCEPT !.registers[10] = SetBit7(card.registers[10])]
      <4>1. /\ c3 \in VgaCard
            /\ c3.registers = [card.registers EXCEPT ![10] = SetBit7(card.registers[10])]
        BY <1>a, <2>3, <3>1, <3>3, OneRegister
      <4> SUFFICES ASSUME NEW k \in Registers, k < 7
                   PROVE  c3.registers[k] = card.registers[k]
        BY <4>1
      <4>2. k # 10
        BY DEF Registers
      <4> QED
        BY <1>a, <4>1, <4>2
    <3> QED
      BY <2>4, <3>2, <3>3
  <2>6. c3.registers \in [Registers -> 0 .. 255]
    BY <2>5 DEF VgaCard
  <2>7. v \in 0 .. 255 /\ ~(v >= 128)
    BY <2>2, <2>3, <2>6
  <2> HIDE DEF v
  <2>8. card' = [c3 EXCEPT !.registers[24] = v]
    <3>1. First.crtc + 3 = 10 /\ First.crtc + 17 = 24 /\ ~(17 < 8)
      BY <1>b
    <3>2. card' = WriteCrtc(c3, 17, v)
      BY <2>1, <3>1 DEF Unprotected, c3, v
    <3> QED
      BY <3>1, <3>2 DEF WriteCrtc
  <2>9. card' \in VgaCard /\ card'.registers = [c3.registers EXCEPT ![24] = v]
    <3>1. 24 \in Registers /\ c3 \in VgaCard /\ v \in 0 .. 255
      BY <2>3, <2>5, <2>7
    <3> QED
      BY <2>8, <3>1, OneRegister
  <2>10. ~Protected(card)'
    <3>1. card'.registers[24] = v
      BY <2>3, <2>6, <2>9
    <3> QED
      BY <1>b, <2>7, <3>1 DEF Protected, First
  <2>11. \A k \in Registers : k < 7 => card'.registers[k] = Mode[k]
    <3> SUFFICES ASSUME NEW k \in Registers, k < 7 PROVE card'.registers[k] = Mode[k]
      OBVIOUS
    <3>1. c3.registers[k] = Mode[k]
      BY <2>1, <2>5 DEF VgaInv
    <3>2. k # 24
      BY DEF Registers
    <3> QED
      BY <2>6, <2>9, <3>1, <3>2
  <2> QED
    BY <2>1, <2>9, <2>10, <2>11 DEF VgaInv
<1>4. CASE Turn("crtc", First.graphics, "graphics", Crtc)
  <2>1. /\ bank = "crtc" /\ card' = Crtc /\ place' = place + 1 /\ place \in 7 .. 31
        /\ bank' = IF place + 1 = 32 THEN "graphics" ELSE "crtc"
        /\ ~Protected(card)
    BY <1>b, <1>4 DEF Turn, VgaInv
  <2>2. place \in Registers /\ Table[place] \in 0 .. 255 /\ Table[24] = 14
    <3>1. place \in Registers
      BY <2>1 DEF Registers
    <3> QED
      BY <3>1, TableBytes, ModeIsTable
  <2>3. card' = [card EXCEPT !.registers[place] = Table[place]]
    <3>1. First.crtc + (place - First.crtc) = place
      BY <1>b, <2>1
    <3> QED
      BY <2>1, <3>1 DEF Crtc, WriteCrtc
  <2>4. /\ card' \in VgaCard
        /\ card'.registers = [card.registers EXCEPT ![place] = Table[place]]
    <3>1. place \in Registers /\ Table[place] \in 0 .. 255
      BY <2>2
    <3> QED
      BY <1>a, <2>3, <3>1, OneRegister
  <2>5. \A k \in Registers : k < place' => card'.registers[k] = Mode[k]
    BY <2>1, <2>2, <2>4, TurnKeeps
  <2>6. ~Protected(card)'
    <3>1. 24 \in Registers /\ First.crtc + 17 = 24
      BY <1>b DEF Registers
    <3>2. ~(card.registers[24] >= 128)
      BY <2>1, <3>1 DEF Protected
    <3>3. ~(card'.registers[24] >= 128)
      BY <1>a, <2>2, <2>4, <3>1, <3>2
    <3> QED
      BY <3>1, <3>3 DEF Protected, First
  <2>7. \/ bank' = "crtc" /\ place' \in 7 .. 31
        \/ bank' = "graphics" /\ place' \in 32 .. 40
    BY <2>1
  <2> QED
    BY <2>4, <2>5, <2>6, <2>7 DEF VgaInv
<1>5. CASE Turn("attribute", First.end, "picture", AttributePair)
  <2>1. /\ bank = "attribute" /\ card' = AttributePair /\ place' = place + 1
        /\ place \in 41 .. 61
        /\ bank' = IF place + 1 = 62 THEN "picture" ELSE "attribute"
    BY <1>b, <1>5 DEF Turn, VgaInv
  <2>2. place \in Registers
    BY <2>1 DEF Registers
  <2>3. /\ card' \in VgaCard
        /\ card'.registers = [card.registers EXCEPT ![place] = Table[place]]
    BY <2>1, PairWrites
  <2>4. \A k \in Registers : k < place' => card'.registers[k] = Mode[k]
    BY <2>1, <2>2, <2>3, TurnKeeps
  <2>5. \/ bank' = "attribute" /\ place' \in 41 .. 61
        \/ bank' = "picture" /\ place' = 62
    BY <2>1
  <2> QED
    BY <2>3, <2>4, <2>5 DEF VgaInv
<1>6. CASE EnablePicture
  <2>1. place' = 62 /\ place = 62 /\ bank' = "done" /\ card' = WriteAttribute(ReadReset(card), 32)
    BY <1>6 DEF EnablePicture, VgaInv
  <2>2. card' = [card EXCEPT !.index = 32, !.latch = "value"]
    <3>1. 32 % 64 = 32
      OBVIOUS
    <3>2. ReadReset(card).latch = "index"
      BY <1>a DEF ReadReset, VgaCard
    <3>3. card' = [ReadReset(card) EXCEPT !.index = 32, !.latch = "value"]
      BY <2>1, <3>1, <3>2 DEF WriteAttribute
    <3> QED
      BY <1>a, <3>3 DEF ReadReset, VgaCard
  <2>3. card' \in VgaCard /\ card'.registers = card.registers /\ card'.index = 32
    <3>1. 32 \in 0 .. 63
      OBVIOUS
    <3> QED
      <4>1. card' = [registers |-> card.registers, index |-> 32, latch |-> "value"]
        BY <1>a, <2>2 DEF VgaCard
      <4>2. card' \in VgaCard
        BY <1>a, <3>1, <4>1 DEF VgaCard
      <4> QED
        BY <4>1, <4>2
  <2>4. \A k \in Registers : k < place' => card'.registers[k] = Mode[k]
    BY <2>1, <2>3 DEF VgaInv
  <2> QED
    BY <2>1, <2>3, <2>4 DEF VgaInv, PictureOn
<1> QED
  BY <1>b, <1>1, <1>2, <1>3, <1>4, <1>5, <1>6 DEF WriteRegisters

LEMMA VgaStays ==
  ASSUME VgaInv, UNCHANGED vgaVars
  PROVE  VgaInv'
BY DEF vgaVars, VgaInv, Protected, PictureOn

(* 64 MiB are a limit of 32 bits.                                          *)
LEMMA SegmentsDescribe ==
  /\ Describes(SegmentDescriptor(0, MiB64, 154), 0, MiB64)
  /\ Describes(SegmentDescriptor(0, MiB64, 146), 0, MiB64)
<1>1. 0 \in Word32 /\ MiB64 \in Word32
  BY SMT DEF Word32, MiB64
<1>2. 154 \in 0 .. 255 /\ 146 \in 0 .. 255
  BY SMT
<1> QED
  BY <1>1, <1>2, DescriptorsDescribe

(* What the heap's size comes to, with enough memory and with less.        *)
LEMMA HeapFits ==
  ASSUME NEW m \in MemUppers
  PROVE  HeapStart + ((m - HeapStart - 10) % Ki32) <= 1024 + m <=> m >= HeapStart + 10
<1>1. m \in 0 .. Ki32 - 1025
  BY BootAssumption
<1>2. Ki32 = 4194304 /\ HeapStart = 10240
  BY SMT DEF Ki32, HeapStart
<1>3. Ki32 \in Nat
  BY SMT DEF Ki32
<1>4. m \in Nat /\ m <= Ki32 - 1025
  BY <1>1, <1>3
<1> QED
  BY SMT, <1>2, <1>4

(* A sequence of two is known by its elements.                             *)
LEMMA PairIsElements ==
  ASSUME NEW S, NEW s \in Seq(S), Len(s) = 2, NEW a, NEW b, s[1] = a, s[2] = b
  PROVE  s = <<a, b>>
OBVIOUS

LEMMA AppendToOne ==
  ASSUME NEW S, NEW s \in Seq(S), NEW b \in S, NEW a, s[1] = a, Len(s) = 1
  PROVE  Append(s, b) = <<a, b>>
<1> DEFINE t == Append(s, b)
<1>1. t \in Seq(S)
  BY AppendProperties
<1>2. Len(t) = Len(s) + 1
  BY AppendProperties
<1>3. t[1] = a
  BY AppendProperties
<1>4. t[Len(s) + 1] = b
  BY AppendProperties
<1> HIDE DEF t
<1>5. Len(t) = 2 /\ t[2] = b
  BY <1>2, <1>4
<1>6. t = <<a, b>>
  BY <1>1, <1>3, <1>5, PairIsElements
<1> QED
  BY <1>6 DEF t

(* How the list of activated drivers grows.                                *)
LEMMA Activations ==
  /\ Len(NoneActive) = 0 /\ Len(OneActive) = 1 /\ Len(BothActive) = 2
  /\ Append(NoneActive, "keyboard") = OneActive
  /\ Append(OneActive, "mouse") = BothActive
<1>1. Len(NoneActive) = 0 /\ Len(OneActive) = 1 /\ Len(BothActive) = 2
  BY DEF NoneActive, OneActive, BothActive
<1>2. Append(NoneActive, "keyboard") = OneActive
  BY DEF NoneActive, OneActive
<1>3. Append(OneActive, "mouse") = BothActive
  <2>1. /\ OneActive \in Seq({"keyboard", "mouse"})
        /\ Len(OneActive) = 1 /\ OneActive[1] = "keyboard"
    BY DEF OneActive
  <2> QED
    BY <2>1, AppendToOne DEF BothActive
<1> QED
  BY <1>1, <1>2, <1>3

LEMMA BootStarts == BootInit => BootInv
<1> SUFFICES ASSUME BootInit PROVE BootInv
  OBVIOUS
<1>1. VgaInv
  BY VgaAssumption DEF BootInit, VgaInit, VgaInv, Registers
<1> QED
  BY <1>1, BootAssumption DEF BootInit, BootInv, StageOK, SegmentsInv, HeapInv, HandlersInv,
     ListInv, ActiveInv, NoneActive, PictureInv, Early, Constructing, Late, Names, VgaInit

(* Each step keeps the invariant; the leaves name the parts it disturbs.   *)
LEMMA BootSteps ==
  ASSUME BootInv, [BootNext]_bootVars
  PROVE  BootInv'
<1> USE DEF Early, Constructing, Late
<1>0. /\ StageOK /\ SegmentsInv /\ HeapInv /\ HandlersInv
      /\ ListInv /\ ActiveInv /\ PictureInv
  BY DEF BootInv
<1>1. CASE ConstructGdt
  <2>1. SegmentsInv'
    <3>1. gdt'.code = SegmentDescriptor(0, MiB64, 154) /\ gdt'.data = SegmentDescriptor(0, MiB64, 146)
      BY <1>1 DEF ConstructGdt
    <3> QED
      BY <3>1, SegmentsDescribe DEF SegmentsInv, SegmentsReady
  <2>2. StageOK' /\ HeapInv' /\ HandlersInv' /\ ListInv' /\ ActiveInv' /\ PictureInv'
    BY <1>0, <1>1, VgaStays DEF ConstructGdt, At, Elsewhere, pciVars, vgaVars, StageOK, HeapInv,
       HandlersInv, ListInv, ActiveInv, PictureInv
  <2> QED
    BY <2>1, <2>2 DEF BootInv
<1>2. CASE ConstructMemoryManager
  <2>1. HeapInv'
    <3>1. heapSize' = (memupper - HeapStart - 10) % Ki32 /\ memupper' = memupper
          /\ memupper \in MemUppers
      BY <1>0, <1>2 DEF ConstructMemoryManager, StageOK
    <3>2. HeapStart + heapSize' <= 1024 + memupper <=> memupper >= HeapStart + 10
      BY <3>1, HeapFits
    <3> QED
      BY <3>1, <3>2 DEF HeapInv, HeapInMemory, EnoughMemory
  <2>2. StageOK' /\ SegmentsInv' /\ HandlersInv' /\ ListInv' /\ ActiveInv' /\ PictureInv'
    BY <1>0, <1>2, VgaStays DEF ConstructMemoryManager, At, Elsewhere, pciVars, vgaVars, StageOK,
       SegmentsInv, SegmentsReady, HandlersInv, ListInv, ActiveInv, PictureInv
  <2> QED
    BY <2>1, <2>2 DEF BootInv
<1>3. CASE ConstructInterrupts
  BY <1>0, <1>3, VgaStays DEF ConstructInterrupts, At, Elsewhere, pciVars, vgaVars, BootInv, StageOK,
     SegmentsInv, SegmentsReady, HeapInv, HeapInMemory, EnoughMemory, HandlersInv, Names, ListInv,
     ActiveInv, PictureInv
<1>4. ASSUME NEW h \in Names, NEW next,
             \/ h = "syscalls" /\ next = "keyboard"
             \/ h = "keyboard" /\ next = "mouse"
             \/ h = "mouse" /\ next = "pci",
             ConstructHandler(h, next)
      PROVE  BootInv'
  <2>2. StageOK' /\ SegmentsInv' /\ HeapInv' /\ ActiveInv' /\ PictureInv'
    BY <1>0, <1>4, VgaStays DEF ConstructHandler, Elsewhere, pciVars, vgaVars, StageOK,
       SegmentsInv, SegmentsReady, HeapInv, HeapInMemory, EnoughMemory, ActiveInv, PictureInv
  <2>3. HandlersInv'
    BY <1>0, <1>4 DEF ConstructHandler, HandlersInv, Names, StageOK
  <2>4. ListInv'
    BY <1>0, <1>4, BootAssumption DEF ConstructHandler, AddDriver, ListInv, HandlersInv,
       Names
  <2> QED
    BY <2>2, <2>3, <2>4 DEF BootInv
<1>5. CASE Scan
  <2>1. stage = "pci" /\ stage' \in {"pci", "activate"} /\ UNCHANGED <<vgaVars, kernelVars>>
    BY <1>5 DEF Scan
  <2> QED
    BY <1>0, <2>1, VgaStays DEF vgaVars, kernelVars, BootInv, StageOK, SegmentsInv, SegmentsReady, HeapInv,
       HeapInMemory, EnoughMemory, HandlersInv, ListInv, ActiveInv, PictureInv
<1>6. CASE ActivateAll
  <2>0. /\ stage = "activate" /\ numDrivers = 2
        /\ ppDrivers[0] = "keyboard" /\ ppDrivers[1] = "mouse"
        /\ activated = NoneActive \/ activated = OneActive \/ activated = BothActive
    BY <1>0, <1>6 DEF ActivateAll, ListInv, ActiveInv
  <2>6. NoneActive' = NoneActive /\ OneActive' = OneActive /\ BothActive' = BothActive
    BY DEF NoneActive, OneActive, BothActive
  <2>3. ASSUME activated # BothActive PROVE ActiveInv'
    <3>0. Len(activated) < numDrivers
      <4>1. activated = NoneActive \/ activated = OneActive
        BY <2>0, <2>3
      <4>2. Len(activated) = 0 \/ Len(activated) = 1
        BY <4>1, Activations
      <4>3. numDrivers = 2
        BY <2>0
      <4>4. ASSUME NEW k, k = 0 \/ k = 1 PROVE k < 2
        BY <4>4
      <4> QED
        BY <4>2, <4>3, <4>4
    <3>1. stage' = stage /\ activated' = Append(activated, ppDrivers[Len(activated)])
      BY <1>6, <3>0 DEF ActivateAll
    <3>2. activated' = OneActive \/ activated' = BothActive
      BY <2>0, <2>3, <3>1, Activations
    <3> QED
      BY <2>0, <2>6, <3>1, <3>2 DEF ActiveInv
  <2>4. ASSUME activated = BothActive PROVE ActiveInv'
    <3>0. ~(Len(activated) < numDrivers)
      BY <2>0, <2>4, Activations
    <3>1. stage' = (IF graphics THEN "vga" ELSE "disks") /\ activated' = activated
      BY <1>6, <3>0 DEF ActivateAll
    <3> QED
      BY <2>4, <2>6, <3>1 DEF ActiveInv
  <2>5. ActiveInv'
    BY <2>3, <2>4
  <2>1. StageOK'
    BY <1>0, <1>6 DEF ActivateAll, StageOK
  <2>2. SegmentsInv' /\ HeapInv' /\ HandlersInv' /\ ListInv' /\ PictureInv'
    BY <1>0, <1>6, VgaStays DEF ActivateAll, Elsewhere, pciVars, vgaVars, StageOK, SegmentsInv,
       SegmentsReady, HeapInv, HeapInMemory, EnoughMemory, HandlersInv, ListInv, PictureInv
  <2> QED
    BY <2>1, <2>2, <2>5 DEF BootInv
<1>7. CASE SwitchMode
  <2>1. PictureInv'
    <3>1. CASE bank = "done"
      <4>1. stage = "vga" /\ stage' = "windows" /\ UNCHANGED vgaVars
        BY <1>7, <3>1 DEF SwitchMode
      <4> QED
        BY <1>0, <3>1, <4>1, VgaStays DEF PictureInv, vgaVars
    <3>2. CASE bank # "done"
      <4>1. /\ SetMode(320, 200, 8) \/ WriteRegisters
            /\ stage = "vga" /\ stage' = stage
        BY <1>7, <3>2 DEF SwitchMode
      <4> QED
        BY <1>0, <4>1, VgaSteps DEF PictureInv
    <3> QED
      BY <3>1, <3>2
  <2>2. StageOK' /\ SegmentsInv' /\ HeapInv' /\ HandlersInv' /\ ListInv' /\ ActiveInv'
    BY <1>0, <1>7 DEF SwitchMode, kernelVars, StageOK, SegmentsInv, SegmentsReady, HeapInv,
       HeapInMemory, EnoughMemory, HandlersInv, ListInv, ActiveInv
  <2> QED
    BY <2>1, <2>2 DEF BootInv
<1>8. CASE AddWindows \/ ReadDisks \/ EnableInterrupts
  <2>1. /\ UNCHANGED <<pciVars, vgaVars, graphics, memupper, heapSize, gdt, handlers, ppDrivers,
                       numDrivers, activated>>
        /\ \/ /\ stage = "windows" /\ stage' = "disks" /\ children' = <<"win1", "win2">>
              /\ enabled' = enabled
           \/ /\ stage = "disks" /\ stage' = "enable" /\ UNCHANGED <<children, enabled>>
           \/ /\ stage = "enable" /\ stage' = "loop" /\ enabled' = TRUE /\ children' = children
    BY <1>8 DEF AddWindows, ReadDisks, EnableInterrupts, At, Elsewhere, kernelVars
  <2>2. StageOK' /\ SegmentsInv' /\ HeapInv' /\ HandlersInv'
    BY <1>0, <2>1 DEF StageOK, SegmentsInv, SegmentsReady, HeapInv, HeapInMemory, EnoughMemory, HandlersInv
  <2>3. ListInv' /\ ActiveInv'
    BY <1>0, <2>1 DEF ListInv, ActiveInv
  <2>4. PictureInv'
    BY <1>0, <2>1, VgaStays DEF PictureInv, vgaVars
  <2> QED
    BY <2>2, <2>3, <2>4 DEF BootInv
<1>9. CASE Loop \/ UNCHANGED bootVars
  <2>1. UNCHANGED <<stage, vgaVars, kernelVars>>
    BY <1>9 DEF Loop, bootVars
  <2> QED
    BY <1>0, <2>1, VgaStays DEF vgaVars, kernelVars, BootInv, StageOK, SegmentsInv, SegmentsReady, HeapInv,
       HeapInMemory, EnoughMemory, HandlersInv, ListInv, ActiveInv, PictureInv
<1>10. {"syscalls", "keyboard", "mouse"} = Names
  BY DEF Names
<1> QED
  BY <1>1, <1>2, <1>3, <1>4, <1>5, <1>6, <1>7, <1>8, <1>9, <1>10 DEF BootNext

(* Whatever devices a machine has and in whatever state the firmware left  *)
(* the graphics card, all that handlers and drawing need is ready when     *)
(* interrupts are enabled; and the heap lies in memory exactly when the    *)
(* machine has 10 MiB + 10 KiB or more above the first MiB.                *)
THEOREM KernelIsReady == BootSpec => []ReadyWhenEnabled
<1>1. BootInv => ReadyWhenEnabled
  <2>1. ASSUME card.registers = Mode PROVE FrameBufferSegment = 655360
    <3>1. First.graphics + 6 = 38
      BY DEF First
    <3>2. card.registers[First.graphics + 6] = 5
      BY <2>1, <3>1, ModeIsTable
    <3> QED
      BY SMT, <3>2 DEF FrameBufferSegment
  <2>2. SUFFICES ASSUME BootInv, enabled PROVE ReadyWhenEnabled
    BY DEF ReadyWhenEnabled
  <2>3. stage = "loop"
    BY <2>2 DEF BootInv, StageOK
  <2>4. SegmentsReady /\ (HeapInMemory <=> EnoughMemory) /\ DriversActive
    BY <2>2, <2>3 DEF BootInv, SegmentsInv, HeapInv, ActiveInv, BothActive, DriversActive, Late
  <2>5. HandlersComplete
    BY <2>2, <2>3 DEF BootInv, HandlersInv, HandlersComplete, Names, Early, Constructing
  <2>6. PictureReady
    <3>1. CASE graphics
      <4>1. bank = "done" /\ children = <<"win1", "win2">> /\ VgaInv
        BY <2>2, <2>3, <3>1 DEF BootInv, PictureInv, Late
      <4>2. card.registers = Mode
        <5>1. card.registers \in [Registers -> 0 .. 255]
          BY <4>1 DEF VgaInv, VgaCard
        <5>2. \A k \in Registers : card.registers[k] = Mode[k]
          BY <4>1 DEF VgaInv, Registers
        <5> QED
          BY <5>1, <5>2, ModeIsTable
      <4> QED
        BY <2>1, <4>1, <4>2 DEF PictureReady, VgaInv
    <3> QED
      BY <3>1 DEF PictureReady
  <2> QED
    BY <2>4, <2>5, <2>6 DEF ReadyWhenEnabled
<1> QED
  BY <1>1, BootStarts, BootSteps, PTL DEF BootSpec

-----------------------------------------------------------------------------
(* The reader of the partition table and of the volumes, which kernelMain   *)
(* calls for each disk: for every content of the disk, every garbage in the *)
(* buffers and any number of failing reads.                                *)

(* TypeOK, and what the loops rely on.                                     *)
IInv ==
  /\ TypeOK
  /\ pc \in {"mbr", "partition", "bpb", "root", "entry", "cluster", "sector", "fat", "done"}
  /\ pc \notin {"mbr", "partition", "done"} => partition < 4
  /\ pc = "mbr" => partition = 0
  /\ fatBuffer \in FatSector
  /\ SIZE \in Int
  /\ pc = "sector" => SIZE > 0

(* Whatever is read, a buffer shows a structure of its kind.               *)
LEMMA ShowsTyped ==
  ASSUME NEW s, NEW kind \in Kinds, NEW before, before \subseteq Structure[kind]
  PROVE  Shows(s, kind, before) \subseteq Structure[kind]
<1>1. Garbage[kind] \subseteq Structure[kind]
  BY FatAssumption
<1>2. s \in DOMAIN Disk /\ Disk[s].kind = kind => Disk[s] \in Structure[kind]
  BY FatAssumption
<1> QED
  BY <1>1, <1>2 DEF Shows

LEMMA Kinds4 ==
  /\ Structure["mbr"] = MasterBootRecord /\ Structure["bpb"] = BiosParameterBlock32
  /\ Structure["dir"] = DirectorySector /\ Structure["fat"] = FatSector
  /\ {"mbr", "bpb", "dir", "fat"} = Kinds
BY DEF Structure, Kinds

LEMMA GarbageTyped ==
  /\ Garbage["mbr"] \subseteq MasterBootRecord
  /\ Garbage["bpb"] \subseteq BiosParameterBlock32
  /\ Garbage["dir"] \subseteq DirectorySector
  /\ Garbage["fat"] \subseteq FatSector
<1>1. \A kind \in Kinds : Garbage[kind] \subseteq Structure[kind]
  BY FatAssumption
<1> QED
  BY <1>1, Kinds4

LEMMA ClustersNat ==
  /\ \A x \in Nat : Low28(x) \in Nat /\ Int32(x) \in Int
  /\ \A c \in Nat : c % PerSector \in 0 .. PerSector - 1
<1>1. Words \in Nat /\ Words > 0 /\ Words % 16 = 0 /\ PerSector \in Nat \ {0}
  BY FatAssumption
<1>2. Words \div 16 \in Nat \ {0}
  BY <1>1
<1>3. ASSUME NEW x \in Nat PROVE Low28(x) \in Nat
  BY <1>2 DEF Low28
<1>4. ASSUME NEW x \in Nat PROVE Int32(x) \in Int
  BY <1>1 DEF Int32
<1>5. ASSUME NEW c \in Nat PROVE c % PerSector \in 0 .. PerSector - 1
  BY <1>1
<1> QED
  BY <1>3, <1>4, <1>5

LEMMA Starts == Init => IInv
<1> SUFFICES ASSUME Init PROVE IInv
  OBVIOUS
<1>1. /\ mbr \in MasterBootRecord /\ bpb \in BiosParameterBlock32 /\ fatBuffer \in FatSector
  BY GarbageTyped DEF Init
<1>2. dirent \in [1 .. Entries -> DirectoryEntryFat32]
  <2>1. PICK d \in Garbage["dir"] : dirent = d.entries
    BY DEF Init
  <2>2. d \in DirectorySector
    BY <2>1, GarbageTyped
  <2> QED
    BY <2>1, <2>2 DEF DirectorySector
<1>3. 0 \in 0 .. Entries /\ 0 \in 0 .. Failures
  BY FatAssumption
<1> QED
  BY <1>1, <1>2, <1>3 DEF Init, IInv, TypeOK

(* Reads that fail are counted up to the bound.                            *)
LEMMA FailuresCounted ==
  ASSUME failures \in 0 .. Failures, Succeeds \/ Fails
  PROVE  failures' \in 0 .. Failures
BY FatAssumption DEF Succeeds, Fails

LEMMA ReadMbrKeeps == ASSUME IInv, ReadMbr PROVE IInv'
<1>1. PICK b \in MasterBootRecord :
        /\ mbr' = b /\ pc' = IF b.magicnumber # 43605 THEN "done" ELSE "partition"
        /\ Succeeds \/ Fails
  <2>1. Shows(0, "mbr", Garbage["mbr"]) \subseteq MasterBootRecord
    BY ShowsTyped, GarbageTyped, Kinds4
  <2> QED
    BY <2>1, GarbageTyped DEF ReadMbr, Read28
<1>2. failures' \in 0 .. Failures
  BY <1>1, FailuresCounted DEF IInv, TypeOK
<1> QED
  BY <1>1, <1>2 DEF ReadMbr, IInv, TypeOK, file

LEMMA ReadBpbKeeps == ASSUME IInv, ReadBpb PROVE IInv'
<1>1. PICK b \in BiosParameterBlock32 : bpb' = b /\ (Succeeds \/ Fails)
  <2>1. Shows(PartitionOffset, "bpb", Garbage["bpb"]) \subseteq BiosParameterBlock32
    BY ShowsTyped, GarbageTyped, Kinds4
  <2> QED
    BY <2>1, GarbageTyped DEF ReadBpb, Read28
<1>2. failures' \in 0 .. Failures
  BY <1>1, FailuresCounted DEF IInv, TypeOK
<1> QED
  BY <1>1, <1>2 DEF ReadBpb, IInv, TypeOK, file

LEMMA ReadRootKeeps == ASSUME IInv, ReadRoot PROVE IInv'
<1>1. PICK b \in DirectorySector : dirent' = b.entries /\ (Succeeds \/ Fails)
  <2>1. Shows(SectorOf(bpb.rootCluster), "dir", Garbage["dir"]) \subseteq DirectorySector
    BY ShowsTyped, GarbageTyped, Kinds4
  <2> QED
    BY <2>1, GarbageTyped DEF ReadRoot, Read28
<1>2. failures' \in 0 .. Failures
  BY <1>1, FailuresCounted DEF IInv, TypeOK
<1>3. dirent' \in [1 .. Entries -> DirectoryEntryFat32]
  BY <1>1 DEF DirectorySector
<1>4. 0 \in 0 .. Entries
  BY FatAssumption
<1> QED
  BY <1>1, <1>2, <1>3, <1>4 DEF ReadRoot, IInv, TypeOK, file

LEMMA NextPartitionKeeps == ASSUME IInv, NextPartition PROVE IInv'
BY DEF NextPartition, IInv, TypeOK, file

(* An entry that is in use lies in front of the end of the directory.      *)
LEMMA UsedEntry ==
  ASSUME TypeOK, ~Unused
  PROVE  /\ entry + 1 \in 1 .. Entries /\ entry + 1 \in 0 .. Entries
         /\ Dirent \in DirectoryEntryFat32
<1>1. entry + 1 \in 1 .. Entries /\ entry + 1 \in 0 .. Entries
  BY FatAssumption DEF TypeOK, Unused
<1> QED
  BY <1>1 DEF TypeOK, Dirent

LEMMA NextEntryKeeps == ASSUME IInv, NextEntry PROVE IInv'
<1>1. CASE Unused
  <2>1. partition' \in 0 .. 4
    BY <1>1 DEF NextEntry, IInv, TypeOK
  <2>2. 0 \in 0 .. Failures
    BY FatAssumption
  <2> QED
    BY <1>1, <2>1, <2>2 DEF NextEntry, IInv, TypeOK, file
<1>2. CASE ~Unused /\ (LongName \/ Directory)
  <2>1. entry' \in 0 .. Entries
    BY <1>2, UsedEntry DEF NextEntry, EntryAfterSkip, IInv
  <2> QED
    BY <1>2, <2>1 DEF NextEntry, IInv, TypeOK, file
<1>3. CASE ~Unused /\ ~(LongName \/ Directory)
  <2>1. Dirent.size \in Nat /\ Dirent.firstCluster \in Nat
    BY <1>3, UsedEntry DEF IInv, DirectoryEntryFat32
  <2>2. SIZE' \in Int /\ nextFileCluster' \in Nat
    BY <1>3, <2>1, ClustersNat DEF NextEntry
  <2>3. ~Unused'
    BY <1>3 DEF NextEntry, Unused, Dirent
  <2> QED
    BY <1>3, <2>2, <2>3 DEF NextEntry, IInv, TypeOK
<1> QED
  BY <1>1, <1>2, <1>3

LEMMA ClusterSize ==
  ASSUME TypeOK
  PROVE  bpb.sectorPerCluster \in Nat
<1>1. bpb \in BiosParameterBlock32
  BY DEF TypeOK
<1>2. bpb.sectorPerCluster \in UInt8
  BY <1>1 DEF BiosParameterBlock32
<1> QED
  BY <1>2 DEF UInt8

LEMMA NextClusterKeeps == ASSUME IInv, NextCluster PROVE IInv'
<1>1. CASE SIZE > 0
  <2>1. bpb.sectorPerCluster \in Nat
    BY ClusterSize DEF IInv
  <2>2. Shown \in 0 .. SectorSize
    BY <1>1, FatAssumption DEF Shown, IInv
  <2>3. Shown' = Shown
    BY DEF NextCluster, Shown
  <2>4. Unused' = Unused
    BY <1>1 DEF NextCluster, Unused, Dirent, volume
  <2> QED
    BY <1>1, <2>1, <2>2, <2>3, <2>4 DEF NextCluster, IInv, TypeOK, volume
<1>2. CASE ~(SIZE > 0)
  <2>1. ~Unused
    BY DEF NextCluster, IInv, TypeOK
  <2>2. entry' \in 0 .. Entries
    BY <1>2, <2>1, UsedEntry DEF NextCluster, IInv
  <2> QED
    BY <1>2, <2>2 DEF NextCluster, IInv, TypeOK, volume
<1> QED
  BY <1>1, <1>2

(* One sector too many is read of a cluster, and no more than one: while   *)
(* the loop goes on the offset is at most the size of the cluster.         *)
LEMMA ReadSectorKeeps == ASSUME IInv, ReadSector PROVE IInv'
<1>1. /\ sectorOffset \in 0 .. bpb.sectorPerCluster /\ bpb.sectorPerCluster \in Nat
      /\ SIZE \in Int /\ SIZE > 0 /\ SectorSize \in Nat
  <2>1. bpb.sectorPerCluster \in Nat
    BY ClusterSize DEF IInv
  <2> QED
    BY <2>1, FatAssumption DEF ReadSector, IInv, TypeOK
<1>2. UNCHANGED <<volume, entry, nextFileCluster, fatBuffer>> /\ ~Unused
  BY DEF ReadSector, IInv, TypeOK
<1>3. ~Unused'
  BY <1>2 DEF Unused, Dirent, volume
<1>4. SIZE' \in Int
  BY <1>1 DEF ReadSector
<1>5. pc' \in {"fat", "sector"}
  BY DEF ReadSector
<1>6. ASSUME pc' = "sector"
      PROVE  /\ sectorOffset' \in 0 .. bpb.sectorPerCluster
             /\ SIZE' > 0 /\ Shown' \in 0 .. SectorSize
  <2>1. ~ClusterEnds /\ ~(SIZE' <= 0)
    BY <1>6 DEF ReadSector
  <2>2. sectorOffset' = sectorOffset + 1
    BY DEF ReadSector
  <2>3. Shown' \in 0 .. SectorSize
    BY <1>1, <1>4, <2>1 DEF Shown
  <2> QED
    BY <1>1, <1>4, <2>1, <2>2, <2>3 DEF ClusterEnds
<1>7. failures' \in 0 .. Failures
  BY FailuresCounted DEF ReadSector, IInv, TypeOK
<1> QED
  BY <1>2, <1>3, <1>4, <1>5, <1>6, <1>7 DEF ReadSector, IInv, TypeOK, volume

LEMMA ReadFatKeeps == ASSUME IInv, ReadFat PROVE IInv'
<1>1. PICK b \in FatSector :
        /\ fatBuffer' = b /\ nextFileCluster' = Low28(b.next[nextFileCluster % PerSector])
        /\ Succeeds \/ Fails
  <2>1. {fatBuffer} \subseteq Structure["fat"]
    BY Kinds4 DEF IInv
  <2>2. Shows(UInt32(FatStart + (nextFileCluster \div PerSector)), "fat", {fatBuffer})
          \subseteq FatSector
    BY <2>1, ShowsTyped, Kinds4
  <2> QED
    BY <2>1, <2>2, Kinds4 DEF ReadFat, Read28
<1>2. nextFileCluster' \in Nat
  <2>1. nextFileCluster % PerSector \in 0 .. PerSector - 1
    BY ClustersNat DEF IInv, TypeOK
  <2>2. b.next[nextFileCluster % PerSector] \in 0 .. Words - 1
    BY <2>1 DEF FatSector
  <2>3. b.next[nextFileCluster % PerSector] \in Nat
    BY <2>2, FatAssumption
  <2> QED
    BY <1>1, <2>3, ClustersNat
<1>3. failures' \in 0 .. Failures
  BY <1>1, FailuresCounted DEF IInv, TypeOK
<1>4. ~Unused'
  BY DEF ReadFat, IInv, TypeOK, Unused, Dirent, volume
<1> QED
  BY <1>1, <1>2, <1>3, <1>4 DEF ReadFat, IInv, TypeOK, volume

LEMMA StutterKeeps == ASSUME IInv, UNCHANGED vars PROVE IInv'
BY DEF vars, volume, file, IInv, TypeOK, Unused, Dirent, Shown

LEMMA Keeps == IInv /\ [Next]_vars => IInv'
BY ReadMbrKeeps, NextPartitionKeeps, ReadBpbKeeps, ReadRootKeeps, NextEntryKeeps,
   NextClusterKeeps, ReadSectorKeeps, ReadFatKeeps, StutterKeeps DEF Next

THEOREM Invariance == Spec => []IInv
BY Starts, Keeps, PTL DEF Spec

(* Types: whatever the disk holds and however reads fail, the directory    *)
(* and the partition table are not left, the terminator is written inside  *)
(* the file buffer, and no cluster is overrun by more than one sector.     *)
THEOREM Types == Spec => []TypeOK
<1>1. IInv => TypeOK
  BY DEF IInv
<1> QED
  BY <1>1, Invariance, PTL

-----------------------------------------------------------------------------
(* The files. The theorem at the end speaks of the chain of a file's       *)
(* clusters, a function defined by recursion; that it is what its          *)
(* definition says is shown first, from an induction principle for sets.   *)

(* A set that has 0 and with each number the next one has them all.        *)
LEMMA SetInduction ==
  ASSUME NEW S, 0 \in S, \A n \in Nat : n \in S => n + 1 \in S
  PROVE  Nat \subseteq S
<1> SUFFICES ASSUME Nat \ S # {} PROVE FALSE
  OBVIOUS
<1>1. PICK n \in Nat \ S : \A m \in Nat \ S : ~(<<m, n>> \in OpToRel(<, Nat))
  BY NatLessThanWellFounded, WFMin
<1>2. n - 1 \in Nat /\ n - 1 + 1 = n
  OBVIOUS
<1>3. <<n - 1, n>> \in OpToRel(<, Nat)
  BY <1>2 DEF OpToRel
<1>4. n - 1 \in S
  BY <1>1, <1>2, <1>3
<1> QED
  BY <1>1, <1>2, <1>4

(* Quotient and remainder are the only numbers that divide so.             *)
LEMMA ModIs ==
  ASSUME NEW d \in Nat \ {0}, NEW q \in Int, NEW o \in 0 .. d - 1
  PROVE  (d * q + o) \div d = q /\ (d * q + o) % d = o
<1> DEFINE x == d * q + o
<1> DEFINE a == x \div d
<1>1. x \in Int /\ a \in Int /\ x = d * a + (x % d) /\ x % d \in 0 .. d - 1
  OBVIOUS
<1> QED
  BY <1>1

(* A sum may wrap early or late.                                           *)
LEMMA ModAdds ==
  ASSUME NEW x \in Int, NEW y \in Int, NEW d \in Nat \ {0}
  PROVE  ((x % d) + y) % d = (x + y) % d
<1> DEFINE a == x \div d
<1> DEFINE b == ((x % d) + y) \div d
<1> DEFINE o == ((x % d) + y) % d
<1>1. a \in Int /\ x = d * a + (x % d) /\ x % d \in Int
  OBVIOUS
<1>2. b \in Int /\ o \in 0 .. d - 1 /\ (x % d) + y = d * b + o
  BY <1>1
<1>3. a + b \in Int /\ x + y = d * (a + b) + o
  BY <1>1, <1>2
<1>4. (d * (a + b) + o) % d = o
  BY <1>2, <1>3, ModIs
<1> QED
  BY <1>3, <1>4

(* The chain is what its recursive definition says: finite beginnings of   *)
(* it exist and agree, so that together they are the function meant.       *)
Begins(p, first, n, g) ==
  /\ g = [k \in 0 .. n |-> g[k]]
  /\ \A k \in 0 .. n : g[k] = IF k = 0 THEN first ELSE Link(p, g[k - 1])

LEMMA BeginningsExist ==
  ASSUME NEW p, NEW first
  PROVE  \A n \in Nat : \E g : Begins(p, first, n, g)
<1> DEFINE S == {n \in Nat : \E g : Begins(p, first, n, g)}
<1>1. 0 \in S
  <2>1. Begins(p, first, 0, [k \in 0 .. 0 |-> first])
    BY DEF Begins
  <2> QED
    BY <2>1
<1>2. ASSUME NEW n \in Nat, n \in S PROVE n + 1 \in S
  <2>1. PICK g : Begins(p, first, n, g)
    BY <1>2
  <2> DEFINE h == [k \in 0 .. n + 1 |-> IF k = n + 1 THEN Link(p, g[n]) ELSE g[k]]
  <2>2. \A k \in 0 .. n : h[k] = g[k]
    OBVIOUS
  <2>3. h[n + 1] = Link(p, h[n])
    OBVIOUS
  <2>4. \A k \in 0 .. n : h[k] = IF k = 0 THEN first ELSE Link(p, h[k - 1])
    <3>1. \A k \in 0 .. n : k # 0 => k - 1 \in 0 .. n
      OBVIOUS
    <3> HIDE DEF h
    <3> QED
      BY <2>1, <2>2, <3>1 DEF Begins
  <2>5. \A k \in 0 .. n + 1 : k \in 0 .. n \/ k = n + 1
    OBVIOUS
  <2>6. h = [k \in 0 .. n + 1 |-> h[k]] /\ n + 1 - 1 = n /\ n + 1 # 0
    OBVIOUS
  <2> HIDE DEF h
  <2>7. \A k \in 0 .. n + 1 : h[k] = IF k = 0 THEN first ELSE Link(p, h[k - 1])
    <3> SUFFICES ASSUME NEW k \in 0 .. n + 1
                 PROVE  h[k] = IF k = 0 THEN first ELSE Link(p, h[k - 1])
      OBVIOUS
    <3>1. CASE k \in 0 .. n
      BY <2>4, <3>1
    <3>2. CASE k = n + 1
      BY <2>3, <2>6, <3>2
    <3> QED
      BY <2>5, <3>1, <3>2
  <2>8. Begins(p, first, n + 1, h)
    BY <2>6, <2>7, Zenon DEF Begins
  <2> QED
    BY <2>8
<1> HIDE DEF S
<1>3. Nat \subseteq S
  BY <1>1, <1>2, SetInduction
<1> QED
  BY <1>3 DEF S

LEMMA BeginningsAgree ==
  ASSUME NEW p, NEW first, NEW n \in Nat, NEW m \in Nat, NEW g, NEW h,
         Begins(p, first, n, g), Begins(p, first, m, h)
  PROVE  \A k \in 0 .. n : k <= m => g[k] = h[k]
<1> DEFINE S == {k \in Nat : k <= n /\ k <= m => g[k] = h[k]}
<1>0. /\ \A k \in 0 .. n : g[k] = IF k = 0 THEN first ELSE Link(p, g[k - 1])
      /\ \A k \in 0 .. m : h[k] = IF k = 0 THEN first ELSE Link(p, h[k - 1])
  BY Zenon DEF Begins
<1>1. 0 \in S
  BY <1>0
<1>2. ASSUME NEW k \in Nat, k \in S PROVE k + 1 \in S
  <2> SUFFICES ASSUME k + 1 <= n, k + 1 <= m PROVE g[k + 1] = h[k + 1]
    OBVIOUS
  <2>1. k + 1 \in 0 .. n /\ k + 1 \in 0 .. m /\ k + 1 # 0 /\ k + 1 - 1 = k
    OBVIOUS
  <2>2. g[k] = h[k]
    BY <1>2
  <2>3. g[k + 1] = Link(p, g[k])
    BY <1>0, <2>1
  <2>4. h[k + 1] = Link(p, h[k])
    BY <1>0, <2>1
  <2> QED
    BY <2>2, <2>3, <2>4
<1> HIDE DEF S
<1>3. Nat \subseteq S
  BY <1>1, <1>2, SetInduction
<1> QED
  BY <1>3 DEF S

LEMMA ChainUnfolds ==
  ASSUME NEW p, NEW first
  PROVE  /\ Chain(p, first)[0] = first
         /\ \A k \in Nat : Chain(p, first)[k + 1] = Link(p, Chain(p, first)[k])
<1> DEFINE G(n) == CHOOSE g : Begins(p, first, n, g)
<1> DEFINE f == [n \in Nat |-> G(n)[n]]
<1>1. \A n \in Nat : Begins(p, first, n, G(n))
  BY BeginningsExist
<1> HIDE DEF G
<1>2. ASSUME NEW n \in Nat \ {0} PROVE f[n] = Link(p, f[n - 1])
  <2>1. n - 1 \in Nat /\ n - 1 \in 0 .. n - 1 /\ n - 1 <= n /\ n \in 0 .. n
    OBVIOUS
  <2>2. Begins(p, first, n, G(n)) /\ Begins(p, first, n - 1, G(n - 1))
    BY <1>1, <2>1
  <2>3. G(n - 1)[n - 1] = G(n)[n - 1]
    BY <2>1, <2>2, BeginningsAgree
  <2>4. G(n)[n] = Link(p, G(n)[n - 1])
    BY <2>1, <2>2 DEF Begins
  <2> QED
    BY <2>1, <2>3, <2>4
<1>3. f[0] = first
  BY <1>1 DEF Begins
<1>4. f = [k \in Nat |-> IF k = 0 THEN first ELSE Link(p, f[k - 1])]
  <2> DEFINE h == [k \in Nat |-> IF k = 0 THEN first ELSE Link(p, f[k - 1])]
  <2>1. \A k \in Nat : f[k] = h[k]
    BY <1>2, <1>3
  <2> QED
    BY <2>1
<1> HIDE DEF f
<1>5. Chain(p, first) =
        [k \in Nat |-> IF k = 0 THEN first ELSE Link(p, Chain(p, first)[k - 1])]
  BY <1>4 DEF Chain
<1> DEFINE c == Chain(p, first)
<1> HIDE DEF c
<1>6. c = [k \in Nat |-> IF k = 0 THEN first ELSE Link(p, c[k - 1])]
  BY <1>5 DEF c
<1>7. c[0] = first
  BY <1>6
<1>8. \A k \in Nat : k + 1 \in Nat /\ k + 1 # 0 /\ k + 1 - 1 = k
  OBVIOUS
<1>9. \A k \in Nat : c[k + 1] = Link(p, c[k])
  BY <1>6, <1>8
<1> QED
  BY <1>7, <1>9 DEF c

-----------------------------------------------------------------------------
InFile == pc \in {"cluster", "sector", "fat"}

(* While nothing fails, the layout and the directory are those of the      *)
(* volume in the partition.                                                *)
BpbRead(p) == Readable(p, "bpb") => bpb = Disk[p]

RootRead(p) ==
  SoundVolume(p) => dirent = Disk[ClusterAt(p, Disk[p].rootCluster)].entries

LayoutInv ==
  /\ failures = 0 /\ (pc \in {"root", "entry"} \/ InFile) => BpbRead(PartitionOffset)
  /\ failures = 0 /\ (pc = "entry" \/ InFile) => RootRead(PartitionOffset)

(* Of file f of the volume at sector p the first n sectors are printed, and *)
(* the reader is in the q-th cluster of its chain.                         *)
Reached(p, f, n, q) ==
  /\ n <= Sectors(f)
  /\ SIZE = f.size - SectorSize * n
  /\ InOrder(Contents(p, f), n, printed)
  /\ SIZE > 0 =>
       /\ nextFileCluster = Chain(p, f.firstCluster)[q]
       /\ n = Disk[p].sectorPerCluster * q
                + (CASE pc = "cluster" -> 0
                     [] pc = "sector"  -> sectorOffset
                     [] pc = "fat"     -> Disk[p].sectorPerCluster)

FileInv ==
  InFile /\ Sound =>
    \E n, q \in Nat :
      Reached(PartitionOffset, File(PartitionOffset, entry + 1), n, q)

(* What was printed so far, and from where.                                *)
PrintedTyped == printed \in Seq(Int \X Int) /\ buffer \in Int

-----------------------------------------------------------------------------
(* Numbers.                                                                *)

LEMMA DivAtLeast ==
  ASSUME NEW d \in Nat \ {0}, NEW x \in Int, NEW a \in Int, d * a <= x
  PROVE  a <= x \div d
<1> DEFINE b == x \div d
<1>1. b \in Int /\ x = d * b + (x % d) /\ x % d \in 0 .. d - 1
  OBVIOUS
<1>2. ASSUME b <= a - 1 PROVE FALSE
  <2>1. d * b <= d * (a - 1)
    BY <1>1, <1>2
  <2>2. d * (a - 1) = d * a - d
    OBVIOUS
  <2> QED
    BY <1>1, <2>1, <2>2
<1> QED
  BY <1>1, <1>2

LEMMA DivIs ==
  ASSUME NEW x \in Nat, NEW d \in Nat \ {0}
  PROVE  /\ x \div d \in Nat /\ x % d \in 0 .. d - 1
         /\ x = d * (x \div d) + (x % d)
OBVIOUS

LEMMA WordsIs ==
  /\ Words \in Nat \ {0} /\ PerSector \in Nat \ {0} /\ SectorSize \in Nat \ {0}
  /\ Words \div 16 <= Words
BY FatAssumption

LEMMA Wraps ==
  ASSUME NEW x \in Int, NEW y \in Int
  PROVE  UInt32(x) \in Int /\ UInt32(UInt32(x) + y) = UInt32(x + y)
<1>1. Words \in Nat \ {0}
  BY WordsIs
<1>2. x % Words \in Int
  BY <1>1
<1>3. ((x % Words) + y) % Words = (x + y) % Words
  BY <1>1, ModAdds
<1> QED
  BY <1>2, <1>3 DEF UInt32

(* A sector that can be read has a number that does not wrap.              *)
LEMMA OnDisk ==
  ASSUME NEW s \in DOMAIN Disk
  PROVE  s \in Nat /\ UInt32(s) = s
<1>1. s \in 0 .. (Words \div 16) - 1
  BY FatAssumption
<1>2. s \in 0 .. Words - 1
  BY <1>1, WordsIs
<1>3. (Words * 0 + s) % Words = s
  BY <1>2, WordsIs, ModIs
<1> QED
  BY <1>2, <1>3, WordsIs DEF UInt32

(* The sectors a file has.                                                 *)
LEMMA SectorsIs ==
  ASSUME NEW f \in DirectoryEntryFat32
  PROVE  /\ Sectors(f) \in Nat /\ f.size \in Nat
         /\ f.size <= SectorSize * Sectors(f)
         /\ SectorSize * (Sectors(f) - 1) < f.size
<1> DEFINE x == f.size + SectorSize - 1
<1> DEFINE a == x \div SectorSize
<1>1. f.size \in Nat
  BY DEF DirectoryEntryFat32
<1>2. SectorSize \in Nat \ {0}
  BY WordsIs
<1>3. x \in Nat
  BY <1>1, <1>2
<1>4. f.size <= SectorSize * a /\ SectorSize * (a - 1) < f.size /\ a \in Nat
  <2> DEFINE r == x % SectorSize
  <2>1. a \in Nat /\ r \in 0 .. SectorSize - 1 /\ x = SectorSize * a + r
    BY <1>2, <1>3, DivIs
  <2>2. f.size = x - SectorSize + 1
    BY <1>1, <1>2
  <2> HIDE DEF x, a, r
  <2>3. SectorSize * (a - 1) = SectorSize * a - SectorSize
    BY <1>2, <2>1
  <2> QED
    BY <1>1, <1>2, <1>3, <2>1, <2>2, <2>3
<1> QED
  BY <1>1, <1>4 DEF Sectors

(* While bytes are left there is a sector left, and it shows what is left   *)
(* of the file, at most a sector of it.                                    *)
LEMMA BytesLeft ==
  ASSUME NEW f \in DirectoryEntryFat32, NEW n \in Nat,
         SIZE = f.size - SectorSize * n, n <= Sectors(f)
  PROVE  /\ SIZE > 0 => n < Sectors(f)
         /\ SIZE > 0 => Shown = IF n + 1 < Sectors(f) THEN SectorSize
                                ELSE f.size - (Sectors(f) - 1) * SectorSize
         /\ SIZE <= 0 => n = Sectors(f)
         /\ SIZE - SectorSize = f.size - SectorSize * (n + 1)
<1> DEFINE s == Sectors(f)
<1>1. /\ s \in Nat /\ f.size \in Nat /\ SectorSize \in Nat \ {0}
      /\ f.size <= SectorSize * s /\ SectorSize * (s - 1) < f.size
  BY SectorsIs, WordsIs
<1> HIDE DEF s
<1>2. \A i, j \in Int : i <= j => SectorSize * i <= SectorSize * j
  BY <1>1
<1>3. SectorSize * (n + 1) = SectorSize * n + SectorSize
  BY <1>1
<1>4. SIZE > 0 => n < s
  <2>1. n = s => SIZE <= 0
    BY <1>1 DEF s
  <2> QED
    BY <2>1, <1>1 DEF s
<1>5. SIZE <= 0 => n = s
  <2>1. ASSUME SIZE <= 0, n <= s - 1 PROVE FALSE
    <3>1. SectorSize * n <= SectorSize * (s - 1)
      BY <1>1, <1>2, <2>1
    <3>2. f.size <= SectorSize * n
      BY <1>1, <2>1
    <3> QED
      BY <1>1, <3>1, <3>2
  <2> QED
    BY <1>1, <2>1 DEF s
<1>6. ASSUME n + 1 < s PROVE SIZE > SectorSize
  <2>1. SectorSize * (n + 1) <= SectorSize * (s - 1)
    BY <1>1, <1>2, <1>6
  <2> QED
    BY <1>1, <1>3, <2>1
<1>7. ASSUME n + 1 = s PROVE SIZE <= SectorSize /\ SIZE = f.size - (s - 1) * SectorSize
  <2>1. n = s - 1 /\ SectorSize * n = (s - 1) * SectorSize
    BY <1>1, <1>7
  <2> QED
    BY <1>1, <1>3, <1>7, <2>1
<1>8. SIZE \in Int
  BY <1>1
<1>9. SIZE > 0 => Shown = IF n + 1 < s THEN SectorSize ELSE f.size - (s - 1) * SectorSize
  <2>1. CASE n + 1 < s
    BY <1>1, <1>6, <1>8, <2>1 DEF Shown
  <2>2. CASE n + 1 = s
    BY <1>1, <1>7, <1>8, <2>2 DEF Shown
  <2>3. SIZE > 0 => n + 1 < s \/ n + 1 = s
    BY <1>1, <1>4
  <2> QED
    BY <2>1, <2>2, <2>3
<1> QED
  BY <1>1, <1>3, <1>4, <1>5, <1>9 DEF s

-----------------------------------------------------------------------------
(* What is printed.                                                        *)

LEMMA InOrderStarts ==
  ASSUME NEW c
  PROVE  InOrder(c, 0, << >>)
<1> DEFINE at == [k \in 1 .. 0 |-> 0]
<1>1. at \in [1 .. 0 -> DOMAIN << >>]
  OBVIOUS
<1> QED
  <2> HIDE DEF at
  <2>1. \A k \in 1 .. 0 : FALSE
    OBVIOUS
  <2> QED
    BY <1>1, <2>1 DEF InOrder

(* Printing more keeps what is printed, and adds to it when it is next.    *)
LEMMA InOrderLonger ==
  ASSUME NEW T, NEW s \in Seq(T), NEW x \in T, NEW c, NEW n \in Nat, InOrder(c, n, s)
  PROVE  /\ InOrder(c, n, Append(s, x))
         /\ x = c[n + 1] => InOrder(c, n + 1, Append(s, x))
<1>1. PICK at \in [1 .. n -> DOMAIN s] :
        /\ \A k \in 1 .. n : s[at[k]] = c[k]
        /\ \A j, k \in 1 .. n : j < k => at[j] < at[k]
  BY DEF InOrder
<1> DEFINE t == Append(s, x)
<1> DEFINE l == Len(s)
<1>2. /\ l \in Nat /\ DOMAIN s = 1 .. l /\ DOMAIN t = 1 .. l + 1
      /\ t[l + 1] = x /\ \A k \in 1 .. l : t[k] = s[k]
  BY AppendProperties, LenProperties
<1> HIDE DEF t, l
<1>3. InOrder(c, n, t)
  <2>1. at \in [1 .. n -> DOMAIN t] /\ \A k \in 1 .. n : t[at[k]] = c[k]
    BY <1>1, <1>2
  <2> QED
    BY <1>1, <2>1 DEF InOrder
<1>4. ASSUME x = c[n + 1] PROVE InOrder(c, n + 1, t)
  <2> DEFINE more == [k \in 1 .. n + 1 |-> IF k = n + 1 THEN l + 1 ELSE at[k]]
  <2>1. /\ \A k \in 1 .. n : more[k] = at[k] /\ at[k] \in 1 .. l
        /\ more[n + 1] = l + 1
        /\ \A k \in 1 .. n + 1 : k \in 1 .. n \/ k = n + 1
    BY <1>1, <1>2
  <2>2. more \in [1 .. n + 1 -> DOMAIN t]
    BY <1>2, <2>1
  <2> HIDE DEF more
  <2>3. \A k \in 1 .. n + 1 : t[more[k]] = c[k]
    BY <1>1, <1>2, <1>4, <2>1
  <2>4. \A j, k \in 1 .. n + 1 : j < k => more[j] < more[k]
    <3> SUFFICES ASSUME NEW j \in 1 .. n + 1, NEW k \in 1 .. n + 1, j < k
                 PROVE  more[j] < more[k]
      OBVIOUS
    <3>1. j \in 1 .. n
      OBVIOUS
    <3>2. CASE k \in 1 .. n
      BY <1>1, <2>1, <3>1, <3>2
    <3>3. CASE k = n + 1
      BY <1>2, <2>1, <3>1, <3>3
    <3> QED
      BY <2>1, <3>2, <3>3
  <2> QED
    BY <2>2, <2>3, <2>4 DEF InOrder
<1> QED
  BY <1>3, <1>4 DEF t

(* Where the layout read is that of the volume, so are the places.         *)
LEMMA LayoutIs ==
  ASSUME TypeOK, partition < 4, NEW p, p = PartitionOffset, bpb = Disk[p], NEW c \in Int
  PROVE  /\ p \in Nat /\ ClusterAt(p, c) \in Int
         /\ SectorOf(c) = UInt32(ClusterAt(p, c))
         /\ c \in Nat => /\ FatAt(p, c) \in Int
                         /\ UInt32(FatStart + (c \div PerSector)) = UInt32(FatAt(p, c))
<1> DEFINE spc == bpb.sectorPerCluster
<1> DEFINE rs  == bpb.reservedSectors
<1> DEFINE ts  == bpb.tableSize * bpb.fatCopies
<1>0. bpb.sectorPerCluster \in Nat /\ bpb.reservedSectors \in Nat
      /\ bpb.tableSize \in Nat /\ bpb.fatCopies \in Nat
  <2>1. bpb \in BiosParameterBlock32
    BY DEF TypeOK
  <2> QED
    BY <2>1 DEF BiosParameterBlock32, UInt8
<1>1. spc \in Nat /\ rs \in Nat /\ ts \in Nat
  BY <1>0
<1>2. p \in Nat
  BY DEF TypeOK, MasterBootRecord, PartitionOffset
<1> DEFINE y == spc * (c - 2)
<1>3. y \in Int
  BY <1>1
<1>4. ClusterAt(p, c) = p + rs + ts + y
  <2>1. ts = bpb.fatCopies * bpb.tableSize
    BY <1>0
  <2> QED
    BY <2>1 DEF ClusterAt
<1>5. FatStart = UInt32(p + rs) /\ DataStart = UInt32(FatStart + ts) /\ SectorOf(c) = UInt32(DataStart + y)
  BY DEF FatStart, DataStart, SectorOf
<1> HIDE DEF spc, rs, ts, y
<1>6. FatStart \in Int /\ DataStart = UInt32(p + rs + ts)
  BY <1>1, <1>2, <1>5, Wraps
<1>7. SectorOf(c) = UInt32(p + rs + ts + y)
  BY <1>1, <1>2, <1>3, <1>5, <1>6, Wraps
<1>8. ASSUME c \in Nat
      PROVE  FatAt(p, c) \in Int /\ UInt32(FatStart + (c \div PerSector)) = UInt32(FatAt(p, c))
  <2> DEFINE z == c \div PerSector
  <2>1. z \in Int
    BY <1>8, WordsIs, DivIs
  <2>2. FatAt(p, c) = p + rs + z
    BY DEF FatAt, rs
  <2> HIDE DEF z
  <2>3. p + rs \in Int /\ p + rs + z \in Int
    BY <1>1, <1>2, <2>1
  <2>4. UInt32(FatStart + z) = UInt32(p + rs + z)
    BY <1>5, <2>1, <2>3, Wraps
  <2> QED
    BY <2>2, <2>3, <2>4 DEF z
<1> QED
  BY <1>1, <1>2, <1>3, <1>4, <1>7, <1>8

(* What comes after n sectors of a file.                                   *)
LEMMA NextContent ==
  ASSUME NEW p, NEW f, NEW n \in Nat, Sectors(f) \in Nat, n < Sectors(f)
  PROVE  /\ n + 1 \in 1 .. Sectors(f) /\ n + 1 <= Sectors(f)
         /\ Contents(p, f)[n + 1] = ContentOf(p, f, n + 1)
         /\ ContentOf(p, f, n + 1) =
              <<ClusterAt(p, Chain(p, f.firstCluster)[n \div Disk[p].sectorPerCluster])
                  + (n % Disk[p].sectorPerCluster),
                IF n + 1 < Sectors(f) THEN SectorSize
                ELSE f.size - (Sectors(f) - 1) * SectorSize>>
<1>1. n + 1 \in 1 .. Sectors(f) /\ n + 1 <= Sectors(f) /\ (n + 1) - 1 = n
  OBVIOUS
<1> QED
  BY <1>1 DEF Contents, ContentOf

-----------------------------------------------------------------------------
(* The layout.                                                             *)

LEMMA NoneFailed ==
  ASSUME TypeOK, failures' = 0, Succeeds \/ Fails
  PROVE  failures = 0 /\ ~Fails
<1>1. failures \in Nat
  BY FatAssumption DEF TypeOK
<1>2. ~Fails
  BY <1>1 DEF Fails
<1> QED
  BY <1>1, <1>2 DEF Succeeds

LEMMA LayoutStays ==
  ASSUME LayoutInv, UNCHANGED volume, failures' = 0 => failures = 0,
         pc' = "root" => pc = "root", pc' = "entry" => pc = "entry" \/ InFile,
         InFile' => pc = "entry" \/ InFile
  PROVE  LayoutInv'
BY DEF LayoutInv, BpbRead, RootRead, PartitionOffset, volume, InFile

(* Reads that succeed show what is on the disk.                            *)
LEMMA BpbKeeps == ASSUME IInv, ReadBpb PROVE LayoutInv'
<1> SUFFICES ASSUME failures' = 0, NEW p, p = PartitionOffset', Readable(p, "bpb")
             PROVE  bpb' = Disk[p]
  <2>1. pc' = "root"
    BY DEF ReadBpb
  <2> QED
    BY <2>1 DEF LayoutInv, BpbRead, InFile
<1>1. p = PartitionOffset
  BY DEF ReadBpb, PartitionOffset
<1>2. Succeeds \/ Fails
  BY DEF ReadBpb, Read28
<1>3. ~Fails
  BY <1>2, NoneFailed DEF IInv
<1>4. Shows(p, "bpb", Garbage["bpb"]) = {Disk[p]}
  BY DEF Shows, Readable
<1> QED
  BY <1>1, <1>3, <1>4 DEF ReadBpb, Read28

LEMMA RootKeeps == ASSUME IInv, LayoutInv, ReadRoot PROVE LayoutInv'
<1> SUFFICES ASSUME failures' = 0, NEW p, p = PartitionOffset
             PROVE  BpbRead(p)' /\ RootRead(p)'
  <2>1. pc' = "entry" /\ PartitionOffset' = PartitionOffset
    BY DEF ReadRoot, PartitionOffset
  <2> QED
    BY <2>1 DEF LayoutInv, BpbRead, RootRead, InFile
<1>1. failures = 0 /\ ~Fails
  <2>1. Succeeds \/ Fails
    BY DEF ReadRoot, Read28
  <2> QED
    BY <2>1, NoneFailed DEF IInv
<1>2. BpbRead(p) /\ bpb' = bpb
  BY <1>1 DEF LayoutInv, ReadRoot
<1>3. ASSUME SoundVolume(p)
      PROVE  dirent' = Disk[ClusterAt(p, Disk[p].rootCluster)].entries
  <2>1. Readable(p, "bpb") /\ Readable(ClusterAt(p, Disk[p].rootCluster), "dir")
    BY <1>3 DEF SoundVolume
  <2>2. bpb = Disk[p]
    BY <1>2, <2>1 DEF BpbRead
  <2>3. bpb.rootCluster \in Int
    BY DEF IInv, TypeOK, BiosParameterBlock32
  <2> DEFINE s == ClusterAt(p, bpb.rootCluster)
  <2>4. SectorOf(bpb.rootCluster) = UInt32(s)
    BY <2>2, <2>3, LayoutIs DEF IInv, ReadRoot
  <2>5. s \in DOMAIN Disk /\ Disk[s].kind = "dir"
    BY <2>1, <2>2 DEF Readable
  <2> HIDE DEF s
  <2>6. SectorOf(bpb.rootCluster) = s
    BY <2>4, <2>5, OnDisk
  <2>7. Shows(s, "dir", Garbage["dir"]) = {Disk[s]}
    BY <2>5 DEF Shows
  <2>8. dirent' = Disk[s].entries
    BY <1>1, <2>6, <2>7 DEF ReadRoot, Read28
  <2> QED
    BY <2>2, <2>8 DEF s
<1> QED
  BY <1>2, <1>3 DEF BpbRead, RootRead

LEMMA LayoutKeeps == IInv /\ LayoutInv /\ [Next]_vars => LayoutInv'
<1> SUFFICES ASSUME IInv, LayoutInv, [Next]_vars PROVE LayoutInv'
  OBVIOUS
<1>1. CASE ReadMbr \/ NextPartition
  <2>1. ReadMbr => pc' \in {"done", "partition"}
    BY DEF ReadMbr, Read28
  <2>2. NextPartition => pc' \in {"done", "partition", "bpb"}
    BY DEF NextPartition
  <2>3. pc' \in {"done", "partition", "bpb"}
    BY <1>1, <2>1, <2>2
  <2> QED
    BY <2>3 DEF LayoutInv, InFile
<1>2. CASE ReadBpb
  BY <1>2, BpbKeeps
<1>3. CASE ReadRoot
  BY <1>3, RootKeeps
<1>4. CASE NextEntry
  <2>1. CASE Unused
    BY <1>4, <2>1 DEF NextEntry, LayoutInv, InFile
  <2>2. CASE ~Unused
    <3>1. UNCHANGED volume /\ UNCHANGED failures /\ pc = "entry" /\ pc' \in {"entry", "cluster"}
      BY <1>4, <2>2 DEF NextEntry, volume
    <3> QED
      BY <3>1, LayoutStays DEF InFile
  <2> QED
    BY <2>1, <2>2
<1>5. CASE NextCluster
  <2>1. UNCHANGED volume /\ UNCHANGED failures /\ pc = "cluster" /\ pc' \in {"entry", "sector"}
    BY <1>5 DEF NextCluster
  <2> QED
    BY <2>1, LayoutStays DEF InFile
<1>6. CASE ReadSector
  <2>1. UNCHANGED volume /\ pc = "sector" /\ pc' \in {"fat", "sector"} /\ (Succeeds \/ Fails)
    BY <1>6 DEF ReadSector
  <2> QED
    BY <2>1, LayoutStays, NoneFailed DEF InFile, IInv
<1>7. CASE ReadFat
  <2>1. UNCHANGED volume /\ pc = "fat" /\ pc' = "cluster" /\ (Succeeds \/ Fails)
    BY <1>7 DEF ReadFat, Read28
  <2> QED
    BY <2>1, LayoutStays, NoneFailed DEF InFile, IInv
<1>8. CASE UNCHANGED vars
  <2>1. UNCHANGED <<volume, failures, pc>>
    BY <1>8 DEF vars
  <2> QED
    BY <2>1, LayoutStays DEF InFile
<1> QED
  BY <1>1, <1>2, <1>3, <1>4, <1>5, <1>6, <1>7, <1>8 DEF Next

-----------------------------------------------------------------------------
(* The file.                                                               *)

(* File f of the volume at sector p is the one being read.                 *)
FileIs(p, f) ==
  /\ p = PartitionOffset /\ partition < 4
  /\ SoundVolume(p) /\ SoundFile(p, f)
  /\ f = Dirent /\ f \in DirectoryEntryFat32
  /\ bpb = Disk[p]

(* With an entry in use of a sound volume, what was read is what is there.  *)
LEMMA FileThere ==
  ASSUME IInv, LayoutInv, failures = 0, pc = "entry" \/ InFile, ~Unused,
         NEW p, p = PartitionOffset, NEW f, f = File(p, entry + 1),
         SoundVolume(p), SoundFile(p, f)
  PROVE  FileIs(p, f)
<1>1. BpbRead(p) /\ RootRead(p)
  BY DEF LayoutInv
<1>2. bpb = Disk[p]
  BY <1>1 DEF BpbRead, SoundVolume
<1>3. f = Dirent /\ f \in DirectoryEntryFat32
  <2>1. dirent = Disk[ClusterAt(p, Disk[p].rootCluster)].entries
    BY <1>1 DEF RootRead
  <2> QED
    BY <2>1, UsedEntry DEF File, Dirent, IInv
<1>4. partition < 4
  BY DEF IInv, InFile
<1> QED
  BY <1>2, <1>3, <1>4 DEF FileIs

LEMMA ClustersFollow ==
  ASSUME NEW p, NEW f, NEW q \in Nat
  PROVE  /\ Chain(p, f.firstCluster)[0] = f.firstCluster
         /\ Chain(p, f.firstCluster)[q + 1] = Link(p, Chain(p, f.firstCluster)[q])
BY ChainUnfolds

(* A step of a file that is being read stays with it.                      *)
LEMMA SameFile ==
  ASSUME IInv, LayoutInv, InFile, UNCHANGED <<volume, entry>>, Sound',
         Succeeds \/ Fails,
         NEW p, p = PartitionOffset', NEW f, f = File(p, entry' + 1)
  PROVE  FileIs(p, f) /\ Sound /\ ~Fails /\ p = PartitionOffset /\ f = File(p, entry + 1)
<1>1. failures = 0 /\ ~Fails
  BY NoneFailed DEF IInv, Sound
<1>2. p = PartitionOffset /\ f = File(p, entry + 1)
  BY DEF PartitionOffset, volume
<1>3. SoundVolume(p) /\ SoundFile(p, f)
  BY DEF Sound
<1>4. ~Unused
  BY DEF IInv, TypeOK, InFile
<1> QED
  BY <1>1, <1>2, <1>3, <1>4, FileThere DEF Sound

(* At first nothing of the file is printed.                                *)
LEMMA FileStarts ==
  ASSUME IInv, LayoutInv, NextEntry, InFile', Sound'
  PROVE  \E n, q \in Nat : Reached(PartitionOffset, File(PartitionOffset, entry + 1), n, q)'
<1> SUFFICES ASSUME NEW p, p = PartitionOffset', NEW f, f = File(p, entry' + 1)
             PROVE  Reached(p, f, 0, 0)'
  OBVIOUS
<1>1. ~Unused /\ pc' = "cluster" /\ pc = "entry"
  BY DEF NextEntry, InFile
<1>2. /\ SIZE' = Int32(Dirent.size) /\ nextFileCluster' = Dirent.firstCluster
      /\ printed' = << >> /\ UNCHANGED <<mbr, bpb, dirent, partition, entry, failures>>
  BY <1>1 DEF NextEntry, InFile
<1>3. p = PartitionOffset /\ f = File(p, entry + 1)
  BY <1>2 DEF PartitionOffset
<1>4. failures = 0 /\ SoundVolume(p) /\ SoundFile(p, f)
  BY <1>2 DEF Sound
<1>5. FileIs(p, f)
  BY <1>1, <1>3, <1>4, FileThere
<1>6. SIZE' = f.size /\ f.size \in Nat
  BY <1>2, <1>4, <1>5 DEF FileIs, SoundFile, Int32, DirectoryEntryFat32
<1>7. 0 <= Sectors(f) /\ f.size = f.size - SectorSize * 0
  BY <1>5, <1>6, SectorsIs, WordsIs DEF FileIs
<1>8. InOrder(Contents(p, f), 0, printed')
  BY <1>2, InOrderStarts
<1>9. nextFileCluster' = Chain(p, f.firstCluster)[0]
  BY <1>2, <1>5, ClustersFollow DEF FileIs
<1>10. 0 = Disk[p].sectorPerCluster * 0
  <2>1. Disk[p].sectorPerCluster \in Nat
    BY <1>5, ClusterSize DEF FileIs, IInv
  <2> QED
    BY <2>1
<1> QED
  BY <1>1, <1>6, <1>7, <1>8, <1>9, <1>10 DEF Reached

LEMMA ClusterGoesOn ==
  ASSUME IInv, LayoutInv, FileInv, NextCluster, InFile', Sound'
  PROVE  \E n, q \in Nat : Reached(PartitionOffset, File(PartitionOffset, entry + 1), n, q)'
<1> SUFFICES ASSUME NEW p, p = PartitionOffset', NEW f, f = File(p, entry' + 1)
             PROVE  \E n, q \in Nat : Reached(p, f, n, q)'
  OBVIOUS
<1>1. SIZE > 0 /\ pc = "cluster" /\ pc' = "sector" /\ sectorOffset' = 0
      /\ UNCHANGED <<volume, entry, SIZE, nextFileCluster, printed, failures>>
  BY DEF NextCluster, InFile
<1>2. InFile /\ Sound /\ p = PartitionOffset /\ f = File(p, entry + 1)
  BY <1>1 DEF InFile, Sound, PartitionOffset, volume
<1>3. PICK n \in Nat, q \in Nat : Reached(p, f, n, q)
  BY <1>2 DEF FileInv
<1>4. Reached(p, f, n, q)'
  BY <1>1, <1>3 DEF Reached
<1> QED
  BY <1>4

(* A sector of the file is printed next, or the one too many.              *)
LEMMA SectorAdds ==
  ASSUME IInv, LayoutInv, FileInv, PrintedTyped, ReadSector, Sound'
  PROVE  \E n, q \in Nat : Reached(PartitionOffset, File(PartitionOffset, entry + 1), n, q)'
<1> SUFFICES ASSUME NEW p, p = PartitionOffset', NEW f, f = File(p, entry' + 1)
             PROVE  \E n, q \in Nat : Reached(p, f, n, q)'
  OBVIOUS
<1>1. /\ pc = "sector" /\ InFile /\ UNCHANGED <<volume, entry, nextFileCluster>>
      /\ Succeeds \/ Fails
  BY DEF ReadSector, InFile
<1>2. FileIs(p, f) /\ Sound /\ ~Fails /\ p = PartitionOffset /\ f = File(p, entry + 1)
  BY <1>1, SameFile
<1>3. PICK n \in Nat, q \in Nat : Reached(p, f, n, q)
  BY <1>1, <1>2 DEF FileInv
<1>4. SIZE \in Int /\ SIZE > 0 /\ SectorSize \in Nat
  BY <1>1, WordsIs DEF IInv
<1>5. PICK spc \in Nat : spc = Disk[p].sectorPerCluster /\ spc = bpb.sectorPerCluster
  BY <1>2, ClusterSize DEF FileIs, IInv
<1>6. PICK o \in 0 .. spc : o = sectorOffset
  BY <1>1, <1>5 DEF IInv, TypeOK
<1>7. n = spc * q + o /\ nextFileCluster = Chain(p, f.firstCluster)[q]
  BY <1>1, <1>3, <1>4, <1>5, <1>6 DEF Reached
<1>8. n < Sectors(f) /\ Sectors(f) \in Nat
  BY <1>2, <1>3, <1>4, BytesLeft, SectorsIs DEF FileIs, Reached
<1>9. PICK x : x = <<buffer', Shown>> /\ printed' = Append(printed, x)
  BY DEF ReadSector
<1>10. x \in Int \X Int /\ printed \in Seq(Int \X Int)
  <2>1. buffer' \in Int
    BY <1>2, OnDisk DEF ReadSector, PrintedTyped
  <2>2. Shown \in Int
    BY <1>4 DEF Shown
  <2> QED
    BY <1>9, <2>1, <2>2 DEF PrintedTyped
<1>11. /\ InOrder(Contents(p, f), n, printed')
       /\ x = Contents(p, f)[n + 1] => InOrder(Contents(p, f), n + 1, printed')
  BY <1>3, <1>9, <1>10, InOrderLonger DEF Reached
<1>12. CASE o = spc
  <2>1. ClusterEnds
    BY <1>5, <1>6, <1>12 DEF ClusterEnds
  <2>2. SIZE' = SIZE /\ pc' = "fat"
    BY <2>1 DEF ReadSector
  <2>3. n = spc * q + spc
    BY <1>7, <1>12
  <2>4. Reached(p, f, n, q)'
    BY <1>1, <1>3, <1>5, <1>7, <1>11, <2>2, <2>3 DEF Reached
  <2> QED
    BY <2>4
<1>13. CASE o < spc
  <2>1. ~ClusterEnds
    BY <1>5, <1>6, <1>13 DEF ClusterEnds
  <2>2. /\ SIZE' = SIZE - SectorSize /\ sectorOffset' = o + 1
        /\ pc' = IF SIZE' <= 0 THEN "fat" ELSE "sector"
    BY <1>6, <2>1 DEF ReadSector
  <2>3. /\ n + 1 \in 1 .. Sectors(f) /\ n + 1 <= Sectors(f)
        /\ Contents(p, f)[n + 1] = ContentOf(p, f, n + 1)
        /\ ContentOf(p, f, n + 1) =
             <<ClusterAt(p, nextFileCluster) + o,
               IF n + 1 < Sectors(f) THEN SectorSize
               ELSE f.size - (Sectors(f) - 1) * SectorSize>>
    <3>1. n \div spc = q /\ n % spc = o
      <4>1. spc \in Nat \ {0} /\ o \in 0 .. spc - 1 /\ q \in Int
        BY <1>6, <1>13
      <4>2. (spc * q + o) \div spc = q /\ (spc * q + o) % spc = o
        BY <4>1, ModIs
      <4> QED
        BY <1>7, <4>2
    <3>2. /\ n + 1 \in 1 .. Sectors(f) /\ n + 1 <= Sectors(f)
          /\ Contents(p, f)[n + 1] = ContentOf(p, f, n + 1)
          /\ ContentOf(p, f, n + 1) =
               <<ClusterAt(p, Chain(p, f.firstCluster)[n \div Disk[p].sectorPerCluster])
                   + (n % Disk[p].sectorPerCluster),
                 IF n + 1 < Sectors(f) THEN SectorSize
                 ELSE f.size - (Sectors(f) - 1) * SectorSize>>
      BY <1>8, NextContent
    <3> QED
      BY <1>5, <1>7, <3>1, <3>2
  <2>4. FileSector = ClusterAt(p, nextFileCluster) + o /\ FileSector \in DOMAIN Disk
    <3>1. ContentOf(p, f, n + 1)[1] \in DOMAIN Disk
      BY <1>2, <2>3 DEF FileIs, SoundFile
    <3>2. nextFileCluster \in Int
      BY DEF IInv, TypeOK
    <3>3. ClusterAt(p, nextFileCluster) \in Int
          /\ SectorOf(nextFileCluster) = UInt32(ClusterAt(p, nextFileCluster))
      BY <1>2, <3>2, LayoutIs DEF FileIs, IInv
    <3>4. FileSector = UInt32(ClusterAt(p, nextFileCluster) + o)
      BY <1>6, <3>3, Wraps DEF FileSector
    <3> QED
      BY <2>3, <3>1, <3>4, OnDisk
  <2>5. buffer' = ClusterAt(p, nextFileCluster) + o
    BY <1>2, <2>4 DEF ReadSector
  <2>6. /\ Shown = IF n + 1 < Sectors(f) THEN SectorSize
                   ELSE f.size - (Sectors(f) - 1) * SectorSize
        /\ SIZE - SectorSize = f.size - SectorSize * (n + 1)
    BY <1>2, <1>3, <1>4, BytesLeft DEF FileIs, Reached
  <2>7. x = Contents(p, f)[n + 1]
    BY <1>9, <2>3, <2>5, <2>6
  <2>8. n + 1 = spc * q + (o + 1) /\ n + 1 \in Nat
    BY <1>7
  <2>9. SIZE' > 0 => pc' = "sector"
    BY <1>4, <2>2
  <2>10. Reached(p, f, n + 1, q)'
    BY <1>1, <1>5, <1>7, <1>11, <2>2, <2>3, <2>6, <2>7, <2>8, <2>9 DEF Reached
  <2> QED
    BY <2>8, <2>10
<1> QED
  BY <1>12, <1>13

(* More than a cluster is left, so that the link is needed and readable.    *)
LEMMA LinkFollowed ==
  ASSUME IInv, LayoutInv, FileInv, ReadFat, Sound'
  PROVE  \E n, q \in Nat : Reached(PartitionOffset, File(PartitionOffset, entry + 1), n, q)'
<1> SUFFICES ASSUME NEW p, p = PartitionOffset', NEW f, f = File(p, entry' + 1)
             PROVE  \E n, q \in Nat : Reached(p, f, n, q)'
  OBVIOUS
<1>1. /\ pc = "fat" /\ pc' = "cluster" /\ InFile
      /\ UNCHANGED <<volume, entry, SIZE, printed>>
      /\ Succeeds \/ Fails
  BY DEF ReadFat, InFile, Read28
<1>2. FileIs(p, f) /\ Sound /\ ~Fails /\ p = PartitionOffset /\ f = File(p, entry + 1)
  BY <1>1, SameFile
<1>3. PICK n \in Nat, q \in Nat : Reached(p, f, n, q)
  BY <1>1, <1>2 DEF FileInv
<1>4. CASE ~(SIZE > 0)
  <2>1. Reached(p, f, n, q)'
    BY <1>1, <1>3, <1>4 DEF Reached
  <2> QED
    BY <2>1
<1>5. CASE SIZE > 0
  <2>1. PICK spc \in Nat \ {0} : spc = Disk[p].sectorPerCluster
    BY <1>2, ClusterSize DEF FileIs, IInv, SoundVolume
  <2>2. n = spc * q + spc /\ nextFileCluster = Chain(p, f.firstCluster)[q]
    BY <1>1, <1>3, <1>5, <2>1 DEF Reached
  <2>3. n < Sectors(f) /\ Sectors(f) \in Nat
    BY <1>2, <1>3, <1>5, BytesLeft, SectorsIs DEF FileIs, Reached
  <2>4. q + 1 <= (Sectors(f) - 1) \div spc
    <3>1. spc * (q + 1) = n
      BY <2>2
    <3> QED
      BY <2>3, <3>1, DivAtLeast
  <2>5. PICK s : s = FatAt(p, nextFileCluster) /\ s \in DOMAIN Disk /\ Disk[s].kind = "fat"
    <3>1. (Sectors(f) - 1) \div spc \in Int
      BY <2>3
    <3>2. q \in 0 .. ((Sectors(f) - 1) \div spc) - 1
      BY <2>4, <3>1
    <3> QED
      BY <1>2, <2>1, <2>2, <3>2 DEF FileIs, SoundFile, Readable
  <2>6. UInt32(FatStart + (nextFileCluster \div PerSector)) = s
    <3>1. nextFileCluster \in Nat
      BY DEF IInv, TypeOK
    <3>2. UInt32(FatStart + (nextFileCluster \div PerSector))
            = UInt32(FatAt(p, nextFileCluster))
      BY <1>2, <3>1, LayoutIs DEF FileIs, IInv
    <3> QED
      BY <2>5, <3>2, OnDisk
  <2>7. Shows(s, "fat", {fatBuffer}) = {Disk[s]}
    BY <2>5 DEF Shows
  <2>8. nextFileCluster' = Low28(Disk[s].next[nextFileCluster % PerSector])
    BY <1>2, <2>6, <2>7 DEF ReadFat, Read28
  <2>9. nextFileCluster' = Chain(p, f.firstCluster)[q + 1]
    <3>1. Chain(p, f.firstCluster)[q + 1] = Link(p, nextFileCluster)
      <4>1. Chain(p, f.firstCluster)[q + 1] = Link(p, Chain(p, f.firstCluster)[q])
        BY ClustersFollow
      <4> QED
        BY <2>2, <4>1
    <3>2. Link(p, nextFileCluster) = Low28(Disk[s].next[nextFileCluster % PerSector])
      BY <2>5 DEF Link
    <3> QED
      BY <2>8, <3>1, <3>2
  <2>10. n = spc * (q + 1) + 0 /\ q + 1 \in Nat
    BY <2>2
  <2>11. Reached(p, f, n, q + 1)'
    BY <1>1, <1>3, <2>1, <2>9, <2>10 DEF Reached
  <2> QED
    BY <2>10, <2>11
<1> QED
  BY <1>4, <1>5

LEMMA FileKeeps == IInv /\ LayoutInv /\ FileInv /\ PrintedTyped /\ [Next]_vars => FileInv'
<1> SUFFICES ASSUME IInv, LayoutInv, FileInv, PrintedTyped, [Next]_vars, InFile', Sound'
             PROVE  \E n, q \in Nat :
                      Reached(PartitionOffset, File(PartitionOffset, entry + 1), n, q)'
  BY DEF FileInv
<1>1. CASE ReadMbr \/ NextPartition \/ ReadBpb \/ ReadRoot
  <2>1. ReadMbr => pc' \in {"done", "partition"}
    BY DEF ReadMbr, Read28
  <2>2. pc' \notin {"cluster", "sector", "fat"}
    BY <1>1, <2>1 DEF NextPartition, ReadBpb, ReadRoot
  <2> QED
    BY <2>2 DEF InFile
<1>2. CASE NextEntry
  BY <1>2, FileStarts
<1>3. CASE NextCluster
  BY <1>3, ClusterGoesOn
<1>4. CASE ReadSector
  BY <1>4, SectorAdds
<1>5. CASE ReadFat
  BY <1>5, LinkFollowed
<1>6. CASE UNCHANGED vars
  <2>1. InFile /\ Sound
    BY <1>6 DEF vars, volume, InFile, Sound, PartitionOffset
  <2>2. PICK n \in Nat, q \in Nat :
          Reached(PartitionOffset, File(PartitionOffset, entry + 1), n, q)
    BY <2>1 DEF FileInv
  <2>3. Reached(PartitionOffset, File(PartitionOffset, entry + 1), n, q)'
    BY <1>6, <2>2 DEF vars, volume, file, Reached, PartitionOffset
  <2> QED
    BY <2>3
<1> QED
  BY <1>1, <1>2, <1>3, <1>4, <1>5, <1>6 DEF Next

LEMMA TypedKeeps == IInv /\ PrintedTyped /\ [Next]_vars => PrintedTyped'
<1> SUFFICES ASSUME IInv, PrintedTyped, [Next]_vars PROVE PrintedTyped'
  OBVIOUS
<1>1. CASE ReadSector
  <2>1. buffer' \in Int
    BY <1>1, OnDisk DEF ReadSector, PrintedTyped
  <2>2. Shown \in Int
    BY <1>1, WordsIs DEF Shown, IInv
  <2>3. <<buffer', Shown>> \in Int \X Int
    BY <2>1, <2>2
  <2>4. printed' \in Seq(Int \X Int)
    BY <1>1, <2>3, AppendProperties DEF ReadSector, PrintedTyped
  <2> QED
    BY <2>1, <2>4 DEF PrintedTyped
<1>2. CASE NextEntry
  <2>1. printed' \in {printed, << >>} /\ buffer' = buffer
    BY <1>2 DEF NextEntry, file
  <2>2. << >> \in Seq(Int \X Int)
    OBVIOUS
  <2> QED
    BY <2>1, <2>2 DEF PrintedTyped
<1>3. CASE ~ReadSector /\ ~NextEntry
  <2>1. UNCHANGED <<printed, buffer>>
    BY <1>3 DEF Next, ReadMbr, NextPartition, ReadBpb, ReadRoot, NextCluster, ReadFat, file, vars
  <2> QED
    BY <2>1 DEF PrintedTyped
<1> QED
  BY <1>1, <1>2, <1>3

(* A file of less than 2 GiB on a volume that could be read is printed     *)
(* completely and in order, wherever its clusters and links lie.           *)
THEOREM FilesAreComplete == Spec => []NothingSkipped
<1>1. Init => IInv /\ LayoutInv /\ FileInv /\ PrintedTyped
  <2>1. Init => LayoutInv /\ FileInv
    BY DEF Init, LayoutInv, FileInv, InFile
  <2>2. Init => PrintedTyped
    BY DEF Init, PrintedTyped
  <2> QED
    BY <2>1, <2>2, Starts
<1>2. IInv /\ LayoutInv /\ FileInv /\ PrintedTyped /\ [Next]_vars
        => (IInv /\ LayoutInv /\ FileInv /\ PrintedTyped)'
  BY Keeps, LayoutKeeps, FileKeeps, TypedKeeps
<1>3. IInv /\ LayoutInv /\ FileInv => NothingSkipped
  <2> SUFFICES ASSUME IInv, LayoutInv, FileInv, FilePrinted,
                      NEW p, p = PartitionOffset, NEW f, f = File(p, entry + 1)
               PROVE  InOrder(Contents(p, f), Sectors(f), printed)
    BY DEF NothingSkipped
  <2>1. InFile /\ Sound /\ SIZE <= 0 /\ pc = "cluster"
    BY DEF FilePrinted, InFile
  <2>2. PICK n \in Nat, q \in Nat : Reached(p, f, n, q)
    BY <2>1 DEF FileInv
  <2>3. ~Unused /\ failures = 0 /\ SoundVolume(p) /\ SoundFile(p, f)
    BY <2>1 DEF IInv, TypeOK, Sound
  <2>4. f \in DirectoryEntryFat32
    BY <2>1, <2>3, FileThere DEF FileIs
  <2>5. n = Sectors(f)
    BY <2>1, <2>2, <2>4, BytesLeft DEF Reached
  <2> QED
    BY <2>2, <2>5 DEF Reached
<1> QED
  BY <1>1, <1>2, <1>3, PTL DEF Spec
=============================================================================
