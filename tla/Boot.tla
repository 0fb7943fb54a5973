-------------------------------- MODULE Boot --------------------------------
(***************************************************************************)
(* The boot: kernelMain (src/src/kernel.cpp:161-275) up to its last loop,  *)
(* with the scan of the PCI bus (Pci), the descriptors it loads (Gdt), the *)
(* graphics mode (Vga) and the list of drivers (src/src/drivers/driver.cpp)*)
(* It establishes what the other modules take for granted at their start.  *)
(***************************************************************************)
EXTENDS Pci, Gdt, Vga

CONSTANTS
  MemUppers,  \* KiB of memory above the first MiB, as the boot loader reports it
  MAX_DRIVERS \* 265, the slots of ppDrivers

Ki32 == 4194304             \* size_t counts 2^22 KiB
HeapStart == 10 * 1024      \* KiB
MiB64 == 64 * 1024 * 1024

ASSUME BootAssumption ==
  /\ MemUppers \subseteq 0 .. Ki32 - 1025
  /\ MAX_DRIVERS \in Nat /\ MAX_DRIVERS >= 2

VARIABLES
  graphics,   \* the build: GRAPHICSMODE defined or not
  stage,      \* the object or call kernelMain is at
  memupper, heapSize,   \* KiB
  gdt,        \* the descriptors loaded
  handlers,   \* InterruptManager.handlers: "wild" before its constructor
  ppDrivers, numDrivers,
  activated,  \* drivers activated, in order
  children,   \* windows of the desktop, the front one first
  enabled     \* the interrupt flag; clear when the boot loader hands over

kernelVars == <<graphics, memupper, heapSize, gdt, handlers, ppDrivers, numDrivers,
                activated, children, enabled>>
bootVars == <<pciVars, vgaVars, stage, kernelVars>>

Names == {"syscalls", "keyboard", "mouse"}

At(s, next) == stage = s /\ stage' = next
Elsewhere == UNCHANGED <<pciVars, vgaVars>>

-----------------------------------------------------------------------------

ConstructGdt ==
  /\ At("gdt", "memoryManager")
  /\ gdt' = [unused |-> SegmentDescriptor(0, 0, 0),
             code |-> SegmentDescriptor(0, MiB64, 154),
             data |-> SegmentDescriptor(0, MiB64, 146)]
  /\ Elsewhere
  /\ UNCHANGED <<graphics, memupper, heapSize, handlers, ppDrivers, numDrivers,
                 activated, children, enabled>>

ConstructMemoryManager ==
  /\ At("memoryManager", "interrupts")
  /\ heapSize' = (memupper - HeapStart - 10) % Ki32
  /\ Elsewhere
  /\ UNCHANGED <<graphics, memupper, gdt, handlers, ppDrivers, numDrivers,
                 activated, children, enabled>>

ConstructInterrupts ==
  /\ At("interrupts", "syscalls")
  /\ handlers' = [h \in Names |-> "none"]
  /\ Elsewhere
  /\ UNCHANGED <<graphics, memupper, heapSize, gdt, ppDrivers, numDrivers,
                 activated, children, enabled>>

AddDriver(d) ==
  /\ ppDrivers' = [ppDrivers EXCEPT ![numDrivers] = d]
  /\ numDrivers' = numDrivers + 1

(* The base class enters the object into the table; the object is complete *)
(* only when the derived constructor is done, and a driver is then added   *)
(* to the list.                                                            *)
ConstructHandler(h, next) ==
  /\ stage = h
  /\ IF handlers[h] = "none"
     THEN /\ handlers' = [handlers EXCEPT ![h] = "base"]
          /\ UNCHANGED <<stage, ppDrivers, numDrivers>>
     ELSE /\ handlers' = [handlers EXCEPT ![h] = "complete"]
          /\ stage' = next
          /\ IF h = "syscalls" THEN UNCHANGED <<ppDrivers, numDrivers>>
                               ELSE AddDriver(h)
  /\ Elsewhere
  /\ UNCHANGED <<graphics, memupper, heapSize, gdt, activated, children, enabled>>

Scan ==
  /\ stage = "pci"
  /\ IF ScanDone THEN stage' = "activate" /\ UNCHANGED pciVars
                 ELSE SelectDrivers /\ UNCHANGED stage
  /\ UNCHANGED <<vgaVars, kernelVars>>

(* One turn of ActivateAll's loop.                                         *)
ActivateAll ==
  /\ stage = "activate"
  /\ IF Len(activated) < numDrivers
     THEN activated' = Append(activated, ppDrivers[Len(activated)]) /\ UNCHANGED stage
     ELSE stage' = (IF graphics THEN "vga" ELSE "disks") /\ UNCHANGED activated
  /\ Elsewhere
  /\ UNCHANGED <<graphics, memupper, heapSize, gdt, handlers, ppDrivers, numDrivers,
                 children, enabled>>

SwitchMode ==
  /\ stage = "vga"
  /\ IF bank = "done" THEN stage' = "windows" /\ UNCHANGED vgaVars
     ELSE (SetMode(320, 200, 8) \/ WriteRegisters) /\ UNCHANGED stage
  /\ UNCHANGED <<pciVars, kernelVars>>

AddWindows ==
  /\ At("windows", "disks")
  /\ children' = <<"win1", "win2">>
  /\ Elsewhere
  /\ UNCHANGED <<graphics, memupper, heapSize, gdt, handlers, ppDrivers, numDrivers,
                 activated, enabled>>

(* Identify and ReadPartitions are AtaDriver and FatReader.                *)
ReadDisks ==
  /\ At("disks", "enable")
  /\ Elsewhere
  /\ UNCHANGED kernelVars

EnableInterrupts ==
  /\ At("enable", "loop")
  /\ enabled' = TRUE
  /\ Elsewhere
  /\ UNCHANGED <<graphics, memupper, heapSize, gdt, handlers, ppDrivers, numDrivers,
                 activated, children>>

(* while(1): what handlers and drawing do is EventHandlers.                *)
Loop == stage = "loop" /\ UNCHANGED bootVars

BootInit ==
  /\ PciInit /\ VgaInit
  /\ graphics \in BOOLEAN
  /\ stage = "gdt"
  /\ memupper \in MemUppers /\ heapSize = 0
  /\ gdt = << >>
  /\ handlers = [h \in Names |-> "wild"]
  /\ ppDrivers = [i \in 0 .. MAX_DRIVERS - 1 |-> "wild"] /\ numDrivers = 0
  /\ activated = << >> /\ children = << >>
  /\ enabled = FALSE

BootNext ==
  \/ ConstructGdt \/ ConstructMemoryManager \/ ConstructInterrupts
  \/ ConstructHandler("syscalls", "keyboard")
  \/ ConstructHandler("keyboard", "mouse")
  \/ ConstructHandler("mouse", "pci")
  \/ Scan \/ ActivateAll \/ SwitchMode \/ AddWindows \/ ReadDisks
  \/ EnableInterrupts \/ Loop

BootSpec == BootInit /\ [][BootNext]_bootVars
-----------------------------------------------------------------------------
(* What must be ready before an interrupt may be taken.                    *)

(* A gate runs in the code segment, which must not reach beyond 64 MiB.    *)
SegmentsReady ==
  Describes(gdt.code, 0, MiB64) /\ Describes(gdt.data, 0, MiB64)

HeapInMemory == HeapStart + heapSize <= 1024 + memupper

(* What kernel.cpp:170 subtracts from the memory above the first MiB.      *)
EnoughMemory == memupper >= HeapStart + 10

HandlersComplete == \A h \in Names : handlers[h] = "complete"

(* The mouse's offset and buttons have no value before its Activate; the   *)
(* keyboard's reads the configuration first, from a drained buffer.        *)
DriversActive == activated = <<"keyboard", "mouse">>

(* Every register of the mode holds its value although the card ignores    *)
(* writes to protected registers and may have stood at an attribute value, *)
(* the picture is on, and the drawing loop finds frame buffer and windows. *)
PictureReady ==
  graphics => /\ card.registers = Mode
              /\ PictureOn(card)
              /\ FrameBufferSegment = 655360
              /\ children = <<"win1", "win2">>

(* No interrupt is taken before all this is so: a handler is entered into  *)
(* the table while its object is half built (interrupts.cpp:19), and only  *)
(* the order of kernelMain keeps a request from reaching it.  The heap is  *)
(* in memory on machines with at least 10 MiB + 10 KiB above the first MiB *)
(* and on no others: there the size wraps.                                 *)
ReadyWhenEnabled ==
  enabled => /\ SegmentsReady
             /\ HeapInMemory <=> EnoughMemory
             /\ HandlersComplete /\ DriversActive /\ PictureReady
=============================================================================
