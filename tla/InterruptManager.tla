--------------------------- MODULE InterruptManager ---------------------------
(***************************************************************************)
(* Interrupts: src/src/hardwarecommunication/interrupts.cpp, the stubs of  *)
(* interruptstubs.s and, as far as the code drives them, the processor's   *)
(* interrupt flag and the pair of 8259 interrupt controllers (external).   *)
(*                                                                         *)
(* A device raises a request line; the controllers present the line of     *)
(* highest priority that nothing in service blocks; the processor, when    *)
(* its interrupt flag is set, takes it, clears the flag and goes through   *)
(* the gate of its vector to a stub, which calls HandleInterrupt with a    *)
(* number of its own.  An end of interrupt (EOI) written to a controller   *)
(* takes the line of highest priority out of service.  Requests are raised *)
(* while all this goes on.                                                 *)
(*                                                                         *)
(* pc is where the processor is: "run" in the interrupted code, "entered"  *)
(* in HandleInterrupt, "handle", "schedule", "ackMaster" and "ackSlave" in *)
(* DoHandleInterrupt, "return" at the end of the stub.  step is where the  *)
(* interrupted code is inside Activate or Deactivate.                      *)
(***************************************************************************)
EXTENDS Integers

CONSTANTS
  Managers,   \* InterruptManager objects
  Handlers,   \* InterruptHandler objects
  NULL,
  IRQ_BASE,   \* what the stubs add to the number of a request
  hardwareInterruptOffset,
  Lines,      \* request lines the devices use
  Slots,      \* interrupt numbers handlers are registered for
  Traps       \* vectors of the exceptions and int instructions executed

Vectors == 0 .. 255

Master == 0 .. 7
Slave  == 8 .. 15

Cascade == 2  \* the master's line the slave is connected to

ASSUME InterruptAssumption ==
  /\ IRQ_BASE \in 20 .. 111
  /\ hardwareInterruptOffset = IRQ_BASE
  /\ Lines \subseteq (Master \cup Slave) \ {Cascade}
  /\ Slots \subseteq Vectors
  /\ Traps \subseteq 0 .. 19 \cup {128}
  /\ NULL \notin Managers \cup Handlers \cup Vectors

VARIABLES
  pActiveInterruptManager,
  ppHandlers,   \* [manager -> [interrupt number -> handler or NULL]]
  registered,   \* [living handler -> its manager and number]
  pc, interrupt,
  intFlag,      \* interrupt flag of the processor
  pushedFlag,   \* the flag in the eflags the processor pushed
  step, target, \* Activate and Deactivate of the interrupted code
  irr, isr      \* lines requested and lines in service (both controllers)

mainVars == <<step, target>>
picVars  == <<irr, isr>>
tableVars == <<ppHandlers, registered>>
cpuVars  == <<pc, interrupt, intFlag, pushedFlag>>

vars == <<pActiveInterruptManager, tableVars, cpuVars, mainVars, picVars>>

-----------------------------------------------------------------------------

(* The interrupt number the stub behind gate v passes on.                  *)
Gate(v) ==
  CASE v = 128 -> (128 + IRQ_BASE) % 256
    [] v \in hardwareInterruptOffset .. hardwareInterruptOffset + 15 ->
         v - hardwareInterruptOffset + IRQ_BASE
    [] OTHER -> v

(* The constructor: no handler, gates set, both controllers initialised    *)
(* with every line enabled.  The boot loader leaves interrupts disabled.   *)
Init ==
  /\ pActiveInterruptManager = NULL
  /\ ppHandlers = [m \in Managers |-> [n \in Vectors |-> NULL]]
  /\ registered = [h \in {} |-> <<NULL, NULL>>]
  /\ pc = "run"
  /\ interrupt = NULL
  /\ intFlag = FALSE
  /\ pushedFlag = FALSE
  /\ step = "none"
  /\ target = NULL
  /\ irr = {}
  /\ isr = {}

-----------------------------------------------------------------------------

\* Handlers come and go: the constructor and destructor of InterruptHandler.

Register(h, m, n) ==
  /\ pc = "run"
  /\ h \notin DOMAIN registered
  /\ ppHandlers' = [ppHandlers EXCEPT ![m][n] = h]
  /\ registered' = [g \in DOMAIN registered \cup {h} |->
                      IF g = h THEN <<m, n>> ELSE registered[g]]
  /\ UNCHANGED <<pActiveInterruptManager, cpuVars, mainVars, picVars>>

\* Mutants: the destructor leaves the slot alone; it does not look whose it is.
ClearedNever(h, m, n) == ppHandlers
ClearedAlways(h, m, n) == [ppHandlers EXCEPT ![m][n] = NULL]

(* The destructor clears the slot only if it is still its own.             *)
Cleared(h, m, n) ==
  IF ppHandlers[m][n] = h THEN [ppHandlers EXCEPT ![m][n] = NULL]
                          ELSE ppHandlers

Unregister(h) ==
  /\ pc = "run"
  /\ h \in DOMAIN registered
  /\ ppHandlers' = Cleared(h, registered[h][1], registered[h][2])
  /\ registered' = [g \in DOMAIN registered \ {h} |-> registered[g]]
  /\ UNCHANGED <<pActiveInterruptManager, cpuVars, mainVars, picVars>>

-----------------------------------------------------------------------------

\* Activate and Deactivate, one step per statement: as long as the flag is set an
\* interrupt may come between any two of them.

Activate(m) ==
  /\ pc = "run"
  /\ step = "none"
  /\ target' = m
  /\ step' = IF pActiveInterruptManager # NULL THEN "clear" ELSE "set"
  /\ UNCHANGED <<pActiveInterruptManager, tableVars, cpuVars, picVars>>

Deactivate(m) ==
  /\ pc = "run"
  /\ step = "none"
  /\ pActiveInterruptManager = m
  /\ step' = "clear"
  /\ UNCHANGED <<pActiveInterruptManager, tableVars, cpuVars, target, picVars>>

ClearActive ==
  /\ pc = "run"
  /\ step = "clear"
  /\ pActiveInterruptManager' = NULL
  /\ step' = "cli"
  /\ UNCHANGED <<tableVars, cpuVars, target, picVars>>

Cli ==
  /\ pc = "run"
  /\ step = "cli"
  /\ intFlag' = FALSE
  /\ step' = IF target = NULL THEN "none" ELSE "set"
  /\ UNCHANGED <<pActiveInterruptManager, tableVars, pc, interrupt, pushedFlag,
                 target, picVars>>

SetActive ==
  /\ pc = "run"
  /\ step = "set"
  /\ pActiveInterruptManager' = target
  /\ step' = "sti"
  /\ UNCHANGED <<tableVars, cpuVars, target, picVars>>

Sti ==
  /\ pc = "run"
  /\ step = "sti"
  /\ intFlag' = TRUE
  /\ step' = "none"
  /\ target' = NULL
  /\ UNCHANGED <<pActiveInterruptManager, tableVars, pc, interrupt, pushedFlag,
                 picVars>>

MainStep == ClearActive \/ Cli \/ SetActive \/ Sti

-----------------------------------------------------------------------------

\* The controllers.

Raise(l) ==
  /\ l \notin irr
  /\ irr' = irr \cup {l}
  /\ UNCHANGED <<pActiveInterruptManager, tableVars, cpuVars, mainVars, isr>>

(* A line in service blocks itself and every line of lower priority of its *)
(* controller; the slave as a whole has the priority of the cascade line.  *)
Blocked(l) ==
  IF l \in Master
  THEN \E i \in isr \cap Master : i <= l
  ELSE \/ \E i \in isr \cap Slave : i <= l
       \/ \E i \in isr \cap Master : i <= Cascade

(* 0, 1, then the slave's lines, then 3 to 7.                              *)
Rank(l) == IF l \in Slave THEN l - 6 ELSE IF l > Cascade THEN l + 7 ELSE l

Presented == {l \in irr : ~ Blocked(l) /\ \A k \in irr : Rank(l) <= Rank(k)}

InService(l) == isr \cup {l} \cup (IF l \in Slave THEN {Cascade} ELSE {})

(* EOI to the controller with the given lines: its line of highest         *)
(* priority that is in service is no longer.                               *)
Eoi(lines) == {i \in isr : i \in lines => \E j \in isr \cap lines : j < i}

-----------------------------------------------------------------------------

(* The processor goes through gate v, an interrupt gate: no more IRQs.    *)
Enter(v) ==
  /\ pc' = "entered"
  /\ interrupt' = Gate(v)
  /\ pushedFlag' = intFlag
  /\ intFlag' = FALSE

Accept(l) ==
  /\ pc = "run"
  /\ intFlag
  /\ l \in Presented
  /\ irr' = irr \ {l}
  /\ isr' = InService(l)
  /\ Enter(hardwareInterruptOffset + l)
  /\ UNCHANGED <<pActiveInterruptManager, tableVars, mainVars>>

(* The device drops its request before the processor acknowledges it: the  *)
(* controller answers with its lowest line and takes nothing in service.   *)
AcceptSpurious(l) ==
  /\ pc = "run"
  /\ intFlag
  /\ l \in Presented
  /\ irr' = irr \ {l}
  /\ isr' = IF l \in Slave THEN isr \cup {Cascade} ELSE isr
  /\ Enter(hardwareInterruptOffset + (IF l \in Slave THEN 15 ELSE 7))
  /\ UNCHANGED <<pActiveInterruptManager, tableVars, mainVars>>

(* An exception or an int instruction of the interrupted code.             *)
Trap(v) ==
  /\ pc = "run"
  /\ Enter(v)
  /\ UNCHANGED <<pActiveInterruptManager, tableVars, mainVars, picVars>>

-----------------------------------------------------------------------------

Goto(l) ==
  /\ pc' = l
  /\ UNCHANGED <<pActiveInterruptManager, tableVars, interrupt, intFlag, pushedFlag,
                 mainVars>>

\* Mutant: an interrupt nobody handles returns without an acknowledgement.
CallHandlerReturns ==
  /\ pc = "handle"
  /\ Goto(IF ppHandlers[pActiveInterruptManager][interrupt] = NULL THEN "return"
          ELSE IF interrupt = hardwareInterruptOffset THEN "schedule"
          ELSE "ackMaster")
  /\ UNCHANGED picVars

(* HandleInterrupt: without an active manager it returns at once.          *)
HandleInterrupt ==
  /\ pc = "entered"
  /\ Goto(IF pActiveInterruptManager # NULL THEN "handle" ELSE "return")
  /\ UNCHANGED picVars

(* The registered handler, if any, is called; it returns the esp it got.   *)
CallHandler ==
  /\ pc = "handle"
  /\ Goto(IF interrupt = hardwareInterruptOffset THEN "schedule"
                                                 ELSE "ackMaster")
  /\ UNCHANGED picVars

Schedule ==
  /\ pc = "schedule"
  /\ Goto("ackMaster")
  /\ UNCHANGED picVars

\* Mutant: only the master's eight lines count as hardware interrupts.
IsHardwareMaster(n) ==
  hardwareInterruptOffset <= n /\ n < hardwareInterruptOffset + 8

IsHardware(n) ==
  hardwareInterruptOffset <= n /\ n < hardwareInterruptOffset + 16

\* Mutant: the slave is not acknowledged.
ViaSlaveNever(n) == FALSE

ViaSlave(n) == hardwareInterruptOffset + 8 <= n

AckMaster ==
  /\ pc = "ackMaster"
  /\ isr' = IF IsHardware(interrupt) THEN Eoi(Master) ELSE isr
  /\ Goto(IF IsHardware(interrupt) /\ ViaSlave(interrupt) THEN "ackSlave"
                                                          ELSE "return")
  /\ UNCHANGED irr

AckSlave ==
  /\ pc = "ackSlave"
  /\ isr' = Eoi(Slave)
  /\ Goto("return")
  /\ UNCHANGED irr

(* The iret of the stub.                                                   *)
Return ==
  /\ pc = "return"
  /\ pc' = "run"
  /\ intFlag' = pushedFlag
  /\ interrupt' = NULL
  /\ UNCHANGED <<pActiveInterruptManager, tableVars, pushedFlag, mainVars, picVars>>

InterruptStep ==
  HandleInterrupt \/ CallHandler \/ Schedule \/ AckMaster \/ AckSlave \/ Return

-----------------------------------------------------------------------------

Device == \E l \in Lines : Raise(l)

Interrupt ==
  \/ \E l \in Lines : Accept(l) \/ AcceptSpurious(l)
  \/ \E v \in Traps : Trap(v)

Table ==
  \/ \E h \in Handlers, m \in Managers, n \in Slots : Register(h, m, n)
  \/ \E h \in Handlers : Unregister(h)

Next ==
  \/ Device \/ Interrupt \/ InterruptStep \/ Table \/ MainStep
  \/ \E m \in Managers : Activate(m) \/ Deactivate(m)

Spec == Init /\ [][Next]_vars

(* What kernelMain does with the class: one Activate, at the end of the    *)
(* boot, and no Deactivate, since kernelMain never returns.                *)
Boot ==
  /\ pActiveInterruptManager = NULL
  /\ \E m \in Managers : Activate(m)

KernelStep == SetActive \/ Sti

KernelNext ==
  Device \/ Interrupt \/ InterruptStep \/ Table \/ KernelStep \/ Boot

KernelSpec == Init /\ [][KernelNext]_vars

(* Handlers run to their end.  The interrupted code goes on between two    *)
(* interrupts, however many there are, since iret resumes it, and the      *)
(* processor looks for a request before every instruction.                 *)
Fairness ==
  /\ SF_vars(Boot)
  /\ SF_vars(KernelStep)
  /\ WF_vars(InterruptStep)
  /\ \A l \in Lines : SF_vars(Accept(l))

FairKernelSpec == KernelSpec /\ Fairness

-----------------------------------------------------------------------------

(* Types.                                                                  *)
TypeOK ==
  /\ pActiveInterruptManager \in Managers \cup {NULL}
  /\ ppHandlers \in [Managers -> [Vectors -> Handlers \cup {NULL}]]
  /\ DOMAIN registered \subseteq Handlers
  /\ registered \in [DOMAIN registered -> Managers \X Slots]
  /\ pc \in {"run", "entered", "handle", "schedule", "ackMaster", "ackSlave",
             "return"}
  /\ interrupt \in Vectors \cup {NULL}
  /\ intFlag \in BOOLEAN
  /\ pushedFlag \in BOOLEAN
  /\ step \in {"none", "clear", "cli", "set", "sti"}
  /\ target \in Managers \cup {NULL}
  /\ irr \subseteq Lines
  /\ isr \subseteq Master \cup Slave

(* What is in service, while the kernel handles interrupt number n: at     *)
(* most the line behind n, and the cascade until the master has its EOI.   *)
InServiceFor(n) ==
  IF IsHardware(n)
  THEN LET l == n - hardwareInterruptOffset IN
         IF ViaSlave(n) THEN {l, Cascade} ELSE {l}
  ELSE {}

(* Under KernelSpec an interrupt is never nested in another, and each one  *)
(* finds a manager, which acknowledges exactly what it took into service.  *)
IInv ==
  /\ TypeOK
  /\ intFlag => pc = "run" /\ pActiveInterruptManager # NULL
  /\ pc # "run" /\ pushedFlag => pActiveInterruptManager # NULL
  /\ step \in {"none", "set", "sti"}
  /\ step = "set" => target # NULL
  /\ step = "sti" => pActiveInterruptManager # NULL
  /\ pc = "run" => isr = {}
  /\ pc # "run" => interrupt \in Vectors
  /\ pc # "run" /\ IsHardware(interrupt) => pActiveInterruptManager # NULL
  /\ pc = "handle" => pActiveInterruptManager # NULL
  /\ pc \in {"entered", "handle", "schedule", "ackMaster"} =>
       isr \subseteq InServiceFor(interrupt)
  /\ pc = "ackSlave" =>
       /\ IsHardware(interrupt) /\ ViaSlave(interrupt)
       /\ isr \subseteq {interrupt - hardwareInterruptOffset}
  /\ pc = "return" => isr = {}

(* "hardware interrupts must be acknowledged" (interrupts.cpp:197): when   *)
(* the interrupted code goes on, no controller has a line in service.  One *)
(* that stayed there would block its line, and all below it, for good.     *)
Acknowledged == pc = "run" => isr = {}

(* No slot of the table points to a handler that has been destroyed.       *)
NoDanglingHandler ==
  \A m \in Managers, n \in Vectors :
    ppHandlers[m][n] # NULL =>
      /\ ppHandlers[m][n] \in DOMAIN registered
      /\ registered[ppHandlers[m][n]] = <<m, n>>

(* A handler's destruction never takes another handler's registration      *)
(* away, even when both were registered for the same number.               *)
OthersStayRegistered ==
  [][\A m \in Managers, n \in Vectors :
       LET h == ppHandlers[m][n] IN
         h # NULL /\ h \in DOMAIN registered' => ppHandlers'[m][n] # NULL]_vars

(* No request starves: if the processor is again and again in interrupted  *)
(* code with no request of higher priority than l, a request on l does not *)
(* wait forever.                                                           *)
Outranked(l) == \E k \in irr : Rank(k) < Rank(l)

RequestsServed ==
  \A l \in Lines :
    []<>(pc = "run" /\ ~ Outranked(l)) => (l \in irr ~> l \notin irr)
=============================================================================
