------------------------ MODULE InterruptManager_proofs ------------------------
(***************************************************************************)
(* Proofs about InterruptManager: for any managers, handlers, lines, traps *)
(* and any legal interrupt offset, the kernel acknowledges every hardware  *)
(* interrupt; and however managers and handlers are used, the table never  *)
(* points to a handler that is gone.                                       *)
(***************************************************************************)
EXTENDS InterruptManager, TLAPS

-----------------------------------------------------------------------------

\* The gates.

(* An exception or int instruction does not look like a hardware interrupt.*)
LEMMA TrapGate ==
  ASSUME NEW v \in Traps
  PROVE  Gate(v) \in Vectors /\ ~ IsHardware(Gate(v))
<1>1. v \in 0 .. 19 \/ v = 128
  BY InterruptAssumption
<1>2. CASE v \in 0 .. 19
  <2>1. v # 128 /\ v \notin hardwareInterruptOffset .. hardwareInterruptOffset + 15
    BY <1>2, InterruptAssumption
  <2>2. Gate(v) = v
    BY <2>1 DEF Gate
  <2> QED BY <2>2, <1>2, InterruptAssumption DEF Vectors, IsHardware
<1>3. CASE v = 128
  <2>1. Gate(v) = (128 + IRQ_BASE) % 256
    BY <1>3, InterruptAssumption DEF Gate
  <2>2. (128 + IRQ_BASE) % 256 = 128 + IRQ_BASE
    BY InterruptAssumption
  <2> QED BY <2>1, <2>2, InterruptAssumption DEF Vectors, IsHardware
<1> QED BY <1>1, <1>2, <1>3

(* The stubs give the lines of the controllers their own numbers.          *)
LEMMA LineGate ==
  ASSUME NEW l \in 0 .. 15
  PROVE  /\ Gate(hardwareInterruptOffset + l) = hardwareInterruptOffset + l
         /\ hardwareInterruptOffset + l \in Vectors
         /\ IsHardware(hardwareInterruptOffset + l)
         /\ ViaSlave(hardwareInterruptOffset + l) <=> l \in Slave
<1>1. /\ hardwareInterruptOffset + l # 128
      /\ hardwareInterruptOffset + l \in
           hardwareInterruptOffset .. hardwareInterruptOffset + 15
  BY InterruptAssumption
<1>2. Gate(hardwareInterruptOffset + l) = hardwareInterruptOffset + l
  BY <1>1, InterruptAssumption DEF Gate
<1> QED BY <1>2, InterruptAssumption DEF Vectors, IsHardware, ViaSlave, Slave

(* An end of interrupt to the master leaves only a line of the slave, and  *)
(* one to the slave leaves nothing of it.                                  *)
LEMMA EoiMaster ==
  ASSUME NEW n \in Vectors, IsHardware(n), isr \subseteq InServiceFor(n)
  PROVE  Eoi(Master) \subseteq
           IF ViaSlave(n) THEN {n - hardwareInterruptOffset} ELSE {}
<1> DEFINE l == n - hardwareInterruptOffset
<1>1. l \in 0 .. 15 /\ (ViaSlave(n) <=> l >= 8)
  BY InterruptAssumption DEF IsHardware, ViaSlave, Vectors
<1>2. CASE ViaSlave(n)
  <2>1. isr \subseteq {l, 2}
    BY <1>2 DEF InServiceFor, Cascade
  <2>2. ASSUME 2 \in Eoi(Master) PROVE FALSE
    <3>1. PICK j \in isr \cap Master : j < 2
      BY <2>2 DEF Eoi, Master
    <3> QED BY <3>1, <2>1, <1>1, <1>2 DEF Master
  <2> QED BY <2>1, <2>2, <1>2 DEF Eoi
<1>3. CASE ~ ViaSlave(n)
  <2>1. isr \subseteq {l} /\ l \in Master
    BY <1>1, <1>3 DEF InServiceFor, Master
  <2>2. ASSUME NEW i \in Eoi(Master) PROVE FALSE
    <3>1. i = l
      BY <2>1, <2>2 DEF Eoi
    <3>2. PICK j \in isr \cap Master : j < i
      BY <2>2, <2>1, <3>1 DEF Eoi
    <3> QED BY <3>1, <3>2, <2>1, <1>1
  <2> QED BY <2>2, <1>3
<1> QED BY <1>2, <1>3

(* One to the slave takes its line out of service.                         *)
LEMMA EoiSlave ==
  ASSUME NEW l \in Slave, isr \subseteq {l}
  PROVE  Eoi(Slave) = {}
<1>1. ASSUME NEW i \in Eoi(Slave) PROVE FALSE
  <2>1. i = l
    BY <1>1 DEF Eoi
  <2>2. PICK j \in isr \cap Slave : j < i
    BY <1>1, <2>1 DEF Eoi
  <2> QED BY <2>1, <2>2 DEF Slave
<1> QED BY <1>1

-----------------------------------------------------------------------------

\* The invariant of the kernel's use of the class.

(* At first nothing is in service and the flag is clear.                   *)
LEMMA InitIInv == Init => IInv
<1> SUFFICES ASSUME Init PROVE IInv
  OBVIOUS
<1>1. TypeOK
  BY InterruptAssumption DEF Init, TypeOK
<1> QED BY <1>1 DEF Init, IInv

(* Handlers coming and going do not touch the processor or the controllers.*)
LEMMA TableTypes ==
  ASSUME TypeOK, Table
  PROVE  TypeOK'
<1>1. ASSUME NEW h \in Handlers, NEW m \in Managers, NEW n \in Slots,
             Register(h, m, n)
      PROVE  TypeOK'
  <2>1. n \in Vectors
    BY InterruptAssumption
  <2>2. ppHandlers' \in [Managers -> [Vectors -> Handlers \cup {NULL}]]
    BY <1>1, <2>1 DEF Register, TypeOK
  <2>3. registered' \in [DOMAIN registered' -> Managers \X Slots]
    BY <1>1 DEF Register, TypeOK
  <2>4. DOMAIN registered' \subseteq Handlers
    BY <1>1 DEF Register, TypeOK
  <2> QED BY <1>1, <2>2, <2>3, <2>4
          DEF Register, TypeOK, cpuVars, mainVars, picVars
<1>2. ASSUME NEW h \in Handlers, Unregister(h)
      PROVE  TypeOK'
  <2>1. ppHandlers' \in [Managers -> [Vectors -> Handlers \cup {NULL}]]
    BY <1>2 DEF Unregister, Cleared, TypeOK
  <2>2. /\ DOMAIN registered' \subseteq Handlers
        /\ registered' \in [DOMAIN registered' -> Managers \X Slots]
    BY <1>2 DEF Unregister, TypeOK
  <2> QED BY <1>2, <2>1, <2>2
          DEF Unregister, TypeOK, cpuVars, mainVars, picVars
<1> QED BY <1>1, <1>2 DEF Table

(* So they keep the invariant.                                             *)
LEMMA TableIInv ==
  ASSUME IInv, Table
  PROVE  IInv'
<1>1. TypeOK'
  BY TableTypes DEF IInv
<1>2. UNCHANGED <<pActiveInterruptManager, cpuVars, mainVars, picVars>>
  BY DEF Table, Register, Unregister
<1> QED BY <1>1, <1>2
        DEF IInv, cpuVars, mainVars, picVars, InServiceFor, IsHardware, ViaSlave

(* A hardware interrupt is taken only while a manager is active, and its   *)
(* number tells which lines it put in service.                             *)
LEMMA AcceptIInv ==
  ASSUME IInv, NEW l \in Lines, Accept(l) \/ AcceptSpurious(l)
  PROVE  IInv'
<1> DEFINE k == IF Accept(l) THEN l ELSE IF l \in Slave THEN 15 ELSE 7
<1>1. l \in 0 .. 15 /\ (l \in Slave <=> ~ l \in Master)
  BY InterruptAssumption DEF Master, Slave
<1>2. k \in 0 .. 15 /\ (k \in Slave <=> l \in Slave)
  BY <1>1 DEF Slave
<1>3. /\ interrupt' = Gate(hardwareInterruptOffset + k)
      /\ pc' = "entered" /\ intFlag' = FALSE /\ pushedFlag' = intFlag
      /\ UNCHANGED <<pActiveInterruptManager, tableVars, mainVars>>
      /\ irr' = irr \ {l}
      /\ pc = "run" /\ intFlag
  BY DEF Accept, AcceptSpurious, Enter
<1>4. /\ interrupt' = hardwareInterruptOffset + k
      /\ interrupt' \in Vectors
      /\ IsHardware(interrupt')
      /\ ViaSlave(interrupt') <=> k \in Slave
  BY <1>2, <1>3, LineGate
<1>5. isr = {} /\ pActiveInterruptManager # NULL
  BY <1>3 DEF IInv
<1>6. interrupt' - hardwareInterruptOffset = k
  BY <1>2, <1>4, InterruptAssumption
<1>7. isr' \subseteq InServiceFor(interrupt') /\ isr' \subseteq Master \cup Slave
  BY <1>1, <1>2, <1>4, <1>5, <1>6
     DEF Accept, AcceptSpurious, InService, InServiceFor, Cascade, Master, Slave
<1>8. TypeOK'
  BY <1>3, <1>4, <1>7 DEF IInv, TypeOK, tableVars, mainVars
<1> QED BY <1>3, <1>4, <1>5, <1>7, <1>8
        DEF IInv, InServiceFor, IsHardware, ViaSlave, mainVars

(* An exception puts nothing in service, and its number shows that.        *)
LEMMA TrapIInv ==
  ASSUME IInv, NEW v \in Traps, Trap(v)
  PROVE  IInv'
<1>1. interrupt' \in Vectors /\ ~ IsHardware(interrupt')
  BY TrapGate DEF Trap, Enter
<1>2. isr' = {}
  BY DEF IInv, Trap, picVars
<1>3. TypeOK'
  BY <1>1 DEF IInv, TypeOK, Trap, Enter, tableVars, mainVars, picVars
<1> QED BY <1>1, <1>2, <1>3
        DEF IInv, Trap, Enter, IsHardware, mainVars

-----------------------------------------------------------------------------

(* DoHandleInterrupt step by step.                                         *)
LEMMA InterruptStepIInv ==
  ASSUME IInv, InterruptStep
  PROVE  IInv'
<1> USE DEF IInv
<1>1. CASE HandleInterrupt
  <2>1. TypeOK'
    BY <1>1 DEF HandleInterrupt, Goto, TypeOK, tableVars, mainVars, picVars
  <2>2. pActiveInterruptManager = NULL => isr = {}
    BY <1>1 DEF HandleInterrupt, InServiceFor
  <2> QED BY <1>1, <2>1, <2>2
          DEF HandleInterrupt, Goto, InServiceFor, IsHardware, ViaSlave, mainVars,
              picVars
<1>2. CASE CallHandler
  <2>1. TypeOK'
    BY <1>2 DEF CallHandler, Goto, TypeOK, tableVars, mainVars, picVars
  <2> QED BY <1>2, <2>1
          DEF CallHandler, Goto, InServiceFor, IsHardware, ViaSlave, mainVars, picVars
<1>3. CASE Schedule
  <2>1. TypeOK'
    BY <1>3 DEF Schedule, Goto, TypeOK, tableVars, mainVars, picVars
  <2> QED BY <1>3, <2>1
          DEF Schedule, Goto, InServiceFor, IsHardware, ViaSlave, mainVars, picVars
<1>4. CASE AckMaster
  <2>1. interrupt \in Vectors /\ isr \subseteq InServiceFor(interrupt)
    BY <1>4 DEF AckMaster
  <2>2. isr' \subseteq isr
    BY <1>4 DEF AckMaster, Eoi
  <2>3. TypeOK'
    BY <1>4, <2>2 DEF AckMaster, Goto, TypeOK, tableVars, mainVars
  <2>4. CASE IsHardware(interrupt)
    <3>1. isr' \subseteq
            IF ViaSlave(interrupt) THEN {interrupt - hardwareInterruptOffset} ELSE {}
      BY <1>4, <2>1, <2>4, EoiMaster DEF AckMaster
    <3> QED BY <1>4, <2>1, <2>3, <2>4, <3>1
            DEF AckMaster, Goto, IsHardware, ViaSlave, mainVars
  <2>5. CASE ~ IsHardware(interrupt)
    <3>1. isr = {}
      BY <2>1, <2>5 DEF InServiceFor
    <3> QED BY <1>4, <2>1, <2>2, <2>3, <2>5, <3>1
            DEF AckMaster, Goto, IsHardware, mainVars
  <2> QED BY <2>4, <2>5
<1>5. CASE AckSlave
  <2> DEFINE l == interrupt - hardwareInterruptOffset
  <2>1. interrupt \in Vectors /\ IsHardware(interrupt) /\ ViaSlave(interrupt)
        /\ isr \subseteq {l}
    BY <1>5 DEF AckSlave
  <2>2. l \in Slave
    BY <2>1, InterruptAssumption DEF IsHardware, ViaSlave, Slave, Vectors
  <2>3. isr' = {}
    BY <1>5, <2>1, <2>2, EoiSlave DEF AckSlave
  <2>4. TypeOK'
    BY <1>5, <2>3 DEF AckSlave, Goto, TypeOK, tableVars, mainVars
  <2> QED BY <1>5, <2>1, <2>3, <2>4 DEF AckSlave, Goto, IsHardware, mainVars
<1>6. CASE Return
  <2>1. TypeOK'
    BY <1>6 DEF Return, TypeOK, tableVars, mainVars, picVars
  <2>2. isr' = {} /\ pc' = "run"
    BY <1>6 DEF Return, picVars
  <2> QED BY <1>6, <2>1, <2>2 DEF Return, mainVars
<1> QED BY <1>1, <1>2, <1>3, <1>4, <1>5, <1>6 DEF InterruptStep

-----------------------------------------------------------------------------

(* Every step of the kernel keeps the invariant.                           *)
LEMMA NextIInv ==
  ASSUME IInv, [KernelNext]_vars
  PROVE  IInv'
<1>1. CASE Device
  <2>1. PICK l \in Lines : Raise(l)
    BY <1>1 DEF Device
  <2>2. TypeOK'
    BY <2>1 DEF IInv, TypeOK, Raise, tableVars, cpuVars, mainVars
  <2> QED BY <2>1, <2>2
          DEF IInv, Raise, cpuVars, mainVars, InServiceFor, IsHardware, ViaSlave
<1>2. CASE Interrupt
  BY <1>2, AcceptIInv, TrapIInv DEF Interrupt
<1>3. CASE InterruptStep
  BY <1>3, InterruptStepIInv
<1>4. CASE Table
  BY <1>4, TableIInv
<1>5. CASE SetActive
  <2>1. TypeOK'
    BY <1>5 DEF IInv, TypeOK, SetActive, tableVars, cpuVars, picVars
  <2> QED BY <1>5, <2>1 DEF IInv, SetActive, cpuVars, picVars
<1>6. CASE Sti
  <2>1. TypeOK'
    BY <1>6 DEF IInv, TypeOK, Sti, tableVars, picVars
  <2> QED BY <1>6, <2>1 DEF IInv, Sti, picVars
<1>7. CASE Boot
  <2>1. PICK m \in Managers : Activate(m)
    BY <1>7 DEF Boot
  <2>2. TypeOK'
    BY <2>1 DEF IInv, TypeOK, Activate, tableVars, cpuVars, picVars
  <2>3. step' = "set" /\ target' # NULL
    BY <1>7, <2>1, InterruptAssumption DEF Boot, Activate
  <2> QED BY <2>1, <2>2, <2>3 DEF IInv, Activate, cpuVars, picVars
<1>8. CASE UNCHANGED vars
  BY <1>8 DEF IInv, TypeOK, vars, tableVars, cpuVars, mainVars, picVars,
              InServiceFor, IsHardware, ViaSlave
<1> QED BY <1>1, <1>2, <1>3, <1>4, <1>5, <1>6, <1>7, <1>8
        DEF KernelNext, KernelStep

(* The invariant: in the kernel an interrupt always finds a manager, and   *)
(* what is in service is what the interrupt being handled put there.       *)
THEOREM KernelInvariant == KernelSpec => []IInv
<1>1. Init => IInv
  BY InitIInv
<1>2. IInv /\ [KernelNext]_vars => IInv'
  BY NextIInv
<1> QED BY <1>1, <1>2, PTL DEF KernelSpec

(* "hardware interrupts must be acknowledged": DoHandleInterrupt leaves no *)
(* controller with a line in service, whatever comes while it runs.        *)
THEOREM EveryInterruptAcknowledged == KernelSpec => []Acknowledged
<1>1. IInv => Acknowledged
  BY DEF IInv, Acknowledged
<1> QED BY <1>1, KernelInvariant, PTL

-----------------------------------------------------------------------------

\* The table of handlers, however managers are activated and deactivated.

TableInv == TypeOK /\ NoDanglingHandler

(* At first every slot is empty.                                           *)
LEMMA InitTableInv == Init => TableInv
<1> SUFFICES ASSUME Init PROVE TableInv
  OBVIOUS
<1>1. TypeOK
  BY InterruptAssumption DEF Init, TypeOK
<1>2. NoDanglingHandler
  BY DEF Init, NoDanglingHandler
<1> QED BY <1>1, <1>2 DEF TableInv

(* A handler that is not registered is in no slot, so registering it puts  *)
(* it in one slot only, and its destructor finds it nowhere else.          *)
LEMMA TableKeepsInv ==
  ASSUME TableInv, Table
  PROVE  TableInv'
<1>1. TypeOK'
  BY TableTypes DEF TableInv
<1>2. ASSUME NEW h \in Handlers, NEW m \in Managers, NEW n \in Slots,
             Register(h, m, n)
      PROVE  NoDanglingHandler'
  <2>1. n \in Vectors
    BY InterruptAssumption
  <2> SUFFICES ASSUME NEW k \in Managers, NEW j \in Vectors,
                      ppHandlers'[k][j] # NULL
               PROVE  /\ ppHandlers'[k][j] \in DOMAIN registered'
                      /\ registered'[ppHandlers'[k][j]] = <<k, j>>
    BY DEF NoDanglingHandler
  <2>2. CASE k = m /\ j = n
    BY <1>2, <2>1, <2>2 DEF Register, TableInv, TypeOK
  <2>3. CASE ~ (k = m /\ j = n)
    <3>1. ppHandlers'[k][j] = ppHandlers[k][j]
      BY <1>2, <2>1, <2>3 DEF Register, TableInv, TypeOK
    <3>2. /\ ppHandlers[k][j] \in DOMAIN registered
          /\ registered[ppHandlers[k][j]] = <<k, j>>
      BY <3>1 DEF TableInv, NoDanglingHandler
    <3> QED BY <1>2, <3>1, <3>2 DEF Register
  <2> QED BY <2>2, <2>3
<1>3. ASSUME NEW h \in Handlers, Unregister(h)
      PROVE  NoDanglingHandler'
  <2> SUFFICES ASSUME NEW k \in Managers, NEW j \in Vectors,
                      ppHandlers'[k][j] # NULL
               PROVE  /\ ppHandlers'[k][j] \in DOMAIN registered'
                      /\ registered'[ppHandlers'[k][j]] = <<k, j>>
    BY DEF NoDanglingHandler
  <2>1. registered[h] \in Managers \X Slots
    BY <1>3 DEF Unregister, TableInv, TypeOK
  <2>2. ppHandlers'[k][j] = ppHandlers[k][j]
    BY <1>3, <2>1 DEF Unregister, Cleared, TableInv, TypeOK
  <2>3. /\ ppHandlers[k][j] \in DOMAIN registered
        /\ registered[ppHandlers[k][j]] = <<k, j>>
    BY <2>2 DEF TableInv, NoDanglingHandler
  <2>4. ppHandlers[k][j] # h
    <3> SUFFICES ASSUME ppHandlers[k][j] = h PROVE FALSE
      OBVIOUS
    <3>1. registered[h] = <<k, j>>
      BY <2>3
    <3>2. ppHandlers' = [ppHandlers EXCEPT ![k][j] = NULL]
      BY <1>3, <3>1 DEF Unregister, Cleared
    <3>3. ppHandlers'[k][j] = NULL
      BY <3>2 DEF TableInv, TypeOK
    <3> QED BY <3>3
  <2> QED BY <1>3, <2>2, <2>3, <2>4 DEF Unregister
<1> QED BY <1>1, <1>2, <1>3 DEF Table, TableInv

(* Everything else leaves the table alone.                                 *)
LEMMA OthersKeepTable ==
  ASSUME Device \/ Interrupt \/ InterruptStep \/ MainStep
           \/ \E m \in Managers : Activate(m) \/ Deactivate(m)
  PROVE  UNCHANGED tableVars
<1>1. CASE Device \/ Interrupt
  BY <1>1 DEF Device, Raise, Interrupt, Accept, AcceptSpurious, Trap
<1>2. CASE InterruptStep
  BY <1>2 DEF InterruptStep, HandleInterrupt, CallHandler, Schedule, AckMaster,
              AckSlave, Return, Goto
<1>3. CASE MainStep
  BY <1>3 DEF MainStep, ClearActive, Cli, SetActive, Sti
<1>4. CASE \E m \in Managers : Activate(m) \/ Deactivate(m)
  BY <1>4 DEF Activate, Deactivate
<1> QED BY <1>1, <1>2, <1>3, <1>4

(* Types, under every use of the class.                                    *)
LEMMA NextTypeOK ==
  ASSUME TypeOK, [Next]_vars
  PROVE  TypeOK'
<1> USE DEF TypeOK
<1>1. CASE Device
  <2>1. PICK l \in Lines : Raise(l)
    BY <1>1 DEF Device
  <2> QED BY <2>1 DEF Raise, tableVars, cpuVars, mainVars
<1>2. ASSUME NEW l \in Lines, Accept(l) \/ AcceptSpurious(l)
      PROVE  TypeOK'
  <2> DEFINE k == IF Accept(l) THEN l ELSE IF l \in Slave THEN 15 ELSE 7
  <2>1. k \in 0 .. 15 /\ interrupt' = Gate(hardwareInterruptOffset + k)
    BY <1>2, InterruptAssumption DEF Accept, AcceptSpurious, Enter, Master, Slave
  <2>2. interrupt' \in Vectors
    BY <2>1, LineGate
  <2>3. isr' \subseteq Master \cup Slave
    BY <1>2, InterruptAssumption
       DEF Accept, AcceptSpurious, InService, Cascade, Master, Slave
  <2> QED BY <1>2, <2>2, <2>3
          DEF Accept, AcceptSpurious, Enter, tableVars, mainVars
<1>3. ASSUME NEW v \in Traps, Trap(v)
      PROVE  TypeOK'
  <2>1. interrupt' \in Vectors
    BY <1>3, TrapGate DEF Trap, Enter
  <2> QED BY <1>3, <2>1 DEF Trap, Enter, tableVars, mainVars, picVars
<1>4. CASE Interrupt
  BY <1>2, <1>3, <1>4 DEF Interrupt
<1>5. CASE HandleInterrupt \/ CallHandler \/ Schedule
  BY <1>5 DEF HandleInterrupt, CallHandler, Schedule, Goto, tableVars, mainVars,
              picVars
<1>6. CASE AckMaster \/ AckSlave
  <2>1. isr' \subseteq isr
    BY <1>6 DEF AckMaster, AckSlave, Eoi
  <2> QED BY <1>6, <2>1 DEF AckMaster, AckSlave, Goto, tableVars, mainVars
<1>7. CASE Return
  BY <1>7 DEF Return, tableVars, mainVars, picVars
<1>8. CASE Table
  BY <1>8, TableTypes
<1>9. CASE ClearActive \/ SetActive
  BY <1>9 DEF ClearActive, SetActive, tableVars, cpuVars, picVars
<1>10. CASE Cli \/ Sti
  BY <1>10 DEF Cli, Sti, tableVars, picVars
<1>11. ASSUME NEW m \in Managers, Activate(m) \/ Deactivate(m)
       PROVE  TypeOK'
  BY <1>11 DEF Activate, Deactivate, tableVars, cpuVars, picVars
<1>12. CASE UNCHANGED vars
  BY <1>12 DEF vars, tableVars, cpuVars, mainVars, picVars
<1> QED BY <1>1, <1>4, <1>5, <1>6, <1>7, <1>8, <1>9, <1>10, <1>11, <1>12
        DEF Next, InterruptStep, MainStep

(* No step of any use of the class makes a slot dangle.                    *)
LEMMA NextTableInv ==
  ASSUME TableInv, [Next]_vars
  PROVE  TableInv'
<1>1. CASE Table
  BY <1>1, TableKeepsInv
<1>2. CASE ~ Table
  <2>1. UNCHANGED tableVars
    BY <1>2, OthersKeepTable DEF Next, vars
  <2>2. NoDanglingHandler'
    BY <2>1 DEF TableInv, NoDanglingHandler, tableVars
  <2> QED BY <2>2, NextTypeOK DEF TableInv
<1> QED BY <1>1, <1>2

(* So slots never dangle, whoever is activated or deactivated.             *)
LEMMA TableInvariant == Spec => []TableInv
<1>1. Init => TableInv
  BY InitTableInv
<1>2. TableInv /\ [Next]_vars => TableInv'
  BY NextTableInv
<1> QED BY <1>1, <1>2, PTL DEF Spec

(* Whoever is activated, deactivated, registered and destroyed in whatever *)
(* order, with interrupts in between: the table of no manager points to an *)
(* InterruptHandler that has been destroyed.                               *)
THEOREM HandlersAreAlive == Spec => []NoDanglingHandler
<1>1. TableInv => NoDanglingHandler
  BY DEF TableInv
<1> QED BY <1>1, TableInvariant, PTL

(* No step empties a slot whose handler lives on.                          *)
LEMMA StepKeepsOthers ==
  ASSUME TableInv, [Next]_vars,
         NEW m \in Managers, NEW n \in Vectors,
         ppHandlers[m][n] # NULL, ppHandlers[m][n] \in DOMAIN registered'
  PROVE  ppHandlers'[m][n] # NULL
<1>1. ASSUME NEW h \in Handlers, NEW k \in Managers, NEW j \in Slots,
             Register(h, k, j)
      PROVE  ppHandlers'[m][n] # NULL
  <2>1. h # NULL
    <3>1. ppHandlers[m][n] \in Handlers
      BY DEF TableInv, TypeOK
    <3> QED BY InterruptAssumption
  <2> QED BY <1>1, <2>1 DEF Register, TableInv, TypeOK
<1>2. ASSUME NEW h \in Handlers, Unregister(h)
      PROVE  ppHandlers'[m][n] # NULL
  <2>1. ppHandlers[m][n] # h
    BY <1>2 DEF Unregister
  <2>2. registered[h] \in Managers \X Slots
    BY <1>2 DEF Unregister, TableInv, TypeOK
  <2>3. ppHandlers'[m][n] = ppHandlers[m][n]
    BY <1>2, <2>1, <2>2 DEF Unregister, Cleared, TableInv, TypeOK
  <2> QED BY <2>3
<1>3. CASE Table
  BY <1>1, <1>2, <1>3 DEF Table
<1>4. CASE ~ Table
  BY <1>4, OthersKeepTable DEF Next, vars, tableVars
<1> QED BY <1>3, <1>4

(* The destruction of a handler never takes the registration of another,   *)
(* not even when the two were registered for the same number.              *)
THEOREM DestructorsAreSelective == Spec => OthersStayRegistered
<1>1. TableInv /\ [Next]_vars =>
        \A m \in Managers, n \in Vectors :
          LET h == ppHandlers[m][n] IN
            h # NULL /\ h \in DOMAIN registered' => ppHandlers'[m][n] # NULL
  BY StepKeepsOthers
<1> QED BY <1>1, TableInvariant, PTL DEF Spec, OthersStayRegistered
=============================================================================
