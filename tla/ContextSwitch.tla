---------------------------- MODULE ContextSwitch ----------------------------
(***************************************************************************)
(* Preemption, word by word: the stubs of interruptstubs.s, the CPUState   *)
(* layout and the Task constructor of multitasking, DoHandleInterrupt of   *)
(* interrupts.cpp as far as it decides which frame to go on with, and the  *)
(* system call handler.  The table and the turns are TaskManager's.        *)
(*                                                                         *)
(* Every context has a stack of Depth words, numbered upwards; esp is the  *)
(* context whose stack it points into and the number of the word on top.   *)
(* The code of a context may change its registers, call and return; it is  *)
(* interrupted at any point.  left is a history variable: what the context *)
(* had in the processor when it was last interrupted.                      *)
(***************************************************************************)
EXTENDS Integers, Sequences

CONSTANTS
  Tasks, Main, NoTask, MaxTasks,  \* see TaskManager
  Depth,        \* words of a stack
  Entry,        \* [task -> address of its entry point]
  Addresses,    \* the code addresses the contexts run at
  Registers,    \* the contents the general registers can have
  CodeSegment,  \* GlobalDescriptorTable::CodeSegmentSelector
  Irqs,         \* interrupt numbers of the hardware interrupts that occur
  Exceptions,   \* the exceptions that occur
  Junk          \* a word nothing is known of

Contexts == Tasks \cup {Main}

General == {"eax", "ebx", "ecx", "edx", "esi", "edi", "ebp"}

(* A stack has room for a task's first frame; the code's have 1024 words.  *)
ASSUME ContextAssumption ==
  /\ MaxTasks \in Nat
  /\ Main \notin Tasks
  /\ NoTask \notin Tasks
  /\ Depth \in Nat /\ Depth >= 13
  /\ \A r \in Registers : r = [x \in General |-> r[x]]

TimerNumber   == 32   \* hardwareInterruptOffset
SyscallNumber == 160  \* 0x80 + hardwareInterruptOffset

VARIABLES
  ppTasks, numTasks, currentTask, pCpustate,  \* see TaskManager
  stack,    \* [context -> [1 .. Depth -> word]]
  cpu,      \* the registers: general ones, eip, cs, eflags and esp
  pc,       \* "boot", "run", "handle", "resume"
  number,   \* the interrupt number passed to HandleInterrupt
  frame,    \* the frame HandleInterrupt returned
  chosen,   \* the frame Schedule last returned
  interrupted, \* history: the frame it was last called with
  printed,  \* the string the last system call wrote
  left      \* [context -> cpu] when it was last interrupted

taskVars == <<ppTasks, numTasks, currentTask, pCpustate, chosen, interrupted>>

vars == <<taskVars, stack, cpu, pc, number, frame, printed, left>>

(* The order in which int_bottom pushes and pops, and the fields of the    *)
(* structure CPUState up to the part iret uses, lowest address first.      *)
PushOrder == <<"ebp", "edi", "esi", "edx", "ecx", "ebx", "eax">>

\* Mutant: ebx and ecx are popped in the order they were pushed.
PopSwapped == <<"eax", "ecx", "ebx", "edx", "esi", "edi", "ebp">>

PopOrder  == <<"eax", "ebx", "ecx", "edx", "esi", "edi", "ebp">>

\* Mutant: the structure declares ebx before eax.
CPUStateSwapped ==
  <<"ebx", "eax", "ecx", "edx", "esi", "edi", "ebp",
    "error", "eip", "cs", "eflags", "esp", "ss">>

CPUState  == <<"eax", "ebx", "ecx", "edx", "esi", "edi", "ebp",
               "error", "eip", "cs", "eflags", "esp", "ss">>

EnabledFlags == 514  \* 0x202: bit 1 and the interrupt flag

(* The exceptions for which the processor itself pushes an error code.     *)
WithErrorCode == {8} \cup 10 .. 14 \cup {17}

-----------------------------------------------------------------------------

(* The Task constructor: a CPUState at the upper end of the task's stack.  *)
(* The fields it does not set keep whatever the memory held.               *)
FrameField(t, f) ==
  CASE f \in General  -> 0
    [] f = "eip"      -> Entry[t]
    [] f = "cs"       -> CodeSegment
    [] f = "eflags"   -> EnabledFlags
    [] OTHER          -> Junk

FirstFrame == Depth - Len(CPUState) + 1

NewStack(t) ==
  [i \in 1 .. Depth |->
     IF i < FirstFrame THEN Junk ELSE FrameField(t, CPUState[i - FirstFrame + 1])]

Cpu(general, eip, cs, eflags, esp) ==
  [general |-> general, eip |-> eip, cs |-> cs, eflags |-> eflags, esp |-> esp]

(* A task's first turn starts at its entry point, above the eleven words   *)
(* that int_bottom and iret take from its first frame.                     *)
Start(t) ==
  Cpu([r \in General |-> 0], Entry[t], CodeSegment, EnabledFlags,
      <<t, FirstFrame + 11>>)

Scheduler == INSTANCE TaskManager WITH
  Stack <- [c \in Contexts |-> {<<c, i>> : i \in 1 .. Depth}],
  First <- [t \in Tasks |-> <<t, FirstFrame>>],
  esp   <- chosen

(* kernelMain runs with interrupts disabled, the tasks are constructed.    *)
Init ==
  /\ ppTasks = [i \in 0 .. MaxTasks - 1 |-> NoTask]
  /\ numTasks = 0
  /\ currentTask = -1
  /\ pCpustate = [t \in Tasks |-> <<t, FirstFrame>>]
  /\ stack = [c \in Contexts |-> IF c = Main THEN [i \in 1 .. Depth |-> Junk]
                                 ELSE NewStack(c)]
  /\ \E r \in Registers, a \in Addresses :
       cpu = Cpu(r, a, CodeSegment, EnabledFlags, <<Main, Depth>>)
  /\ pc = "boot"
  /\ number = 0
  /\ frame = <<Main, Depth>>
  /\ chosen = frame
  /\ interrupted = frame
  /\ printed = Junk
  /\ left = [c \in Contexts |-> IF c = Main THEN cpu ELSE Start(c)]

-----------------------------------------------------------------------------

(* kernelMain adds tasks before it enables interrupts.                     *)
AddTask(t) ==
  /\ pc = "boot"
  /\ Scheduler!AddTask(t)
  /\ UNCHANGED <<stack, cpu, pc, number, frame, printed, left>>

Activate ==
  /\ pc = "boot"
  /\ pc' = "run"
  /\ UNCHANGED <<taskVars, stack, cpu, number, frame, printed, left>>

Running == cpu.esp[1]

Top == cpu.esp[2]

(* The words ws pushed one after the other on the running context's stack. *)
Pushed(ws) ==
  [stack EXCEPT ![Running] =
     [i \in 1 .. Depth |-> IF i \in Top - Len(ws) .. Top - 1 THEN ws[Top - i]
                                                             ELSE @[i]]]

(* The words of stack c below word i mean nothing to the code that runs on *)
(* it; the model forgets them.                                             *)
Dropped(c, i) ==
  [stack EXCEPT ![c] = [k \in 1 .. Depth |-> IF k < i THEN Junk ELSE @[k]]]

(* The code that runs computes.                                            *)
Work(r, a) ==
  /\ pc = "run"
  /\ cpu' = [cpu EXCEPT !.general = r, !.eip = a]
  /\ UNCHANGED <<taskVars, stack, pc, number, frame, printed, left>>

(* It calls a function: the return address is pushed, and room is left for *)
(* an interrupt frame and the call of HandleInterrupt.                     *)
Call(a) ==
  /\ pc = "run"
  /\ Top > 15
  /\ stack' = Pushed(<<cpu.eip>>)
  /\ cpu' = [cpu EXCEPT !.eip = a, !.esp[2] = @ - 1]
  /\ UNCHANGED <<taskVars, pc, number, frame, printed, left>>

(* It returns from a function it called.                                   *)
Ret ==
  /\ pc = "run"
  /\ Top < (IF Running = Main THEN Depth ELSE FirstFrame + 11)
  /\ cpu' = [cpu EXCEPT !.eip = stack[Running][Top], !.esp[2] = @ + 1]
  /\ stack' = Dropped(Running, Top + 1)
  /\ UNCHANGED <<taskVars, pc, number, frame, printed, left>>

-----------------------------------------------------------------------------

\* Mutant: the stub of a hardware interrupt does not push its 0.
ErrorWordMissing(n) == IF n \in WithErrorCode THEN <<Junk>> ELSE << >>

(* What lies on the stack between eip and the registers: the error code of *)
(* the processor, the 0 of a HandleInterruptRequest stub, or nothing.      *)
ErrorWord(n) ==
  IF n \in Exceptions
  THEN IF n \in WithErrorCode THEN <<Junk>> ELSE << >>
  ELSE <<0>>

Saved(n) ==
  <<cpu.eflags, cpu.cs, cpu.eip>> \o ErrorWord(n) \o
  [k \in 1 .. Len(PushOrder) |-> cpu.general[PushOrder[k]]]

(* An interrupt up to the call of HandleInterrupt.                         *)
Interrupt(n) ==
  /\ pc = "run"
  /\ stack' = Pushed(Saved(n))
  /\ left' = [left EXCEPT ![Running] = cpu]
  /\ cpu' = [cpu EXCEPT !.esp[2] = @ - Len(Saved(n))]
  /\ number' = n
  /\ pc' = "handle"
  /\ UNCHANGED <<taskVars, frame, printed>>

(* A field of the frame at esp, read through a CPUState pointer.           *)
Field(f) ==
  stack[Running][Top - 1 + CHOOSE k \in 1 .. Len(CPUState) : CPUState[k] = f]

(* The system call handler: a write call writes the string ebx points to.  *)
Printed ==
  IF number = SyscallNumber /\ Field("eax") = 4 THEN Field("ebx") ELSE printed

\* Mutant: the frame Schedule returns is not passed on.
DoHandleInterruptStays ==
  /\ pc = "handle"
  /\ stack' = Dropped(Running, Top)
  /\ printed' = Printed
  /\ IF number = TimerNumber THEN Scheduler!Schedule(cpu.esp) ELSE UNCHANGED taskVars
  /\ frame' = cpu.esp
  /\ pc' = "resume"
  /\ UNCHANGED <<cpu, number, left>>

(* DoHandleInterrupt and its callees use the stack below the frame.  Only  *)
(* the timer goes on with another frame; every handler returns its esp.    *)
DoHandleInterrupt ==
  /\ pc = "handle"
  /\ stack' = Dropped(Running, Top)
  /\ printed' = Printed
  /\ IF number = TimerNumber
     THEN Scheduler!Schedule(cpu.esp) /\ frame' = chosen'
     ELSE frame' = cpu.esp /\ UNCHANGED taskVars
  /\ pc' = "resume"
  /\ UNCHANGED <<cpu, number, left>>

(* The end of int_bottom: the stack is switched, seven registers are       *)
(* popped, the error code is skipped and iret pops the rest.               *)
Resume ==
  LET c       == frame[1]
      Word(k) == stack[c][frame[2] + k]
  IN  /\ pc = "resume"
      /\ cpu' = Cpu([r \in General |->
                       Word((CHOOSE k \in 1 .. 7 : PopOrder[k] = r) - 1)],
                    Word(8), Word(9), Word(10), <<c, frame[2] + 11>>)
      /\ pc' = "run"
      /\ stack' = Dropped(c, frame[2] + 11)
      /\ number' = 0
      /\ UNCHANGED <<taskVars, frame, printed, left>>

Next ==
  \/ \E t \in Tasks : AddTask(t)
  \/ Activate
  \/ \E r \in Registers, a \in Addresses : Work(r, a)
  \/ \E a \in Addresses : Call(a)
  \/ Ret
  \/ \E n \in Irqs \cup Exceptions \cup {SyscallNumber} : Interrupt(n)
  \/ DoHandleInterrupt
  \/ Resume

Spec == Init /\ [][Next]_vars

-----------------------------------------------------------------------------

(* Types: esp stays inside the stack of a context, and eip is an address   *)
(* of code: no return, of a function or of an interrupt, goes astray.      *)
TypeOK ==
  /\ Scheduler!TypeOK
  /\ pc \in {"boot", "run", "handle", "resume"}
  /\ cpu.esp \in Contexts \X (1 .. Depth)
  /\ cpu.eip \in Addresses \cup {Entry[t] : t \in Tasks}
  /\ frame \in Contexts \X (1 .. Depth)

(* An interrupt is invisible to the code it interrupts, however many turns *)
(* of other tasks lie in between: every register, eip, cs, eflags and esp  *)
(* have the values they had, and a task's first turn is at its entry point.*)
Transparent ==
  [][pc = "resume" => cpu' = left[frame[1]]]_vars

(* The system call handler finds in the frame what the caller had in eax   *)
(* and ebx when it executed int 0x80.                                      *)
SyscallSeesCaller ==
  [][pc = "handle" =>
       LET caller == left[Running].general IN
         printed' = IF number = SyscallNumber /\ caller["eax"] = 4
                    THEN caller["ebx"] ELSE printed]_vars

(* Preemption makes exactly the moves TaskManager describes.               *)
ImplementsTaskManager == Scheduler!Spec
=============================================================================
