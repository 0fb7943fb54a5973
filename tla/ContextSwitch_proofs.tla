------------------------- MODULE ContextSwitch_proofs -------------------------
(***************************************************************************)
(* Proofs about ContextSwitch, for any number of tasks, any stacks of at   *)
(* least a frame and any code that computes, calls and returns: that eip   *)
(* and esp never go astray, that an interrupt is invisible to the code it  *)
(* interrupts, that the system call handler sees its caller's registers    *)
(* and that preemption makes exactly the moves TaskManager describes.      *)
(*                                                                         *)
(* They rest on the hypothesis that the exceptions that occur are among    *)
(* those for which the processor pushes an error code: without it the      *)
(* stubs leave a frame one word short, as the run "faults" shows.          *)
(***************************************************************************)
EXTENDS ContextSwitch, SequenceTheorems, TLAPS

(* What TaskManager_proofs shows, for the stacks of this module.           *)
Table == INSTANCE TaskManager_proofs WITH
  Stack <- [c \in Contexts |-> {<<c, i>> : i \in 1 .. Depth}],
  First <- [t \in Tasks |-> <<t, FirstFrame>>],
  esp   <- chosen

-----------------------------------------------------------------------------
(* The invariant.                                                          *)

(* The code addresses: where contexts run and where their calls return to. *)
Code == Addresses \cup {Entry[t] : t \in Tasks}

(* The word above the last one a context's code uses of its stack.         *)
Base(c) == IF c = Main THEN Depth ELSE FirstFrame + 11

(* The place of a register among the words int_bottom pops.                *)
Slot(r) == CHOOSE k \in 1 .. 7 : PopOrder[k] = r

(* What int_bottom and iret would put into the processor from frame f.     *)
Restored(f) ==
  Cpu([r \in General |-> stack[f[1]][f[2] + (Slot(r) - 1)]],
      stack[f[1]][f[2] + 8], stack[f[1]][f[2] + 9], stack[f[1]][f[2] + 10],
      <<f[1], f[2] + 11>>)

(* From word i on, the stack of context c holds return addresses.          *)
Returns(c, i) == \A k \in i .. Base(c) - 1 : stack[c][k] \in Code

(* Frame f holds what context c had in the processor when it was last      *)
(* interrupted, and its stack is in order above the frame.                 *)
Suspended(c, f) ==
  /\ f = <<c, f[2]>>
  /\ f[2] \in 1 .. Base(c) - 11
  /\ left[c] = Restored(f)
  /\ left[c].eip \in Code
  /\ Returns(c, f[2] + 11)

(* The code of context c runs, with room for an interrupt.                 *)
Runs(c) ==
  /\ cpu = Cpu([r \in General |-> cpu.general[r]],
               cpu.eip, cpu.cs, cpu.eflags, <<c, Top>>)
  /\ Top \in 12 .. Base(c)
  /\ Returns(c, Top)

(* The context whose turn it is runs, is in its handler, or is about to go *)
(* on from the frame left on its stack.                                    *)
TurnInOrder ==
  LET c == chosen[1] IN
    CASE pc \in {"boot", "run"} -> Runs(c)
      [] pc = "handle"          -> Suspended(c, cpu.esp)
      [] pc = "resume"          -> Suspended(c, frame)

(* Every other task can be resumed from the frame its Task object keeps.   *)
WaitingInOrder ==
  \A t \in Tasks : t # chosen[1] => Suspended(t, pCpustate[t])

IInv ==
  /\ TypeOK
  /\ Table!Inv
  /\ DOMAIN stack = Contexts
  /\ DOMAIN left = Contexts
  /\ TurnInOrder
  /\ WaitingInOrder

-----------------------------------------------------------------------------
(* The scheduler's part of it.                                             *)

(* Frames are counted from 1.                                              *)
LEMMA FirstFrameIs == FirstFrame = Depth - 12 /\ FirstFrame \in 1 .. Depth
<1>1. Len(CPUState) = 13
  BY DEF CPUState
<1> QED
  BY <1>1, ContextAssumption DEF FirstFrame

(* Stacks of words are stacks as TaskManager assumes them.                 *)
LEMMA StacksAreStacks == Table!TaskAssumption
<1>1. \A t \in Tasks : <<t, FirstFrame>> \in {<<t, i>> : i \in 1 .. Depth}
  BY FirstFrameIs
<1>2. \A t \in Tasks : t \in Contexts
  BY DEF Contexts
<1>3. [t \in Tasks |-> <<t, FirstFrame>>] \in [Tasks -> Table!Frames]
  BY <1>1, <1>2 DEF Table!Frames, Table!Contexts, Contexts
<1>4. \A c, d \in Contexts :
        c # d => {<<c, i>> : i \in 1 .. Depth} \cap {<<d, i>> : i \in 1 .. Depth} = {}
  OBVIOUS
<1> QED
  BY <1>1, <1>2, <1>3, <1>4, ContextAssumption
  DEF Table!TaskAssumption, Table!Contexts, Contexts

(* The two instances of TaskManager say the same.                          *)
LEMMA SameTable ==
  /\ Scheduler!TypeOK <=> Table!TypeOK
  /\ Scheduler!Init <=> Table!Init
  /\ [Scheduler!Next]_(Scheduler!vars) <=> [Table!Next]_(Table!vars)
<1>1. Scheduler!TypeOK <=> Table!TypeOK
  BY DEF Scheduler!TypeOK, Table!TypeOK, Scheduler!Frames, Table!Frames,
         Scheduler!Contexts, Table!Contexts
<1>2. Scheduler!Init <=> Table!Init
  BY DEF Scheduler!Init, Table!Init
<1>3. \A t \in Tasks : Scheduler!AddTask(t) <=> Table!AddTask(t)
  BY DEF Scheduler!AddTask, Table!AddTask
<1>4. \A f : Scheduler!Schedule(f) <=> Table!Schedule(f)
  BY DEF Scheduler!Schedule, Table!Schedule, Scheduler!SaveFrame, Table!SaveFrame,
         Scheduler!NextIndex, Table!NextIndex
<1>5. Scheduler!Owner(chosen) = Table!Owner(chosen)
  BY DEF Scheduler!Owner, Table!Owner, Scheduler!Contexts, Table!Contexts
<1>6. Scheduler!Tick <=> Table!Tick
  BY <1>4, <1>5 DEF Scheduler!Tick, Table!Tick
<1>7. Scheduler!Next <=> Table!Next
  BY <1>3, <1>6 DEF Scheduler!Next, Table!Next
<1> QED
  BY <1>1, <1>2, <1>7 DEF Scheduler!vars, Table!vars

(* A frame is a context and a word of its stack.                           *)
LEMMA FrameIs ==
  ASSUME NEW f \in Table!Frames
  PROVE  f[1] \in Contexts /\ f[2] \in 1 .. Depth /\ f = <<f[1], f[2]>>
<1>1. PICK c \in Contexts : f \in {<<c, i>> : i \in 1 .. Depth}
  BY DEF Table!Frames, Table!Contexts, Contexts
<1>2. PICK i \in 1 .. Depth : f = <<c, i>>
  BY <1>1
<1> QED
  BY <1>2

(* The context whose turn it is: kernelMain before the first tick, then    *)
(* the task currentTask designates.                                        *)
LEMMA TurnIs ==
  ASSUME Table!Inv
  PROVE  /\ chosen[1] \in Contexts /\ chosen = <<chosen[1], chosen[2]>>
         /\ currentTask = -1 => chosen[1] = Main
         /\ currentTask # -1 => /\ currentTask >= 0
                                /\ ppTasks[currentTask] \in Tasks
                                /\ chosen[1] = ppTasks[currentTask]
         /\ Table!Owner(chosen) = chosen[1]
<1>1. chosen \in Table!Frames
  BY DEF Table!Inv, Table!TypeOK
<1>2. chosen[1] \in Contexts /\ chosen[2] \in 1 .. Depth /\ chosen = <<chosen[1], chosen[2]>>
  BY <1>1, FrameIs
<1>3. ASSUME currentTask = -1
      PROVE  chosen[1] = Main
  <2>1. chosen \in {<<Main, i>> : i \in 1 .. Depth}
    BY <1>3 DEF Table!Inv, Table!OnOwnStack, Table!CurrentRuns, Contexts
  <2>2. PICK i \in 1 .. Depth : chosen = <<Main, i>>
    BY <2>1
  <2> QED
    BY <2>2
<1>4. ASSUME currentTask # -1
      PROVE  /\ currentTask >= 0
             /\ ppTasks[currentTask] \in Tasks
             /\ chosen[1] = ppTasks[currentTask]
  <2>1. currentTask >= 0 /\ ppTasks[currentTask] \in Tasks
    BY <1>4, ContextAssumption DEF Table!Inv, Table!TypeOK
  <2>2. chosen \in {<<ppTasks[currentTask], i>> : i \in 1 .. Depth}
    BY <1>4, <2>1 DEF Table!Inv, Table!OnOwnStack, Table!CurrentRuns, Contexts
  <2>3. PICK i \in 1 .. Depth : chosen = <<ppTasks[currentTask], i>>
    BY <2>2
  <2> QED
    BY <2>1, <2>3
<1>5. Table!Owner(chosen) = chosen[1]
  <2>1. chosen \in [c \in Contexts |-> {<<c, i>> : i \in 1 .. Depth}][chosen[1]]
    BY <1>2
  <2> QED
    BY <1>2, <2>1, StacksAreStacks, Table!OwnerIs
    DEF Table!OwnerIs, Table!Contexts, Contexts
<1> QED
  BY <1>2, <1>3, <1>4, <1>5

(* What Schedule does with a frame of the context whose turn it is: a task *)
(* keeps it, and the next context goes on from the frame it kept.          *)
LEMMA ScheduleIs ==
  ASSUME Table!Inv, NEW i \in 1 .. Depth, Scheduler!Schedule(<<chosen[1], i>>)
  PROVE  /\ Table!Inv' /\ Scheduler!Tick
         /\ chosen' = IF chosen'[1] = chosen[1] THEN <<chosen[1], i>>
                                                ELSE pCpustate[chosen'[1]]
         /\ chosen'[1] # chosen[1] => chosen'[1] \in Tasks
         /\ \A t \in Tasks : t # chosen'[1] =>
              pCpustate'[t] = IF t = chosen[1] THEN <<chosen[1], i>> ELSE pCpustate[t]
<1> DEFINE f == <<chosen[1], i>>
<1>0. Table!TaskAssumption
  BY StacksAreStacks
<1>1. Table!Schedule(f)
  BY DEF Scheduler!Schedule, Table!Schedule, Scheduler!SaveFrame, Table!SaveFrame,
         Scheduler!NextIndex, Table!NextIndex
<1>2. f \in [c \in Contexts |-> {<<c, j>> : j \in 1 .. Depth}][Table!Owner(chosen)]
  BY TurnIs
<1>3. Table!Inv'
  BY <1>0, <1>1, <1>2, Table!TickInv DEF Table!TickInv
<1>4. Scheduler!Tick
  <2>1. Scheduler!Owner(chosen) = Table!Owner(chosen)
    BY DEF Scheduler!Owner, Table!Owner, Scheduler!Contexts, Table!Contexts
  <2> QED
    BY <1>2, <2>1 DEF Scheduler!Tick
<1>5. f \in Table!Frames
  <2>1. f \in {<<chosen[1], j>> : j \in 1 .. Depth} /\ chosen[1] \in Contexts
    BY TurnIs
  <2> HIDE DEF f
  <2> QED
    BY <2>1 DEF Table!Frames, Table!Contexts, Contexts
<1>6. chosen'[1] \in Contexts
  BY <1>3, FrameIs DEF Table!Inv, Table!TypeOK
<1>7. CASE numTasks <= 0
  <2>1. chosen' = f /\ pCpustate' = pCpustate
    BY <1>1, <1>7 DEF Table!Schedule
  <2>2. currentTask = -1
    BY <1>7, ContextAssumption DEF Table!Inv, Table!TypeOK
  <2>3. chosen[1] = Main
    BY <2>2, TurnIs
  <2> QED
    BY <1>3, <1>4, <2>1, <2>3, ContextAssumption
<1>8. CASE ~ numTasks <= 0
  <2> DEFINE next == ppTasks[Table!NextIndex]
  <2>1. /\ pCpustate' = Table!SaveFrame(f)
        /\ chosen' = Table!SaveFrame(f)[next]
        /\ ppTasks' = ppTasks /\ currentTask' = Table!NextIndex
    BY <1>1, <1>8 DEF Table!Schedule
  <2>2. next \in Tasks /\ chosen'[1] = next
    <3>1. Table!NextIndex \in 0 .. numTasks - 1
      <4>1. numTasks > 0
        BY <1>8, ContextAssumption DEF Table!Inv, Table!TypeOK
      <4> QED
        BY <1>0, <4>1, Table!NextIndexIs DEF Table!NextIndexIs, Table!Inv
    <3>2. next \in Tasks
      BY <3>1 DEF Table!Inv, Table!TypeOK
    <3>3. chosen' \in {<<next, j>> : j \in 1 .. Depth}
      <4>1. \A t \in Tasks : pCpustate'[t] \in {<<t, j>> : j \in 1 .. Depth}
        BY <1>3 DEF Table!Inv, Table!OnOwnStack, Table!FramesAtHome, Contexts
      <4>2. chosen' = pCpustate'[next]
        BY <2>1
      <4> HIDE DEF next
      <4> QED
        BY <3>2, <4>1, <4>2
    <3> HIDE DEF next
    <3> QED
      BY <3>2, <3>3
  <2>3. \A t \in Tasks :
          Table!SaveFrame(f)[t] = IF t = chosen[1] THEN f ELSE pCpustate[t]
    <3>1. \A t \in Tasks :
            Table!SaveFrame(f)[t] =
              IF currentTask >= 0 /\ t = ppTasks[currentTask] THEN f ELSE pCpustate[t]
      BY <1>0, <1>5, Table!SaveFrameIs DEF Table!SaveFrameIs, Table!Inv
    <3>2. \A t \in Tasks : currentTask >= 0 /\ t = ppTasks[currentTask] <=> t = chosen[1]
      BY TurnIs, ContextAssumption
    <3> QED
      BY <3>1, <3>2
  <2> HIDE DEF next
  <2> QED
    BY <1>3, <1>4, <2>1, <2>2, <2>3
<1> QED
  BY <1>7, <1>8

-----------------------------------------------------------------------------
(* The layout of a frame.                                                  *)

(* int_bottom pops every general register once, in the opposite order of   *)
(* its pushes.                                                             *)
LEMMA PopsUndoPushes ==
  /\ Len(PushOrder) = 7
  /\ \A k \in 1 .. 7 : PushOrder[8 - k] = PopOrder[k]
  /\ \A r \in General : Slot(r) \in 1 .. 7 /\ PopOrder[Slot(r)] = r
<1>1. /\ PopOrder[1] = "eax" /\ PopOrder[2] = "ebx" /\ PopOrder[3] = "ecx"
      /\ PopOrder[4] = "edx" /\ PopOrder[5] = "esi" /\ PopOrder[6] = "edi"
      /\ PopOrder[7] = "ebp"
  BY DEF PopOrder
<1>2. /\ PushOrder[7] = "eax" /\ PushOrder[6] = "ebx" /\ PushOrder[5] = "ecx"
      /\ PushOrder[4] = "edx" /\ PushOrder[3] = "esi" /\ PushOrder[2] = "edi"
      /\ PushOrder[1] = "ebp" /\ Len(PushOrder) = 7
  BY DEF PushOrder
<1>3. \A r \in General : \E k \in 1 .. 7 : PopOrder[k] = r
  BY <1>1 DEF General
<1>4. \A r \in General : Slot(r) \in 1 .. 7 /\ PopOrder[Slot(r)] = r
  BY <1>3 DEF Slot
<1>5. \A k \in 1 .. 7 : PushOrder[8 - k] = PopOrder[k]
  <2> SUFFICES ASSUME NEW k \in 1 .. 7 PROVE PushOrder[8 - k] = PopOrder[k]
    OBVIOUS
  <2>1. k = 1 \/ k = 2 \/ k = 3 \/ k = 4 \/ k = 5 \/ k = 6 \/ k = 7
    OBVIOUS
  <2> QED
    BY <1>1, <1>2, <2>1
<1> QED
  BY <1>2, <1>4, <1>5

(* CPUState begins with the first two registers that are popped.           *)
LEMMA FieldsAre ==
  /\ Field("eax") = stack[Running][Top - 1 + 1]
  /\ Field("ebx") = stack[Running][Top - 1 + 2]
  /\ Slot("eax") = 1 /\ Slot("ebx") = 2
<1>1. /\ CPUState[1] = "eax" /\ CPUState[2] = "ebx" /\ Len(CPUState) = 13
      /\ \A k \in 1 .. 13 : CPUState[k] = "eax" => k = 1
      /\ \A k \in 1 .. 13 : CPUState[k] = "ebx" => k = 2
  BY DEF CPUState
<1>2. /\ (CHOOSE k \in 1 .. Len(CPUState) : CPUState[k] = "eax") = 1
      /\ (CHOOSE k \in 1 .. Len(CPUState) : CPUState[k] = "ebx") = 2
  BY <1>1
<1>3. /\ PopOrder[1] = "eax" /\ PopOrder[2] = "ebx"
      /\ \A k \in 1 .. 7 : PopOrder[k] = "eax" => k = 1
      /\ \A k \in 1 .. 7 : PopOrder[k] = "ebx" => k = 2
  BY DEF PopOrder
<1>4. Slot("eax") = 1 /\ Slot("ebx") = 2
  BY <1>3 DEF Slot
<1> QED
  BY <1>2, <1>4 DEF Field

(* Joining three words and one.                                            *)
LEMMA ThreeAndOne ==
  ASSUME NEW a, NEW b, NEW c, NEW d
  PROVE  <<a, b, c>> \o <<d>> = <<a, b, c, d>>
<1> DEFINE S == {a, b, c, d}   s == <<a, b, c>>   t == <<d>>
<1>1. s \in Seq(S) /\ Len(s) = 3 /\ s[1] = a /\ s[2] = b /\ s[3] = c
  OBVIOUS
<1>2. t \in Seq(S) /\ Len(t) = 1 /\ t[1] = d
  OBVIOUS
<1> HIDE DEF s, t, S
<1>3. /\ s \o t \in Seq(S) /\ Len(s \o t) = 4
      /\ \A i \in 1 .. 4 : (s \o t)[i] = IF i <= 3 THEN s[i] ELSE t[i - 3]
  <2>1. /\ s \o t \in Seq(S) /\ Len(s \o t) = Len(s) + Len(t)
        /\ \A i \in 1 .. Len(s) + Len(t) :
             (s \o t)[i] = IF i <= Len(s) THEN s[i] ELSE t[i - Len(s)]
    BY <1>1, <1>2, ConcatProperties
  <2> QED
    BY <1>1, <1>2, <2>1
<1>4. <<a, b, c, d>> \in Seq(S) /\ Len(<<a, b, c, d>>) = 4
  BY DEF S
<1>5. \A i \in 1 .. 4 : (s \o t)[i] = <<a, b, c, d>>[i]
  BY <1>1, <1>2, <1>3
<1> QED
  BY <1>3, <1>4, <1>5, SeqEqual DEF s, t

(* Eleven words are pushed for an interrupt: what iret takes, a word that  *)
(* is skipped, and the general registers.                                  *)
LEMMA SavedIs ==
  ASSUME Exceptions \subseteq WithErrorCode, NEW n
  PROVE  /\ Len(Saved(n)) = 11
         /\ Saved(n)[1] = cpu.eflags /\ Saved(n)[2] = cpu.cs /\ Saved(n)[3] = cpu.eip
         /\ \A k \in 1 .. 7 : Saved(n)[4 + k] = cpu.general[PushOrder[k]]
<1>1. PICK w : ErrorWord(n) = <<w>>
  BY DEF ErrorWord
<1> DEFINE head == <<cpu.eflags, cpu.cs, cpu.eip>>
           regs == [k \in 1 .. 7 |-> cpu.general[PushOrder[k]]]
<1>2. Saved(n) = (head \o <<w>>) \o regs
  BY <1>1, PopsUndoPushes DEF Saved
<1>3. head \o <<w>> = <<cpu.eflags, cpu.cs, cpu.eip, w>>
  BY ThreeAndOne
<1>4. Len(regs) = 7 /\ \A k \in 1 .. 7 : regs[k] = cpu.general[PushOrder[k]]
  OBVIOUS
<1> QED
  BY <1>2, <1>3, <1>4

-----------------------------------------------------------------------------
(* What a step leaves as it was.                                           *)

(* The words above a frame are words of the stack.                         *)
LEMMA BaseIs ==
  ASSUME NEW c \in Contexts
  PROVE  Base(c) \in 12 .. Depth
BY FirstFrameIs, ContextAssumption DEF Base

(* A frame goes on being one while nothing writes at it or above it.       *)
LEMMA SuspendedStays ==
  ASSUME NEW c \in Contexts, NEW f, Suspended(c, f), left'[c] = left[c],
         \A k \in f[2] .. Depth : stack'[c][k] = stack[c][k]
  PROVE  Suspended(c, f)'
<1>1. /\ f = <<c, f[2]>> /\ f[1] = c
      /\ f[2] \in 1 .. Base(c) - 11 /\ Base(c) \in 12 .. Depth
  BY BaseIs DEF Suspended
<1>2. \A k \in 0 .. 10 : stack'[f[1]][f[2] + k] = stack[f[1]][f[2] + k]
  BY <1>1, ContextAssumption
<1>3. \A r \in General : Slot(r) - 1 \in 0 .. 10
  BY PopsUndoPushes
<1>4. Restored(f)' = Restored(f)
  <2>1. [r \in General |-> stack'[f[1]][f[2] + (Slot(r) - 1)]]
          = [r \in General |-> stack[f[1]][f[2] + (Slot(r) - 1)]]
    BY <1>2, <1>3
  <2>2. /\ stack'[f[1]][f[2] + 8] = stack[f[1]][f[2] + 8]
        /\ stack'[f[1]][f[2] + 9] = stack[f[1]][f[2] + 9]
        /\ stack'[f[1]][f[2] + 10] = stack[f[1]][f[2] + 10]
    BY <1>2
  <2> QED
    BY <2>1, <2>2 DEF Restored, Slot
<1>5. Returns(c, f[2] + 11)'
  <2>1. \A k \in f[2] + 11 .. Base(c) - 1 : k \in f[2] .. Depth
    BY <1>1, ContextAssumption
  <2> QED
    BY <2>1 DEF Suspended, Returns, Code, Base
<1> QED
  BY <1>1, <1>4, <1>5 DEF Suspended, Base, Code

(* So the other tasks do, whatever the context whose turn it is does to    *)
(* its own stack.                                                          *)
LEMMA WaitingStays ==
  ASSUME WaitingInOrder, UNCHANGED taskVars,
         \A c \in Contexts : c # chosen[1] => /\ left'[c] = left[c]
                                              /\ stack'[c] = stack[c]
  PROVE  WaitingInOrder'
<1> SUFFICES ASSUME NEW t \in Tasks, t # chosen[1]
             PROVE  Suspended(t, pCpustate[t])'
  BY DEF WaitingInOrder, taskVars
<1>1. Suspended(t, pCpustate[t]) /\ pCpustate'[t] = pCpustate[t]
  BY DEF WaitingInOrder, taskVars
<1>2. t \in Contexts /\ left'[t] = left[t] /\ stack'[t] = stack[t]
  BY DEF Contexts
<1> DEFINE f == pCpustate[t]
<1>3. \A g : Suspended(t, g) => Suspended(t, g)'
  BY <1>2, SuspendedStays
<1> QED
  BY <1>1, <1>3

(* The context whose turn it is stays in order when nothing happens to it. *)
LEMMA TurnStays ==
  ASSUME TurnInOrder, chosen' = chosen, chosen[1] \in Contexts,
         pc \in {"boot", "run", "handle", "resume"},
         UNCHANGED <<stack, cpu, pc, frame, left>>
  PROVE  TurnInOrder'
<1> PICK c, f, e : c = chosen[1] /\ f = frame /\ e = cpu.esp
  OBVIOUS
<1>1. \A g : Suspended(c, g) => Suspended(c, g)'
  BY SuspendedStays
<1>2. Runs(c) => Runs(c)'
  BY DEF Runs, Returns, Base, Code, Top
<1>3. /\ pc \in {"boot", "run"} => Runs(c)
      /\ pc = "handle" => Suspended(c, e)
      /\ pc = "resume" => Suspended(c, f)
  BY DEF TurnInOrder
<1>4. /\ pc \in {"boot", "run"} => Runs(c)'
      /\ pc = "handle" => Suspended(c, e)'
      /\ pc = "resume" => Suspended(c, f)'
  BY <1>1, <1>2, <1>3
<1>5. c = chosen'[1] /\ e = cpu'.esp /\ f = frame' /\ pc' = pc
  OBVIOUS
<1>6. CASE pc \in {"boot", "run"}
  BY <1>4, <1>5, <1>6 DEF TurnInOrder
<1>7. CASE pc = "handle"
  BY <1>4, <1>5, <1>7 DEF TurnInOrder
<1>8. CASE pc = "resume"
  BY <1>4, <1>5, <1>8 DEF TurnInOrder
<1> QED
  BY <1>6, <1>7, <1>8

(* The table stays in order when it is left alone.                         *)
LEMMA TableStays ==
  ASSUME Table!Inv, UNCHANGED taskVars
  PROVE  Table!Inv'
BY DEF taskVars, Table!Inv, Table!TypeOK, Table!OnOwnStack, Table!FramesAtHome,
       Table!CurrentRuns

(* Its types are part of the invariant's.                                  *)
LEMMA TypesOfTable ==
  ASSUME Table!Inv'
  PROVE  Scheduler!TypeOK'
BY DEF Table!Inv, Scheduler!TypeOK, Table!TypeOK, Scheduler!Frames, Table!Frames,
       Scheduler!Contexts, Table!Contexts

-----------------------------------------------------------------------------
(* The invariant holds at first.                                           *)

(* A task's first frame restores what its first turn starts with.          *)
LEMMA FirstFrameStarts ==
  ASSUME Init, NEW t \in Tasks
  PROVE  Suspended(t, <<t, FirstFrame>>)
<1> DEFINE f == <<t, FirstFrame>>
<1>1. t \in Contexts /\ t # Main /\ stack[t] = NewStack(t) /\ left[t] = Start(t)
  BY ContextAssumption DEF Init, Contexts
<1>2. Base(t) = FirstFrame + 11 /\ FirstFrame \in 1 .. Depth /\ FirstFrame + 12 = Depth
  BY <1>1, FirstFrameIs, ContextAssumption DEF Base
<1>3. \A k \in 0 .. 10 : stack[t][FirstFrame + k] = FrameField(t, CPUState[k + 1])
  <2> SUFFICES ASSUME NEW k \in 0 .. 10
               PROVE  NewStack(t)[FirstFrame + k] = FrameField(t, CPUState[k + 1])
    BY <1>1
  <2>1. /\ FirstFrame + k \in 1 .. Depth /\ ~ FirstFrame + k < FirstFrame
        /\ (FirstFrame + k) - FirstFrame + 1 = k + 1
    BY <1>2, ContextAssumption
  <2> QED
    BY <2>1 DEF NewStack
<1>4. \A r \in General : stack[t][FirstFrame + (Slot(r) - 1)] = 0
  <2> SUFFICES ASSUME NEW r \in General
               PROVE  stack[t][FirstFrame + (Slot(r) - 1)] = 0
    OBVIOUS
  <2>1. Slot(r) \in 1 .. 7 /\ PopOrder[Slot(r)] = r
    BY PopsUndoPushes
  <2>2. \A k \in 1 .. 7 : CPUState[k] = PopOrder[k]
    BY DEF CPUState, PopOrder
  <2>3. Slot(r) - 1 \in 0 .. 10 /\ (Slot(r) - 1) + 1 = Slot(r)
    BY <2>1
  <2>4. stack[t][FirstFrame + (Slot(r) - 1)] = FrameField(t, CPUState[Slot(r)])
    BY <1>3, <2>3
  <2>5. CPUState[Slot(r)] = r
    BY <2>1, <2>2
  <2>6. FrameField(t, r) = 0
    BY DEF FrameField, General
  <2> QED
    BY <2>4, <2>5, <2>6
<1>5. /\ stack[t][FirstFrame + 8] = Entry[t]
      /\ stack[t][FirstFrame + 9] = CodeSegment
      /\ stack[t][FirstFrame + 10] = EnabledFlags
  <2>1. CPUState[9] = "eip" /\ CPUState[10] = "cs" /\ CPUState[11] = "eflags"
    BY DEF CPUState
  <2>2. FrameField(t, "eip") = Entry[t]
    BY DEF FrameField, General
  <2>3. FrameField(t, "cs") = CodeSegment
    BY DEF FrameField, General
  <2>4. FrameField(t, "eflags") = EnabledFlags
    BY DEF FrameField, General
  <2> QED
    BY <1>3, <2>1, <2>2, <2>3, <2>4
<1>6. Restored(f) = Start(t)
  <2>1. [r \in General |-> stack[t][FirstFrame + (Slot(r) - 1)]] = [r \in General |-> 0]
    BY <1>4
  <2> QED
    BY <1>5, <2>1 DEF Restored, Start
<1>7. Start(t).eip = Entry[t]
  BY DEF Start, Cpu
<1> QED
  BY <1>1, <1>2, <1>6, <1>7 DEF Suspended, Returns, Code

(* kernelMain runs and every task is at its entry point.                   *)
LEMMA Starts == Init => IInv
<1> SUFFICES ASSUME Init PROVE IInv
  OBVIOUS
<1>0. Table!TaskAssumption
  BY StacksAreStacks
<1>1. Table!Init
  <2>1. chosen \in [c \in Contexts |-> {<<c, i>> : i \in 1 .. Depth}][Main]
    BY ContextAssumption DEF Init, Contexts
  <2> QED
    BY <2>1 DEF Init, Table!Init
<1>2. Table!Inv
  BY <1>0, <1>1, Table!InitInv DEF Table!InitInv
<1>3. Scheduler!TypeOK
  BY <1>2, SameTable DEF Table!Inv
<1>4. PICK r \in Registers, a \in Addresses :
        cpu = Cpu(r, a, CodeSegment, EnabledFlags, <<Main, Depth>>)
  BY DEF Init
<1>5. r = [x \in General |-> r[x]]
  BY ContextAssumption
<1>6. /\ cpu.general = r /\ cpu.eip = a /\ cpu.cs = CodeSegment
      /\ cpu.eflags = EnabledFlags /\ cpu.esp = <<Main, Depth>>
  BY <1>4 DEF Cpu
<1>7. TypeOK
  <2>1. Main \in Contexts /\ Depth \in 1 .. Depth
    BY ContextAssumption DEF Contexts
  <2>2. frame = <<Main, Depth>> /\ pc = "boot"
    BY DEF Init
  <2>3. cpu.eip \in Addresses
    BY <1>6
  <2> QED
    BY <1>3, <1>6, <2>1, <2>2, <2>3 DEF TypeOK
<1>8. TurnInOrder
  <2>1. chosen[1] = Main /\ pc = "boot"
    BY DEF Init
  <2>2. Runs(Main)
    BY <1>4, <1>5, <1>6, ContextAssumption DEF Runs, Top, Returns, Base
  <2> QED
    BY <2>1, <2>2 DEF TurnInOrder
<1>9. WaitingInOrder
  <2>1. \A t \in Tasks : pCpustate[t] = <<t, FirstFrame>>
    BY DEF Init
  <2> QED
    BY <2>1, FirstFrameStarts DEF WaitingInOrder
<1> QED
  BY <1>2, <1>7, <1>8, <1>9 DEF Init, IInv

-----------------------------------------------------------------------------
(* Every step keeps it: adding tasks, and the code of a context.           *)

(* AddTask only changes the table.                                         *)
LEMMA AddTaskKeeps ==
  ASSUME IInv, NEW t \in Tasks, AddTask(t)
  PROVE  IInv' /\ Scheduler!Next
<1>0. Table!TaskAssumption
  BY StacksAreStacks
<1>1. /\ Scheduler!AddTask(t) /\ pc = "boot"
      /\ UNCHANGED <<stack, cpu, pc, number, frame, printed, left>>
  BY DEF AddTask
<1>2. Table!AddTask(t)
  BY <1>1 DEF Scheduler!AddTask, Table!AddTask
<1>3. Table!Inv'
  BY <1>0, <1>2, Table!AddTaskInv DEF Table!AddTaskInv, IInv
<1>4. pCpustate' = pCpustate /\ chosen' = chosen
  BY <1>2 DEF Table!AddTask
<1>5. TypeOK'
  BY <1>1, <1>3, TypesOfTable DEF IInv, TypeOK
<1>6. TurnInOrder'
  BY <1>1, <1>4, TurnStays, TurnIs DEF IInv, TypeOK
<1>7. WaitingInOrder'
  <2> SUFFICES ASSUME NEW d \in Tasks, d # chosen[1]
               PROVE  Suspended(d, pCpustate[d])'
    BY <1>4 DEF WaitingInOrder
  <2>1. \A g : Suspended(d, g) => Suspended(d, g)'
    BY <1>1, SuspendedStays DEF Contexts
  <2>2. Suspended(d, pCpustate[d]) /\ pCpustate'[d] = pCpustate[d]
    BY <1>4 DEF IInv, WaitingInOrder
  <2> QED
    BY <2>1, <2>2
<1>8. Scheduler!Next
  BY <1>1 DEF Scheduler!Next
<1> QED
  BY <1>1, <1>3, <1>5, <1>6, <1>7, <1>8 DEF IInv

(* A context that runs has its turn.                                       *)
LEMMA RunningIs ==
  ASSUME IInv, pc = "run" \/ pc = "boot"
  PROVE  /\ Runs(chosen[1]) /\ Running = chosen[1] /\ chosen[1] \in Contexts
         /\ Top \in 12 .. Base(chosen[1]) /\ Base(chosen[1]) \in 12 .. Depth
         /\ cpu.esp = <<chosen[1], Top>>
         /\ cpu.general = [r \in General |-> cpu.general[r]]
         /\ cpu = Cpu(cpu.general, cpu.eip, cpu.cs, cpu.eflags, <<chosen[1], Top>>)
<1>1. chosen[1] \in Contexts
  BY TurnIs DEF IInv
<1>2. Runs(chosen[1])
  BY DEF IInv, TurnInOrder
<1>3. /\ cpu.esp = <<chosen[1], Top>>
      /\ cpu.general = [r \in General |-> cpu.general[r]]
  BY <1>2 DEF Runs, Cpu
<1> QED
  BY <1>1, <1>2, <1>3, BaseIs DEF Runs, Running

(* A step of the code of a context that keeps it running, its stack in     *)
(* order, and the other stacks as they were, keeps the invariant.          *)
LEMMA CodeKeeps ==
  ASSUME IInv, pc' = "run", Runs(chosen[1])', cpu'.eip \in Code,
         UNCHANGED <<taskVars, frame, left>>, DOMAIN stack' = Contexts,
         \A c \in Contexts : c # chosen[1] => stack'[c] = stack[c]
  PROVE  IInv'
<1>1. Table!Inv' /\ Scheduler!TypeOK'
  BY TableStays, TypesOfTable DEF IInv
<1>2. WaitingInOrder'
  BY WaitingStays DEF IInv
<1>3. chosen' = chosen /\ left' = left /\ frame' = frame
  BY DEF taskVars
<1>4. TurnInOrder'
  BY DEF TurnInOrder
<1>5. cpu'.esp \in Contexts \X (1 .. Depth)
  <2>1. cpu'.esp = <<chosen[1], Top'>> /\ Top' \in 12 .. Base(chosen[1])'
    BY <1>3 DEF Runs, Cpu
  <2>2. Base(chosen[1])' = Base(chosen[1]) /\ Base(chosen[1]) \in 12 .. Depth
    BY <1>3, BaseIs, TurnIs DEF Base, IInv
  <2>3. chosen[1] \in Contexts
    BY TurnIs DEF IInv
  <2>4. Top' \in 1 .. Depth
    BY <2>1, <2>2, ContextAssumption
  <2> QED
    BY <2>1, <2>3, <2>4
<1>6. TypeOK'
  BY <1>1, <1>3, <1>5 DEF TypeOK, IInv, Code
<1> QED
  BY <1>1, <1>2, <1>3, <1>4, <1>6 DEF IInv

(* kernelMain enables interrupts and goes on.                              *)
LEMMA ActivateKeeps ==
  ASSUME IInv, Activate
  PROVE  IInv'
<1>1. /\ pc = "boot" /\ pc' = "run"
      /\ UNCHANGED <<taskVars, stack, cpu, number, frame, printed, left>>
  BY DEF Activate
<1>2. Runs(chosen[1]) /\ chosen' = chosen /\ cpu.eip \in Code
  BY <1>1, RunningIs DEF taskVars, IInv, TypeOK, Code
<1>3. Runs(chosen[1])'
  BY <1>1, <1>2 DEF Runs, Returns, Base, Code, Top
<1> QED
  BY <1>1, <1>2, <1>3, CodeKeeps DEF IInv

(* The registers after a step of code.                                     *)
LEMMA CpuChanges ==
  ASSUME cpu = Cpu(cpu.general, cpu.eip, cpu.cs, cpu.eflags, <<chosen[1], Top>>)
  PROVE  /\ \A r, a : [cpu EXCEPT !.general = r, !.eip = a]
                       = Cpu(r, a, cpu.cs, cpu.eflags, <<chosen[1], Top>>)
         /\ \A a : [cpu EXCEPT !.eip = a, !.esp[2] = @ - 1]
                    = Cpu(cpu.general, a, cpu.cs, cpu.eflags, <<chosen[1], Top - 1>>)
         /\ \A a : [cpu EXCEPT !.eip = a, !.esp[2] = @ + 1]
                    = Cpu(cpu.general, a, cpu.cs, cpu.eflags, <<chosen[1], Top + 1>>)
         /\ [cpu EXCEPT !.esp[2] = @ - 11]
               = Cpu(cpu.general, cpu.eip, cpu.cs, cpu.eflags, <<chosen[1], Top - 11>>)
<1> DEFINE g == cpu.general   e == cpu.eip   s == cpu.cs   f == cpu.eflags
           c == chosen[1]   i == Top
<1>1. cpu = [general |-> g, eip |-> e, cs |-> s, eflags |-> f, esp |-> <<c, i>>]
  BY DEF Cpu
<1> HIDE DEF g, e, s, f, c, i
<1>2. \A j : [<<c, i>> EXCEPT ![2] = j] = <<c, j>>
  OBVIOUS
<1>3. /\ DOMAIN cpu = {"general", "eip", "cs", "eflags", "esp"}
      /\ cpu.general = g /\ cpu.eip = e /\ cpu.cs = s /\ cpu.eflags = f
      /\ cpu.esp = <<c, i>> /\ cpu.esp[2] = i
  BY <1>1 DEF g, e, s, f, c, i
<1>4. ASSUME NEW a, NEW p
      PROVE  [cpu EXCEPT !.eip = a, !.esp = p] = Cpu(g, a, s, f, p)
  <2>1. [cpu EXCEPT !.eip = a, !.esp = p]
          = [y \in DOMAIN cpu |-> IF y = "esp" THEN p ELSE IF y = "eip" THEN a ELSE cpu[y]]
    BY <1>3
  <2> QED
    BY <1>3, <2>1 DEF Cpu
<1>5. ASSUME NEW r, NEW a
      PROVE  [cpu EXCEPT !.general = r, !.eip = a] = Cpu(r, a, s, f, <<c, i>>)
  <2>1. [cpu EXCEPT !.general = r, !.eip = a]
          = [y \in DOMAIN cpu |-> IF y = "eip" THEN a ELSE IF y = "general" THEN r ELSE cpu[y]]
    BY <1>3
  <2> QED
    BY <1>3, <2>1 DEF Cpu
<1>6. [cpu EXCEPT !.esp[2] = @ - 11] = Cpu(g, e, s, f, <<c, i - 11>>)
  <2>1. [cpu EXCEPT !.esp[2] = @ - 11] = [cpu EXCEPT !.esp = <<c, i - 11>>]
    BY <1>2, <1>3
  <2> QED
    BY <1>1, <2>1 DEF Cpu
<1>7. ASSUME NEW a
      PROVE  [cpu EXCEPT !.eip = a, !.esp[2] = @ - 1] = Cpu(g, a, s, f, <<c, i - 1>>)
  <2>1. [cpu EXCEPT !.eip = a, !.esp[2] = @ - 1] = [cpu EXCEPT !.eip = a, !.esp = <<c, i - 1>>]
    BY <1>2, <1>3
  <2> QED
    BY <1>4, <2>1
<1>8. ASSUME NEW a
      PROVE  [cpu EXCEPT !.eip = a, !.esp[2] = @ + 1] = Cpu(g, a, s, f, <<c, i + 1>>)
  <2>1. [cpu EXCEPT !.eip = a, !.esp[2] = @ + 1] = [cpu EXCEPT !.eip = a, !.esp = <<c, i + 1>>]
    BY <1>2, <1>3
  <2> QED
    BY <1>4, <2>1
<1> QED
  BY <1>5, <1>6, <1>7, <1>8 DEF g, e, s, f, c, i

(* Computing changes neither esp nor the stack.                            *)
LEMMA WorkKeeps ==
  ASSUME IInv, NEW r \in Registers, NEW a \in Addresses, Work(r, a)
  PROVE  IInv'
<1>1. /\ pc = "run" /\ cpu' = [cpu EXCEPT !.general = r, !.eip = a]
      /\ UNCHANGED <<taskVars, stack, pc, number, frame, printed, left>>
  BY DEF Work
<1>2. Runs(chosen[1]) /\ chosen' = chosen
  BY <1>1, RunningIs DEF taskVars
<1>3. r = [x \in General |-> r[x]]
  BY ContextAssumption
<1>4. cpu' = Cpu(r, a, cpu.cs, cpu.eflags, <<chosen[1], Top>>)
  <2>1. cpu = Cpu(cpu.general, cpu.eip, cpu.cs, cpu.eflags, <<chosen[1], Top>>)
    BY <1>1, RunningIs
  <2>2. [cpu EXCEPT !.general = r, !.eip = a]
          = Cpu(r, a, cpu.cs, cpu.eflags, <<chosen[1], Top>>)
    BY <2>1, CpuChanges
  <2> QED
    BY <1>1, <2>2
<1>5. /\ cpu'.general = r /\ cpu'.eip = a /\ cpu'.cs = cpu.cs
      /\ cpu'.eflags = cpu.eflags /\ Top' = Top
  BY <1>4 DEF Cpu, Top
<1>6. Runs(chosen[1])'
  BY <1>1, <1>2, <1>3, <1>4, <1>5 DEF Runs, Returns, Base, Code
<1> QED
  BY <1>1, <1>5, <1>6, CodeKeeps DEF IInv, Code

(* The words a push leaves on the stack.                                   *)
LEMMA PushedIs ==
  ASSUME NEW ws, NEW n \in Nat, Len(ws) = n, DOMAIN stack = Contexts,
         Running \in Contexts, Top \in 1 .. Depth, stack' = Pushed(ws)
  PROVE  /\ DOMAIN stack' = Contexts
         /\ \A c \in Contexts : c # Running => stack'[c] = stack[c]
         /\ \A i \in 1 .. Depth :
              stack'[Running][i] = IF i \in Top - n .. Top - 1 THEN ws[Top - i]
                                   ELSE stack[Running][i]
BY DEF Pushed

(* What is left of a stack whose lower words are forgotten.                *)
LEMMA DroppedIs ==
  ASSUME NEW c \in Contexts, NEW i \in Int, DOMAIN stack = Contexts,
         stack' = Dropped(c, i)
  PROVE  /\ DOMAIN stack' = Contexts
         /\ \A d \in Contexts : d # c => stack'[d] = stack[d]
         /\ \A k \in 1 .. Depth : k >= i => stack'[c][k] = stack[c][k]
BY DEF Dropped

(* A call pushes a code address, and stays clear of the stack's end.       *)
LEMMA CallKeeps ==
  ASSUME IInv, NEW a \in Addresses, Call(a)
  PROVE  IInv'
<1>1. /\ pc = "run" /\ Top > 15 /\ stack' = Pushed(<<cpu.eip>>)
      /\ cpu' = [cpu EXCEPT !.eip = a, !.esp[2] = @ - 1]
      /\ UNCHANGED <<taskVars, pc, number, frame, printed, left>>
  BY DEF Call
<1>2. /\ Runs(chosen[1]) /\ chosen' = chosen /\ Running = chosen[1]
      /\ chosen[1] \in Contexts /\ cpu.esp = <<chosen[1], Top>>
      /\ Top \in 12 .. Base(chosen[1]) /\ Base(chosen[1]) \in 12 .. Depth
  BY <1>1, RunningIs DEF taskVars
<1>3. cpu' = Cpu(cpu.general, a, cpu.cs, cpu.eflags, <<chosen[1], Top - 1>>)
  <2>1. cpu = Cpu(cpu.general, cpu.eip, cpu.cs, cpu.eflags, <<chosen[1], Top>>)
    BY <1>1, RunningIs
  <2>2. [cpu EXCEPT !.eip = a, !.esp[2] = @ - 1]
          = Cpu(cpu.general, a, cpu.cs, cpu.eflags, <<chosen[1], Top - 1>>)
    BY <2>1, CpuChanges
  <2> QED
    BY <1>1, <2>2
<1>4. /\ cpu'.general = cpu.general /\ cpu'.eip = a /\ cpu'.cs = cpu.cs
      /\ cpu'.eflags = cpu.eflags /\ Top' = Top - 1
  BY <1>3 DEF Cpu, Top
<1>5. cpu.general = [r \in General |-> cpu.general[r]]
  BY <1>2 DEF Runs, Cpu
<1>6. /\ DOMAIN stack' = Contexts
      /\ \A c \in Contexts : c # chosen[1] => stack'[c] = stack[c]
      /\ \A i \in 1 .. Depth :
           stack'[chosen[1]][i] = IF i = Top - 1 THEN cpu.eip
                                  ELSE stack[chosen[1]][i]
  <2>1. Len(<<cpu.eip>>) = 1 /\ Top \in 1 .. Depth /\ <<cpu.eip>>[1] = cpu.eip
    BY <1>2, ContextAssumption
  <2> DEFINE ws == <<cpu.eip>>
  <2>2. Len(ws) = 1 /\ ws[1] = cpu.eip /\ stack' = Pushed(ws)
    BY <1>1, <2>1
  <2> HIDE DEF ws
  <2>3. /\ DOMAIN stack' = Contexts
        /\ \A c \in Contexts : c # Running => stack'[c] = stack[c]
        /\ \A i \in 1 .. Depth :
             stack'[Running][i] = IF i \in Top - 1 .. Top - 1 THEN ws[Top - i]
                                  ELSE stack[Running][i]
    BY <1>2, <2>1, <2>2, PushedIs DEF IInv
  <2>4. \A i \in 1 .. Depth : /\ i \in Top - 1 .. Top - 1 <=> i = Top - 1
                              /\ i = Top - 1 => Top - i = 1
    BY <1>2, ContextAssumption
  <2> QED
    BY <1>2, <2>2, <2>3, <2>4
<1>7. \A k \in Top - 1 .. Base(chosen[1]) - 1 : stack'[chosen[1]][k] \in Code
  <2> SUFFICES ASSUME NEW k \in Top - 1 .. Base(chosen[1]) - 1
               PROVE  stack'[chosen[1]][k] \in Code
    OBVIOUS
  <2>1. k \in 1 .. Depth
    BY <1>1, <1>2, ContextAssumption
  <2>2. CASE k = Top - 1
    BY <1>6, <2>1, <2>2 DEF IInv, TypeOK, Code
  <2>3. CASE k # Top - 1
    <3>1. k \in Top .. Base(chosen[1]) - 1
      BY <1>2, <2>3
    <3> QED
      BY <1>2, <1>6, <2>1, <2>3, <3>1 DEF Runs, Returns
  <2> QED
    BY <2>2, <2>3
<1>8. Runs(chosen[1])'
  <2>1. Base(chosen[1])' = Base(chosen[1]) /\ Code' = Code
    BY <1>2 DEF Base, Code
  <2>2. Top - 1 \in 12 .. Base(chosen[1])
    BY <1>1, <1>2
  <2>3. Returns(chosen[1], Top)'
    BY <1>2, <1>4, <1>7, <2>1 DEF Returns
  <2>4. cpu' = Cpu([r \in General |-> cpu'.general[r]], cpu'.eip, cpu'.cs, cpu'.eflags,
                   <<chosen[1], Top'>>)
    BY <1>3, <1>4, <1>5
  <2> QED
    BY <1>2, <1>4, <2>1, <2>2, <2>3, <2>4 DEF Runs
<1> QED
  BY <1>1, <1>4, <1>6, <1>8, CodeKeeps DEF Code

(* A return takes a code address from the stack.                           *)
LEMMA RetKeeps ==
  ASSUME IInv, Ret
  PROVE  IInv'
<1>1. /\ pc = "run" /\ Top < Base(Running) /\ stack' = Dropped(Running, Top + 1)
      /\ cpu' = [cpu EXCEPT !.eip = stack[Running][Top], !.esp[2] = @ + 1]
      /\ UNCHANGED <<taskVars, pc, number, frame, printed, left>>
  BY DEF Ret, Base
<1>2. /\ Runs(chosen[1]) /\ chosen' = chosen /\ Running = chosen[1]
      /\ chosen[1] \in Contexts /\ cpu.esp = <<chosen[1], Top>>
      /\ Top \in 12 .. Base(chosen[1]) /\ Base(chosen[1]) \in 12 .. Depth
  BY <1>1, RunningIs DEF taskVars
<1> DEFINE a == stack[chosen[1]][Top]
<1>3. cpu' = Cpu(cpu.general, a, cpu.cs, cpu.eflags, <<chosen[1], Top + 1>>)
  <2> HIDE DEF a
  <2>1. cpu = Cpu(cpu.general, cpu.eip, cpu.cs, cpu.eflags, <<chosen[1], Top>>)
    BY <1>1, RunningIs
  <2>2. [cpu EXCEPT !.eip = a, !.esp[2] = @ + 1]
          = Cpu(cpu.general, a, cpu.cs, cpu.eflags, <<chosen[1], Top + 1>>)
    BY <2>1, CpuChanges
  <2>3. cpu' = [cpu EXCEPT !.eip = a, !.esp[2] = @ + 1]
    BY <1>1, <1>2 DEF a
  <2> QED
    BY <2>2, <2>3
<1>4. a \in Code
  BY <1>1, <1>2 DEF Runs, Returns
<1> HIDE DEF a
<1>5. /\ cpu'.general = cpu.general /\ cpu'.eip = a /\ cpu'.cs = cpu.cs
      /\ cpu'.eflags = cpu.eflags /\ Top' = Top + 1
  BY <1>3 DEF Cpu, Top
<1>6. cpu.general = [r \in General |-> cpu.general[r]]
  BY <1>2 DEF Runs, Cpu
<1>7. /\ DOMAIN stack' = Contexts
      /\ \A c \in Contexts : c # chosen[1] => stack'[c] = stack[c]
      /\ \A k \in 1 .. Depth : k >= Top + 1 => stack'[chosen[1]][k] = stack[chosen[1]][k]
  BY <1>1, <1>2, DroppedIs DEF IInv
<1>8. Runs(chosen[1])'
  <2>1. Base(chosen[1])' = Base(chosen[1]) /\ Code' = Code
    BY <1>2 DEF Base, Code
  <2>2. Top + 1 \in 12 .. Base(chosen[1])
    BY <1>1, <1>2
  <2>3. \A k \in Top + 1 .. Base(chosen[1]) - 1 : k \in 1 .. Depth /\ k >= Top + 1
    BY <1>2, ContextAssumption
  <2>4. \A k \in Top + 1 .. Base(chosen[1]) - 1 : stack'[chosen[1]][k] \in Code
    BY <1>2, <1>7, <2>3 DEF Runs, Returns
  <2>5. Returns(chosen[1], Top)'
    BY <1>2, <1>5, <2>1, <2>4 DEF Returns
  <2>6. cpu' = Cpu([r \in General |-> cpu'.general[r]], cpu'.eip, cpu'.cs, cpu'.eflags,
                   <<chosen[1], Top'>>)
    BY <1>3, <1>5, <1>6
  <2> QED
    BY <1>2, <1>5, <2>1, <2>2, <2>5, <2>6 DEF Runs
<1> QED
  BY <1>1, <1>4, <1>5, <1>7, <1>8, CodeKeeps

-----------------------------------------------------------------------------
(* Interrupts.                                                             *)

(* An interrupt leaves a frame with everything the processor held.         *)
LEMMA InterruptKeeps ==
  ASSUME Exceptions \subseteq WithErrorCode, IInv, NEW n, Interrupt(n)
  PROVE  IInv'
<1>1. /\ pc = "run" /\ pc' = "handle" /\ stack' = Pushed(Saved(n))
      /\ left' = [left EXCEPT ![Running] = cpu]
      /\ cpu' = [cpu EXCEPT !.esp[2] = @ - 11]
      /\ UNCHANGED <<taskVars, frame, printed>>
  BY SavedIs DEF Interrupt
<1> PICK c, top : c = chosen[1] /\ top = Top
  OBVIOUS
<1> DEFINE f == <<c, top - 11>>
<1>2. /\ Runs(c) /\ chosen' = chosen /\ Running = c
      /\ c \in Contexts /\ cpu.esp = <<c, top>>
      /\ top \in 12 .. Base(c) /\ Base(c) \in 12 .. Depth
      /\ cpu.general = [r \in General |-> cpu.general[r]]
      /\ cpu = Cpu(cpu.general, cpu.eip, cpu.cs, cpu.eflags, <<c, top>>)
  BY <1>1, RunningIs DEF taskVars
<1>3. cpu' = Cpu(cpu.general, cpu.eip, cpu.cs, cpu.eflags, f)
  BY <1>1, <1>2, CpuChanges
<1>4. cpu'.esp = f /\ cpu'.eip = cpu.eip
  BY <1>3 DEF Cpu
<1>5. /\ DOMAIN stack' = Contexts
      /\ \A d \in Contexts : d # c => stack'[d] = stack[d]
      /\ \A i \in 1 .. Depth :
           stack'[c][i] = IF i \in top - 11 .. top - 1 THEN Saved(n)[top - i]
                          ELSE stack[c][i]
  <2>1. Len(Saved(n)) = 11 /\ top \in 1 .. Depth
    BY <1>2, SavedIs, ContextAssumption
  <2> DEFINE ws == Saved(n)
  <2>2. /\ Len(ws) = 11 /\ stack' = Pushed(ws) /\ Running = c /\ Top = top
        /\ 11 \in Nat /\ Running \in Contexts /\ Top \in 1 .. Depth
        /\ DOMAIN stack = Contexts
    BY <1>1, <1>2, <2>1 DEF IInv
  <2> HIDE DEF ws
  <2>3. /\ DOMAIN stack' = Contexts
        /\ \A d \in Contexts : d # Running => stack'[d] = stack[d]
        /\ \A i \in 1 .. Depth :
             stack'[Running][i] = IF i \in Top - 11 .. Top - 1 THEN ws[Top - i]
                                  ELSE stack[Running][i]
    BY <2>2, PushedIs
  <2> QED
    BY <2>2, <2>3 DEF ws
<1>6. DOMAIN left' = Contexts /\ left'[c] = cpu
      /\ \A d \in Contexts : d # c => left'[d] = left[d]
  BY <1>1, <1>2 DEF IInv
<1>7. f[1] = c /\ f[2] = top - 11 /\ f[2] + 11 = top /\ f[2] \in 1 .. Base(c) - 11
  BY <1>2, ContextAssumption
<1>8. \A k \in 0 .. 10 : stack'[c][f[2] + k] = Saved(n)[11 - k]
  <2> SUFFICES ASSUME NEW k \in 0 .. 10
               PROVE  stack'[c][f[2] + k] = Saved(n)[11 - k]
    OBVIOUS
  <2>1. /\ f[2] + k \in 1 .. Depth /\ f[2] + k \in top - 11 .. top - 1
        /\ top - (f[2] + k) = 11 - k
    BY <1>2, <1>7, ContextAssumption
  <2> HIDE DEF f
  <2> QED
    BY <1>5, <2>1
<1>9. Restored(f)' = cpu
  <2>1. /\ Saved(n)[3] = cpu.eip /\ Saved(n)[2] = cpu.cs /\ Saved(n)[1] = cpu.eflags
        /\ \A k \in 1 .. 7 : Saved(n)[4 + k] = cpu.general[PushOrder[k]]
    BY SavedIs
  <2>2. /\ stack'[c][f[2] + 8] = cpu.eip /\ stack'[c][f[2] + 9] = cpu.cs
        /\ stack'[c][f[2] + 10] = cpu.eflags
    BY <1>8, <2>1
  <2>3. ASSUME NEW r \in General
        PROVE  stack'[c][f[2] + (Slot(r) - 1)] = cpu.general[r]
    <3>1. Slot(r) \in 1 .. 7 /\ PopOrder[Slot(r)] = r /\ PushOrder[8 - Slot(r)] = r
      BY PopsUndoPushes
    <3>2. /\ Slot(r) - 1 \in 0 .. 10 /\ 11 - (Slot(r) - 1) = 4 + (8 - Slot(r))
          /\ 8 - Slot(r) \in 1 .. 7
      BY <3>1
    <3>3. stack'[c][f[2] + (Slot(r) - 1)] = Saved(n)[4 + (8 - Slot(r))]
      BY <1>8, <3>2
    <3> QED
      BY <2>1, <3>1, <3>2, <3>3
  <2>4. [r \in General |-> stack'[c][f[2] + (Slot(r) - 1)]] = cpu.general
    BY <1>2, <2>3
  <2>5. Restored(f)' = Cpu([r \in General |-> stack'[c][f[2] + (Slot(r) - 1)]],
                           stack'[c][f[2] + 8], stack'[c][f[2] + 9],
                           stack'[c][f[2] + 10], <<c, f[2] + 11>>)
    BY <1>7 DEF Restored, Slot
  <2> QED
    BY <1>2, <1>7, <2>2, <2>4, <2>5
<1>10. Returns(c, f[2] + 11)'
  <2>1. \A k \in top .. Base(c) - 1 : k \in 1 .. Depth /\ ~ k \in top - 11 .. top - 1
    BY <1>2, ContextAssumption
  <2>2. \A k \in top .. Base(c) - 1 : stack'[c][k] \in Code
    BY <1>2, <1>5, <2>1 DEF Runs, Returns
  <2> QED
    BY <1>7, <2>2 DEF Returns, Base, Code
<1>11. Suspended(c, f)'
  BY <1>6, <1>7, <1>9, <1>10 DEF Suspended, Base, Code, IInv, TypeOK
<1>12. TurnInOrder'
  BY <1>1, <1>2, <1>4, <1>11 DEF TurnInOrder
<1>13. WaitingInOrder'
  BY <1>1, <1>5, <1>6, WaitingStays DEF IInv
<1>14. Table!Inv' /\ Scheduler!TypeOK'
  BY <1>1, TableStays, TypesOfTable DEF IInv
<1>15. TypeOK'
  <2>1. f \in Contexts \X (1 .. Depth)
    BY <1>2, <1>7, ContextAssumption
  <2> QED
    BY <1>1, <1>4, <1>14, <2>1 DEF IInv, TypeOK
<1> QED
  BY <1>5, <1>6, <1>12, <1>13, <1>14, <1>15 DEF IInv

(* What the handler finds: the frame of the context it interrupted.        *)
LEMMA HandlerIs ==
  ASSUME IInv, pc = "handle"
  PROVE  /\ Suspended(chosen[1], cpu.esp) /\ Running = chosen[1]
         /\ chosen[1] \in Contexts /\ cpu.esp = <<chosen[1], Top>>
         /\ Top \in 1 .. Depth
         /\ Field("eax") = left[Running].general["eax"]
         /\ Field("ebx") = left[Running].general["ebx"]
<1>1. chosen[1] \in Contexts
  BY TurnIs DEF IInv
<1>2. Suspended(chosen[1], cpu.esp)
  BY DEF IInv, TurnInOrder
<1>3. cpu.esp = <<chosen[1], Top>> /\ Running = chosen[1]
  BY <1>2 DEF Suspended, Running, Top
<1>4. Top \in 1 .. Base(chosen[1]) - 11 /\ Base(chosen[1]) \in 12 .. Depth
  BY <1>1, <1>2, BaseIs DEF Suspended, Top
<1>5. Top \in 1 .. Depth
  BY <1>4, ContextAssumption
<1>6. left[Running] = Restored(cpu.esp)
  BY <1>2, <1>3 DEF Suspended
<1>7. left[Running].general
        = [r \in General |-> stack[Running][Top + (Slot(r) - 1)]]
  BY <1>6 DEF Restored, Cpu, Running, Top
<1>8. "eax" \in General /\ "ebx" \in General
  BY DEF General
<1>9. /\ left[Running].general["eax"] = stack[Running][Top + (1 - 1)]
      /\ left[Running].general["ebx"] = stack[Running][Top + (2 - 1)]
  BY <1>7, <1>8, FieldsAre
<1>10. Top + (1 - 1) = Top - 1 + 1 /\ Top + (2 - 1) = Top - 1 + 2
  BY <1>5
<1> QED
  BY <1>1, <1>2, <1>3, <1>5, <1>9, <1>10, FieldsAre

(* The handler goes on with its own frame or with the frame of the task    *)
(* whose turn comes, and what it forgets lies below its frame.             *)
LEMMA HandlerKeeps ==
  ASSUME IInv, DoHandleInterrupt
  PROVE  /\ IInv'
         /\ Scheduler!Tick \/ UNCHANGED taskVars
<1>1. /\ pc = "handle" /\ pc' = "resume" /\ stack' = Dropped(Running, Top)
      /\ UNCHANGED <<cpu, number, left>>
  BY DEF DoHandleInterrupt
<1> PICK c, f : c = chosen[1] /\ f = cpu.esp
  OBVIOUS
<1>2. /\ Suspended(c, f) /\ Running = c /\ c \in Contexts
      /\ f = <<c, Top>> /\ Top \in 1 .. Depth
  BY <1>1, HandlerIs
<1>3. /\ DOMAIN stack' = Contexts
      /\ \A d \in Contexts : d # c => stack'[d] = stack[d]
      /\ \A k \in 1 .. Depth : k >= Top => stack'[c][k] = stack[c][k]
  <2>1. /\ Running \in Contexts /\ Top \in Int /\ DOMAIN stack = Contexts
        /\ stack' = Dropped(Running, Top) /\ Running = c
    BY <1>1, <1>2 DEF IInv
  <2> QED
    BY <2>1, DroppedIs
<1>4. Suspended(c, f)'
  <2>1. f[2] = Top
    BY <1>2
  <2>2. \A k \in f[2] .. Depth : stack'[c][k] = stack[c][k]
    BY <1>2, <1>3, <2>1, ContextAssumption
  <2> QED
    BY <1>1, <1>2, <2>2, SuspendedStays
<1>5. ASSUME NEW t \in Tasks, t # c
      PROVE  \A g : g = pCpustate[t] => Suspended(t, g)'
  <2> SUFFICES ASSUME NEW g, g = pCpustate[t]
               PROVE  Suspended(t, g)'
    OBVIOUS
  <2>1. Suspended(t, g) /\ t \in Contexts
    BY <1>5 DEF IInv, WaitingInOrder, Contexts
  <2>2. left'[t] = left[t] /\ stack'[t] = stack[t]
    BY <1>1, <1>3, <1>5, <2>1
  <2> QED
    BY <2>1, <2>2, SuspendedStays
<1>6. \A d \in Contexts : \A g : Suspended(d, g)' => g \in Contexts \X (1 .. Depth)
  <2> SUFFICES ASSUME NEW d \in Contexts, NEW g, Suspended(d, g)'
               PROVE  g \in Contexts \X (1 .. Depth)
    OBVIOUS
  <2>1. g = <<d, g[2]>> /\ g[2] \in 1 .. Base(d) - 11 /\ Base(d) \in 12 .. Depth
    BY BaseIs DEF Suspended, Base
  <2>2. g[2] \in 1 .. Depth
    BY <2>1, ContextAssumption
  <2> QED
    BY <2>1, <2>2
<1>7. ASSUME Table!Inv', frame' \in Contexts \X (1 .. Depth),
             TurnInOrder', WaitingInOrder'
      PROVE  IInv'
  <2>1. TypeOK'
    BY <1>1, <1>7, TypesOfTable DEF IInv, TypeOK
  <2> QED
    BY <1>1, <1>3, <1>7, <2>1 DEF IInv
<1>8. CASE number = TimerNumber
  <2>1. Scheduler!Schedule(<<c, Top>>) /\ frame' = chosen'
    BY <1>2, <1>8 DEF DoHandleInterrupt
  <2> PICK i : i = Top
    OBVIOUS
  <2>2. i \in 1 .. Depth /\ f = <<c, i>> /\ Scheduler!Schedule(<<chosen[1], i>>)
    BY <1>2, <2>1
  <2> PICK d, g : d = chosen'[1] /\ g = chosen'
    OBVIOUS
  <2>3. /\ Table!Inv' /\ Scheduler!Tick
        /\ g = IF d = c THEN f ELSE pCpustate[d]
        /\ d # c => d \in Tasks
        /\ \A t \in Tasks : t # d =>
             pCpustate'[t] = IF t = c THEN f ELSE pCpustate[t]
    BY <2>2, ScheduleIs DEF IInv
  <2>4. Suspended(d, g)'
    BY <1>4, <1>5, <2>3
  <2>5. frame' \in Contexts \X (1 .. Depth)
    BY <1>2, <1>6, <2>1, <2>3, <2>4 DEF Contexts
  <2>6. TurnInOrder'
    BY <1>1, <2>1, <2>4 DEF TurnInOrder
  <2>7. ASSUME NEW t \in Tasks, t # d
        PROVE  Suspended(t, pCpustate[t])'
    <3> PICK s : s = pCpustate'[t]
      OBVIOUS
    <3>1. s = IF t = c THEN f ELSE pCpustate[t]
      BY <2>3, <2>7
    <3>2. Suspended(t, s)'
      BY <1>4, <1>5, <3>1
    <3> QED
      BY <3>2
  <2>8. WaitingInOrder'
    BY <2>7 DEF WaitingInOrder
  <2> QED
    BY <1>7, <2>3, <2>5, <2>6, <2>8
<1>9. CASE number # TimerNumber
  <2>1. UNCHANGED taskVars /\ frame' = f
    BY <1>9 DEF DoHandleInterrupt
  <2>2. chosen'[1] = c /\ Table!Inv'
    BY <2>1, TableStays DEF taskVars, IInv
  <2>3. TurnInOrder'
    BY <1>1, <1>4, <2>1, <2>2 DEF TurnInOrder
  <2>4. WaitingInOrder'
    BY <1>1, <1>3, <2>1, WaitingStays DEF IInv
  <2> QED
    BY <1>2, <1>4, <1>6, <1>7, <2>1, <2>2, <2>3, <2>4
<1> QED
  BY <1>8, <1>9

(* The end of int_bottom puts back what was left.                          *)
LEMMA ResumeKeeps ==
  ASSUME IInv, Resume
  PROVE  IInv' /\ cpu' = left[frame[1]]
<1> PICK c, f : c = chosen[1] /\ f = frame
  OBVIOUS
<1>1. /\ pc = "resume" /\ pc' = "run" /\ cpu' = Restored(f)
      /\ stack' = Dropped(f[1], f[2] + 11)
      /\ UNCHANGED <<taskVars, frame, printed, left>>
  BY DEF Resume, Restored, Slot
<1>2. Suspended(c, f) /\ c \in Contexts /\ chosen' = chosen
  BY <1>1, TurnIs DEF IInv, TurnInOrder, taskVars
<1>3. /\ f = <<c, f[2]>> /\ f[1] = c /\ f[2] \in 1 .. Base(c) - 11
      /\ Base(c) \in 12 .. Depth /\ left[c] = Restored(f)
      /\ left[c].eip \in Code /\ Returns(c, f[2] + 11)
  BY <1>2, BaseIs DEF Suspended
<1>4. cpu' = left[frame[1]] /\ cpu'.eip \in Code
  BY <1>1, <1>3
<1>5. /\ DOMAIN stack' = Contexts
      /\ \A d \in Contexts : d # c => stack'[d] = stack[d]
      /\ \A k \in 1 .. Depth : k >= f[2] + 11 => stack'[c][k] = stack[c][k]
  <2>1. DOMAIN stack = Contexts /\ f[2] + 11 \in Int /\ stack' = Dropped(c, f[2] + 11)
    BY <1>1, <1>3 DEF IInv
  <2> QED
    BY <1>2, <2>1, DroppedIs
<1>6. Runs(c)'
  <2> DEFINE g == [r \in General |-> stack[f[1]][f[2] + (Slot(r) - 1)]]
  <2>1. cpu' = Cpu(g, stack[f[1]][f[2] + 8], stack[f[1]][f[2] + 9],
                   stack[f[1]][f[2] + 10], <<c, f[2] + 11>>)
    BY <1>1, <1>3 DEF Restored
  <2>2. g = [r \in General |-> g[r]]
    OBVIOUS
  <2> HIDE DEF g
  <2>3. /\ cpu'.general = g /\ Top' = f[2] + 11
        /\ cpu' = Cpu([r \in General |-> cpu'.general[r]], cpu'.eip, cpu'.cs,
                      cpu'.eflags, <<c, Top'>>)
    BY <2>1, <2>2 DEF Cpu, Top
  <2>4. f[2] + 11 \in 12 .. Base(c) /\ Base(c)' = Base(c)
    BY <1>3 DEF Base
  <2>5. Returns(c, f[2] + 11)'
    <3>1. \A k \in f[2] + 11 .. Base(c) - 1 : k \in 1 .. Depth /\ k >= f[2] + 11
      BY <1>3, ContextAssumption
    <3>2. \A k \in f[2] + 11 .. Base(c) - 1 : stack'[c][k] \in Code
      BY <1>3, <1>5, <3>1 DEF Returns
    <3> QED
      BY <3>2 DEF Returns, Base, Code
  <2>6. Returns(c, Top)'
    BY <2>3, <2>5 DEF Returns
  <2> QED
    BY <2>3, <2>4, <2>6 DEF Runs
<1> QED
  BY <1>1, <1>2, <1>4, <1>5, <1>6, CodeKeeps

-----------------------------------------------------------------------------
(* The theorems.                                                           *)

(* Every step keeps the invariant.                                         *)
LEMMA Keeps ==
  ASSUME Exceptions \subseteq WithErrorCode, IInv, [Next]_vars
  PROVE  IInv'
<1>1. CASE UNCHANGED vars
  <2>1. UNCHANGED <<taskVars, stack, cpu, pc, frame, left>>
    BY <1>1 DEF vars
  <2>2. Table!Inv' /\ Scheduler!TypeOK'
    BY <2>1, TableStays, TypesOfTable DEF IInv
  <2>3. chosen' = chosen
    BY <2>1 DEF taskVars
  <2>4. TurnInOrder'
    BY <2>1, <2>3, TurnStays, TurnIs DEF IInv, TypeOK
  <2>5. WaitingInOrder'
    BY <2>1, WaitingStays DEF IInv
  <2> QED
    BY <2>1, <2>2, <2>4, <2>5 DEF IInv, TypeOK
<1>2. ASSUME NEW t \in Tasks, AddTask(t) PROVE IInv'
  BY <1>2, AddTaskKeeps
<1>3. CASE Activate
  BY <1>3, ActivateKeeps
<1>4. ASSUME NEW r \in Registers, NEW a \in Addresses, Work(r, a) PROVE IInv'
  BY <1>4, WorkKeeps
<1>5. ASSUME NEW a \in Addresses, Call(a) PROVE IInv'
  BY <1>5, CallKeeps
<1>6. CASE Ret
  BY <1>6, RetKeeps
<1>7. ASSUME NEW n, Interrupt(n) PROVE IInv'
  BY <1>7, InterruptKeeps
<1>8. CASE DoHandleInterrupt
  BY <1>8, HandlerKeeps
<1>9. CASE Resume
  BY <1>9, ResumeKeeps
<1> QED
  BY <1>1, <1>2, <1>3, <1>4, <1>5, <1>6, <1>7, <1>8, <1>9 DEF Next

(* So it holds in every reachable state.                                   *)
LEMMA Invariance == Exceptions \subseteq WithErrorCode => (Spec => []IInv)
<1> SUFFICES ASSUME Exceptions \subseteq WithErrorCode
             PROVE  Spec => []IInv
  OBVIOUS
<1>1. Init => IInv
  BY Starts
<1>2. IInv /\ [Next]_vars => IInv'
  BY Keeps
<1> QED
  BY <1>1, <1>2, PTL DEF Spec

(* No function and no interrupt returns to anything but code, and esp      *)
(* never leaves the stack of a context.                                    *)
THEOREM NothingGoesAstray ==
  Exceptions \subseteq WithErrorCode => (Spec => []TypeOK)
<1>1. IInv => TypeOK
  BY DEF IInv
<1> QED
  BY <1>1, Invariance, PTL

(* However many turns of other tasks, calls and interrupts lie in between, *)
(* a context goes on with every register it had when it was interrupted.   *)
THEOREM InterruptsAreInvisible ==
  Exceptions \subseteq WithErrorCode => (Spec => Transparent)
<1>1. IInv /\ [Next]_vars => [pc = "resume" => cpu' = left[frame[1]]]_vars
  <2> SUFFICES ASSUME IInv, Next, pc = "resume"
               PROVE  cpu' = left[frame[1]]
    OBVIOUS
  <2>1. Resume
    BY DEF Next, AddTask, Activate, Work, Call, Ret, Interrupt, DoHandleInterrupt
  <2> QED
    BY <2>1, ResumeKeeps
<1> QED
  BY <1>1, Invariance, PTL DEF Spec, Transparent

(* A write system call writes the string its caller named in ebx.          *)
THEOREM HandlerSeesItsCaller ==
  Exceptions \subseteq WithErrorCode => (Spec => SyscallSeesCaller)
<1> DEFINE caller == left[Running].general
           Seen == printed' = IF number = SyscallNumber /\ caller["eax"] = 4
                              THEN caller["ebx"] ELSE printed
<1>1. IInv /\ [Next]_vars => [pc = "handle" => Seen]_vars
  <2> SUFFICES ASSUME IInv, Next, pc = "handle"
               PROVE  Seen
    OBVIOUS
  <2>1. DoHandleInterrupt
    BY DEF Next, AddTask, Activate, Work, Call, Ret, Interrupt, Resume
  <2> QED
    BY <2>1, HandlerIs DEF DoHandleInterrupt, Printed
<1> QED
  BY <1>1, Invariance, PTL DEF Spec, SyscallSeesCaller

(* Every timer interrupt, and nothing else, is a tick of TaskManager.      *)
THEOREM PreemptionIsTaskManager ==
  Exceptions \subseteq WithErrorCode => (Spec => ImplementsTaskManager)
<1>1. Init => Scheduler!Init
  <2> SUFFICES ASSUME Init PROVE Scheduler!Init
    OBVIOUS
  <2>1. chosen \in [c \in Contexts |-> {<<c, i>> : i \in 1 .. Depth}][Main]
    BY ContextAssumption DEF Init, Contexts
  <2> QED
    BY <2>1 DEF Init, Scheduler!Init
<1>2. IInv /\ [Next]_vars => [Scheduler!Next]_(Scheduler!vars)
  <2> SUFFICES ASSUME IInv, [Next]_vars
               PROVE  [Scheduler!Next]_(Scheduler!vars)
    OBVIOUS
  <2>1. UNCHANGED taskVars => UNCHANGED Scheduler!vars
    BY DEF taskVars, Scheduler!vars
  <2>2. ASSUME NEW t \in Tasks, AddTask(t) PROVE Scheduler!Next
    BY <2>2, AddTaskKeeps
  <2>3. CASE DoHandleInterrupt
    BY <2>1, <2>3, HandlerKeeps DEF Scheduler!Next
  <2>4. CASE UNCHANGED taskVars
    BY <2>1, <2>4
  <2> QED
    BY <2>2, <2>3, <2>4
    DEF Next, vars, Activate, Work, Call, Ret, Interrupt, Resume
<1> QED
  BY <1>1, <1>2, Invariance, PTL DEF Spec, ImplementsTaskManager, Scheduler!Spec
=============================================================================
