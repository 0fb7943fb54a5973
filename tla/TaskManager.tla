----------------------------- MODULE TaskManager -----------------------------
(***************************************************************************)
(* The scheduler: class TaskManager of src/src/multitasking.cpp.           *)
(*                                                                         *)
(* A context of execution is a task or kernelMain.  Interrupting one leaves*)
(* a CPUState on its stack; such a frame is known by its address, and      *)
(* Stack[c] holds the addresses of the frames context c can leave behind.  *)
(* Schedule is called with the frame of the context a tick interrupted and *)
(* returns the frame to go on with; esp is that frame, so the context that *)
(* runs is the one on whose stack esp lies.                                *)
(***************************************************************************)
EXTENDS Integers

CONSTANTS
  MaxTasks,   \* slots of ppTasks
  Tasks,      \* the Task objects
  Main,       \* kernelMain
  NoTask,     \* content of a slot that was never written
  Stack,      \* [context -> addresses of its frames]
  First       \* [task -> the frame its constructor builds]

Contexts == Tasks \cup {Main}

Frames == UNION {Stack[c] : c \in Contexts}

ASSUME TaskAssumption ==
  /\ MaxTasks \in Nat
  /\ Main \notin Tasks
  /\ NoTask \notin Tasks
  /\ First \in [Tasks -> Frames]
  /\ \A t \in Tasks : First[t] \in Stack[t]
  /\ \A c, d \in Contexts : c # d => Stack[c] \cap Stack[d] = {}

VARIABLES
  ppTasks,      \* the table of tasks, slots 0 .. MaxTasks-1
  numTasks,     \* slots in use
  currentTask,  \* index of the task that runs, -1 before the first switch
  pCpustate,    \* [task -> its saved frame]
  esp,          \* the frame the CPU went on with after the last tick
  interrupted   \* history: the frame the last tick found

vars == <<ppTasks, numTasks, currentTask, pCpustate, esp, interrupted>>

(* The context on whose stack frame f lies.                                *)
Owner(f) == CHOOSE c \in Contexts : f \in Stack[c]

-----------------------------------------------------------------------------

(* The tasks have been constructed; kernelMain runs.                       *)
Init ==
  /\ ppTasks = [i \in 0 .. MaxTasks - 1 |-> NoTask]
  /\ numTasks = 0
  /\ currentTask = -1
  /\ pCpustate = First
  /\ esp \in Stack[Main]
  /\ interrupted = esp

\* Mutant: the bound of the table is checked one too late.
AddTaskBeyond(t) ==
  /\ numTasks <= MaxTasks
  /\ ppTasks' = [i \in DOMAIN ppTasks |-> IF i = numTasks THEN t ELSE ppTasks[i]]
  /\ numTasks' = numTasks + 1
  /\ UNCHANGED <<currentTask, pCpustate, esp, interrupted>>

(* AddTask returned true.                                                  *)
AddTask(t) ==
  /\ numTasks < MaxTasks
  /\ ppTasks' = [ppTasks EXCEPT ![numTasks] = t]
  /\ numTasks' = numTasks + 1
  /\ UNCHANGED <<currentTask, pCpustate, esp, interrupted>>

\* Mutant: the index wraps around one slot early.
NextIndexEarly ==
  IF currentTask + 2 >= numTasks THEN 0 ELSE currentTask + 1

NextIndex ==
  IF currentTask + 1 >= numTasks THEN (currentTask + 1) % numTasks
                                 ELSE currentTask + 1

\* Mutants: the frame is saved after the index has moved; it is not saved.
SaveFrameLate(f) ==
  IF currentTask >= 0 THEN [pCpustate EXCEPT ![ppTasks[NextIndex]] = f]
                      ELSE pCpustate
SaveFrameNever(f) == pCpustate

(* Where the running task was interrupted is kept in its Task object; the  *)
(* context of kernelMain is not kept at all.                               *)
SaveFrame(f) ==
  IF currentTask >= 0 THEN [pCpustate EXCEPT ![ppTasks[currentTask]] = f]
                      ELSE pCpustate

Schedule(f) ==
  /\ interrupted' = f
  /\ UNCHANGED <<ppTasks, numTasks>>
  /\ IF numTasks <= 0
     THEN esp' = f /\ UNCHANGED <<currentTask, pCpustate>>
     ELSE /\ pCpustate' = SaveFrame(f)
          /\ currentTask' = NextIndex
          /\ esp' = SaveFrame(f)[ppTasks[NextIndex]]

(* The timer interrupts the context that runs, which leaves a frame.       *)
Tick == \E f \in Stack[Owner(esp)] : Schedule(f)

Next == Tick \/ \E t \in Tasks : AddTask(t)

Spec == Init /\ [][Next]_vars

(* The timer never stops.                                                  *)
FairSpec == Spec /\ WF_vars(Tick)

-----------------------------------------------------------------------------

Added == {ppTasks[i] : i \in 0 .. numTasks - 1}

(* Types.  The index always designates a slot in use, once a task runs.    *)
TypeOK ==
  /\ numTasks \in 0 .. MaxTasks
  /\ currentTask \in -1 .. numTasks - 1
  /\ ppTasks \in [0 .. MaxTasks - 1 -> Tasks \cup {NoTask}]
  /\ \A i \in 0 .. numTasks - 1 : ppTasks[i] \in Tasks
  /\ pCpustate \in [Tasks -> Frames]
  /\ {esp, interrupted} \subseteq Frames

(* A task's saved frame lies on its own stack: Schedule never resumes one  *)
(* task on the stack of another, nor kernelMain in place of a task.        *)
FramesAtHome == \A t \in Tasks : pCpustate[t] \in Stack[t]

(* The context that runs is the one currentTask designates.                *)
CurrentRuns ==
  IF currentTask = -1 THEN esp \in Stack[Main]
                      ELSE esp \in Stack[ppTasks[currentTask]]

OnOwnStack == FramesAtHome /\ CurrentRuns

(* Every task AddTask accepted has its turn again and again.               *)
EveryTaskRuns ==
  \A t \in Tasks : (t \in Added) ~> (t \in Added /\ esp \in Stack[t])

-----------------------------------------------------------------------------

Waiting == IF currentTask = -1 THEN numTasks ELSE numTasks - 1

Robin == INSTANCE RoundRobin WITH
  turns   <- [i \in 1 .. Waiting |-> ppTasks[(currentTask + i) % numTasks]],
  running <- IF currentTask = -1 THEN NoTask ELSE ppTasks[currentTask],
  resume  <- pCpustate,
  go      <- esp   \* interrupted <- interrupted

(* The table and the index that wraps around are a queue of tasks that     *)
(* take turns, each going on exactly where it was interrupted.             *)
ImplementsRoundRobin == Robin!Spec
=============================================================================
