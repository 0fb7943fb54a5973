-------------------------- MODULE TaskManager_proofs --------------------------
(***************************************************************************)
(* Proofs about TaskManager, for any number of slots, any tasks and any    *)
(* stacks: types, that no task is ever resumed on another's stack, and     *)
(* that the table with its index implements RoundRobin.                    *)
(***************************************************************************)
EXTENDS TaskManager, SequenceTheorems, TLAPS

-----------------------------------------------------------------------------

\* The index that wraps around.

(* A slot number below the number of slots is its own remainder.           *)
LEMMA ModOfSmall ==
  ASSUME NEW n \in Nat \ {0}, NEW x \in 0 .. n - 1
  PROVE  x % n = x
  OBVIOUS

(* One that went once around is reduced by one round.                      *)
LEMMA ModOfNext ==
  ASSUME NEW n \in Nat \ {0}, NEW x \in n .. 2 * n - 1
  PROVE  x % n = x - n
  OBVIOUS

(* The index moves on to the next slot in use, and from the last one to    *)
(* the first.                                                              *)
LEMMA NextIndexIs ==
  ASSUME TypeOK, numTasks > 0
  PROVE  /\ NextIndex \in 0 .. numTasks - 1
         /\ NextIndex = IF currentTask + 1 = numTasks THEN 0 ELSE currentTask + 1
<1>1. currentTask \in -1 .. numTasks - 1 /\ numTasks \in Nat \ {0}
  BY TaskAssumption DEF TypeOK
<1>2. CASE currentTask + 1 = numTasks
  <2>1. numTasks % numTasks = 0
    BY <1>1, ModOfNext
  <2> QED BY <1>1, <1>2, <2>1 DEF NextIndex
<1>3. CASE currentTask + 1 < numTasks
  BY <1>1, <1>3 DEF NextIndex
<1> QED BY <1>1, <1>2, <1>3

-----------------------------------------------------------------------------

\* Types, and the stack every frame lies on.

(* A frame belongs to the context on whose stack it lies.                  *)
LEMMA OwnerIs ==
  ASSUME NEW c \in Contexts, NEW f \in Stack[c]
  PROVE  Owner(f) = c
  BY TaskAssumption DEF Owner

(* The empty table is well typed.                                          *)
LEMMA InitTypeOK == Init => TypeOK
<1> SUFFICES ASSUME Init PROVE TypeOK
  OBVIOUS
<1>1. esp \in Frames
  BY DEF Init, Frames, Contexts
<1> QED BY <1>1, TaskAssumption DEF Init, TypeOK

(* AddTask never writes beyond the table.                                  *)
LEMMA AddTaskTypeOK ==
  ASSUME TypeOK, NEW t \in Tasks, AddTask(t)
  PROVE  TypeOK'
<1>1. /\ ppTasks' \in [0 .. MaxTasks - 1 -> Tasks \cup {NoTask}]
      /\ ppTasks'[numTasks] = t
      /\ \A i \in 0 .. numTasks - 1 : ppTasks'[i] = ppTasks[i]
  BY TaskAssumption DEF AddTask, TypeOK
<1>2. \A i \in 0 .. numTasks' - 1 : ppTasks'[i] \in Tasks
  BY <1>1, TaskAssumption DEF AddTask, TypeOK
<1> QED BY <1>1, <1>2, TaskAssumption DEF AddTask, TypeOK

(* The table of saved frames after a tick.                                 *)
LEMMA SaveFrameIs ==
  ASSUME TypeOK, NEW f \in Frames
  PROVE  /\ SaveFrame(f) \in [Tasks -> Frames]
         /\ \A t \in Tasks :
              SaveFrame(f)[t] =
                IF currentTask >= 0 /\ t = ppTasks[currentTask] THEN f
                                                                ELSE pCpustate[t]
<1>1. currentTask >= 0 => ppTasks[currentTask] \in Tasks
  BY TaskAssumption DEF TypeOK
<1> QED BY <1>1 DEF SaveFrame, TypeOK

(* Schedule moves the index to a slot in use.                              *)
LEMMA ScheduleTypeOK ==
  ASSUME TypeOK, NEW f \in Frames, Schedule(f)
  PROVE  TypeOK'
<1>1. CASE numTasks <= 0
  BY <1>1 DEF Schedule, TypeOK
<1>2. CASE numTasks > 0
  <2>1. currentTask' = NextIndex /\ NextIndex \in 0 .. numTasks - 1
    BY <1>2, NextIndexIs, TaskAssumption DEF Schedule, TypeOK
  <2>2. ppTasks[NextIndex] \in Tasks
    BY <2>1 DEF TypeOK
  <2>3. pCpustate' \in [Tasks -> Frames] /\ esp' \in Frames
    BY <1>2, <2>2, SaveFrameIs, TaskAssumption DEF Schedule, TypeOK
  <2> QED BY <2>1, <2>3, TaskAssumption DEF Schedule, TypeOK
<1> QED BY <1>1, <1>2, TaskAssumption DEF TypeOK

Inv == TypeOK /\ OnOwnStack

(* The context a tick interrupts is the one currentTask designates.        *)
LEMMA TickInterrupts ==
  ASSUME Inv, NEW f \in Stack[Owner(esp)]
  PROVE  /\ f \in Frames
         /\ currentTask = -1 => f \in Stack[Main]
         /\ currentTask # -1 => f \in Stack[ppTasks[currentTask]]
<1>1. CASE currentTask = -1
  <2>1. Owner(esp) = Main /\ Main \in Contexts
    BY <1>1, OwnerIs DEF Inv, OnOwnStack, CurrentRuns, Contexts
  <2> QED BY <1>1, <2>1 DEF Frames
<1>2. CASE currentTask # -1
  <2>1. ppTasks[currentTask] \in Tasks
    BY <1>2, TaskAssumption DEF Inv, TypeOK
  <2>2. Owner(esp) = ppTasks[currentTask] /\ Owner(esp) \in Contexts
    BY <1>2, <2>1, OwnerIs DEF Inv, OnOwnStack, CurrentRuns, Contexts
  <2> QED BY <1>2, <2>2 DEF Frames
<1> QED BY <1>1, <1>2

(* A tick keeps every frame on its own stack.                              *)
LEMMA TickInv ==
  ASSUME Inv, NEW f \in Stack[Owner(esp)], Schedule(f)
  PROVE  Inv'
<1>1. TypeOK'
  BY TickInterrupts, ScheduleTypeOK DEF Inv
<1>2. CASE numTasks <= 0
  <2>1. currentTask = -1
    BY <1>2, TaskAssumption DEF Inv, TypeOK
  <2> QED BY <1>1, <1>2, <2>1, TickInterrupts
          DEF Inv, OnOwnStack, FramesAtHome, CurrentRuns, Schedule
<1>3. CASE ~ numTasks <= 0
  <2>1. /\ pCpustate' = SaveFrame(f) /\ currentTask' = NextIndex
        /\ esp' = SaveFrame(f)[ppTasks[NextIndex]] /\ ppTasks' = ppTasks
    BY <1>3 DEF Schedule
  <2>2. FramesAtHome'
    <3> SUFFICES ASSUME NEW t \in Tasks PROVE SaveFrame(f)[t] \in Stack[t]
      BY <2>1 DEF FramesAtHome
    <3>1. pCpustate[t] \in Stack[t]
      BY DEF Inv, OnOwnStack, FramesAtHome
    <3>2. SaveFrame(f)[t] =
            IF currentTask >= 0 /\ t = ppTasks[currentTask] THEN f ELSE pCpustate[t]
      BY TickInterrupts, SaveFrameIs DEF Inv
    <3>3. currentTask >= 0 => f \in Stack[ppTasks[currentTask]]
      BY TickInterrupts DEF Inv, TypeOK
    <3> QED BY <3>1, <3>2, <3>3
  <2>3. NextIndex \in 0 .. numTasks - 1 /\ ppTasks[NextIndex] \in Tasks
    BY <1>3, NextIndexIs, TaskAssumption DEF Inv, TypeOK
  <2>4. CurrentRuns'
    BY <2>1, <2>2, <2>3 DEF CurrentRuns, FramesAtHome
  <2> QED BY <1>1, <2>2, <2>4 DEF Inv, OnOwnStack
<1> QED BY <1>2, <1>3

(* Adding a task moves neither the running task nor a frame.               *)
LEMMA AddTaskInv ==
  ASSUME Inv, NEW t \in Tasks, AddTask(t)
  PROVE  Inv'
<1>1. TypeOK'
  BY AddTaskTypeOK DEF Inv
<1>2. currentTask # -1 => ppTasks'[currentTask] = ppTasks[currentTask]
  BY TaskAssumption DEF AddTask, Inv, TypeOK
<1> QED BY <1>1, <1>2
        DEF Inv, OnOwnStack, FramesAtHome, CurrentRuns, AddTask

(* At first kernelMain runs and each task has its first frame.             *)
LEMMA InitInv == Init => Inv
<1> SUFFICES ASSUME Init PROVE Inv
  OBVIOUS
<1> QED BY InitTypeOK, TaskAssumption
        DEF Init, Inv, OnOwnStack, FramesAtHome, CurrentRuns

(* Every step keeps types and stacks.                                      *)
LEMMA NextInv ==
  ASSUME Inv, [Next]_vars
  PROVE  Inv'
<1>1. CASE Tick
  BY <1>1, TickInv DEF Tick
<1>2. ASSUME NEW t \in Tasks, AddTask(t)
      PROVE  Inv'
  BY <1>2, AddTaskInv
<1>3. CASE UNCHANGED vars
  BY <1>3 DEF vars, Inv, TypeOK, OnOwnStack, FramesAtHome, CurrentRuns
<1> QED BY <1>1, <1>2, <1>3 DEF Next

(* So types and stacks are right in every reachable state.                 *)
LEMMA Invariant == Spec => []Inv
<1>1. Init => Inv
  BY InitInv
<1>2. Inv /\ [Next]_vars => Inv'
  BY NextInv
<1> QED BY <1>1, <1>2, PTL DEF Spec

(* numTasks never exceeds the table and, once a task runs, currentTask     *)
(* designates a slot in use.                                               *)
THEOREM TypeCorrect == Spec => []TypeOK
<1>1. Inv => TypeOK
  BY DEF Inv
<1> QED BY <1>1, Invariant, PTL

(* Schedule never resumes a task on another's stack, and never loses track *)
(* of which task it has resumed.                                           *)
THEOREM TasksKeepTheirStacks == Spec => []OnOwnStack
<1>1. Inv => OnOwnStack
  BY DEF Inv
<1> QED BY <1>1, Invariant, PTL

-----------------------------------------------------------------------------

\* The table as a queue of turns.

Turns == [i \in 1 .. Waiting |-> ppTasks[(currentTask + i) % numTasks]]

Running == IF currentTask = -1 THEN NoTask ELSE ppTasks[currentTask]

(* A function on 1 .. n is a sequence of length n.                         *)
LEMMA FunctionIsSeq ==
  ASSUME NEW S, NEW n \in Nat, NEW s \in [1 .. n -> S]
  PROVE  s \in Seq(S) /\ Len(s) = n
<1>1. s \in Seq(S)
  BY SeqDef
<1>2. Len(s) \in Nat /\ DOMAIN s = 1 .. Len(s) /\ DOMAIN s = 1 .. n
  BY <1>1, LenProperties
<1> QED BY <1>1, <1>2

(* The slot whose turn comes i turns from now.                             *)
Ahead(i) == IF currentTask + i < numTasks THEN currentTask + i
                                          ELSE currentTask + i - numTasks

TurnsFacts ==
  /\ Waiting \in Nat
  /\ Turns \in Seq(Tasks) /\ Len(Turns) = Waiting
  /\ \A i \in 1 .. Waiting :
       Ahead(i) \in 0 .. numTasks - 1 /\ Turns[i] = ppTasks[Ahead(i)]

(* The queue of RoundRobin in terms of slots.                              *)
LEMMA TurnsAre == TypeOK => TurnsFacts
<1> SUFFICES ASSUME TypeOK PROVE TurnsFacts
  OBVIOUS
<1>1. /\ currentTask \in -1 .. numTasks - 1 /\ numTasks \in Nat
      /\ Waiting \in Nat
  BY TaskAssumption DEF TypeOK, Waiting
<1>2. ASSUME NEW i \in 1 .. Waiting
      PROVE  /\ Ahead(i) \in 0 .. numTasks - 1
             /\ (currentTask + i) % numTasks = Ahead(i)
  <2>1. numTasks \in Nat \ {0} /\ currentTask + i \in 0 .. 2 * numTasks - 1
    BY <1>1 DEF Waiting
  <2>2. CASE currentTask + i < numTasks
    BY <2>1, <2>2, ModOfSmall DEF Ahead
  <2>3. CASE ~ currentTask + i < numTasks
    BY <1>1, <2>1, <2>3, ModOfNext DEF Ahead
  <2> QED BY <2>2, <2>3
<1>3. \A i \in 1 .. Waiting : Turns[i] = ppTasks[Ahead(i)]
  BY <1>2 DEF Turns
<1>4. Turns \in [1 .. Waiting -> Tasks]
  BY <1>2 DEF Turns, TypeOK
<1> QED BY <1>1, <1>2, <1>3, <1>4, FunctionIsSeq DEF TurnsFacts

(* The queue of the tasks that wait, the interrupted one at its end: the   *)
(* first of it is the task the index moves on to, the others wait next.    *)
LEMMA TickTurns ==
  ASSUME TypeOK, TypeOK', numTasks > 0,
         currentTask' = NextIndex, UNCHANGED <<ppTasks, numTasks>>
  PROVE  LET waiting == IF Running = NoTask THEN Turns ELSE Append(Turns, Running)
         IN  /\ waiting # << >>
             /\ Running' = Head(waiting)
             /\ Turns' = Tail(waiting)
             /\ Head(waiting) = ppTasks[NextIndex]
<1> DEFINE waiting == IF Running = NoTask THEN Turns ELSE Append(Turns, Running)
<1>1. /\ currentTask \in -1 .. numTasks - 1
      /\ numTasks \in Nat \ {0}
      /\ NextIndex \in 0 .. numTasks - 1
      /\ NextIndex = IF currentTask + 1 = numTasks THEN 0 ELSE currentTask + 1
  BY NextIndexIs, TaskAssumption DEF TypeOK
<1>2. Running = NoTask <=> currentTask = -1
  BY <1>1, TaskAssumption DEF Running, TypeOK
<1>3. /\ waiting \in Seq(Tasks) /\ Len(waiting) = numTasks
      /\ \A i \in 1 .. numTasks :
           Ahead(i) \in 0 .. numTasks - 1 /\ waiting[i] = ppTasks[Ahead(i)]
  <2>1. CASE currentTask = -1
    BY <1>1, <1>2, <2>1, TurnsAre DEF TurnsFacts, Waiting
  <2>2. CASE currentTask # -1
    <3>1. Running \in Tasks /\ Running = ppTasks[currentTask]
      BY <1>1, <2>2 DEF Running, TypeOK
    <3>2. /\ waiting \in Seq(Tasks) /\ Len(waiting) = Len(Turns) + 1
          /\ \A i \in 1 .. Len(Turns) + 1 :
               waiting[i] = IF i <= Len(Turns) THEN Turns[i] ELSE Running
      BY <1>2, <2>2, <3>1, TurnsAre, AppendProperties DEF TurnsFacts
    <3>3. Len(Turns) = numTasks - 1
      BY <2>2, TurnsAre DEF TurnsFacts, Waiting
    <3>4. Ahead(numTasks) = currentTask
      BY <1>1, <2>2 DEF Ahead
    <3>5. ASSUME NEW i \in 1 .. numTasks
          PROVE  Ahead(i) \in 0 .. numTasks - 1 /\ waiting[i] = ppTasks[Ahead(i)]
      <4>1. CASE i = numTasks
        BY <1>1, <2>2, <3>1, <3>2, <3>3, <3>4, <4>1
      <4>2. CASE i # numTasks
        BY <1>1, <2>2, <3>2, <3>3, <4>2, TurnsAre DEF TurnsFacts, Waiting
      <4> QED BY <4>1, <4>2
    <3> QED BY <1>1, <3>2, <3>3, <3>5
  <2> QED BY <2>1, <2>2
<1>4. waiting # << >>
  BY <1>1, <1>3, EmptySeq
<1>5. Head(waiting) = ppTasks[NextIndex]
  <2>1. Head(waiting) = waiting[1]
    BY <1>3, <1>4
  <2>2. Ahead(1) = NextIndex
    BY <1>1 DEF Ahead
  <2> QED BY <1>1, <1>3, <2>1, <2>2
<1>6. Running' = ppTasks[NextIndex]
  BY <1>1 DEF Running
<1>7. Turns' = Tail(waiting)
  <2>1. Waiting' = numTasks - 1
    BY <1>1 DEF Waiting
  <2>2. /\ Turns' \in Seq(Tasks) /\ Len(Turns') = numTasks - 1
        /\ \A i \in 1 .. numTasks - 1 : Turns'[i] = ppTasks[Ahead(i)']
    <3>1. TurnsFacts'
      BY TurnsAre, PTL
    <3> QED BY <2>1, <3>1 DEF TurnsFacts
  <2>3. /\ Tail(waiting) \in Seq(Tasks) /\ Len(Tail(waiting)) = numTasks - 1
        /\ \A i \in 1 .. numTasks - 1 : Tail(waiting)[i] = waiting[i + 1]
    BY <1>1, <1>3, <1>4, HeadTailProperties
  <2>4. ASSUME NEW i \in 1 .. numTasks - 1
        PROVE  Ahead(i)' = Ahead(i + 1)
    BY <1>1 DEF Ahead
  <2>5. ASSUME NEW i \in 1 .. numTasks - 1
        PROVE  Turns'[i] = Tail(waiting)[i]
    <3>1. Turns'[i] = ppTasks[Ahead(i + 1)]
      BY <2>2, <2>4
    <3>2. i + 1 \in 1 .. numTasks
      BY <1>1
    <3> HIDE DEF waiting
    <3>3. Tail(waiting)[i] = ppTasks[Ahead(i + 1)]
      BY <1>3, <2>3, <3>2
    <3> QED BY <3>1, <3>3
  <2> QED BY <2>2, <2>3, <2>5, SeqEqual
<1> QED BY <1>4, <1>5, <1>6, <1>7

(* What InsertAfter does to each position of a queue.                      *)
LEMMA InsertIs ==
  ASSUME NEW S, NEW s \in Seq(S), NEW i \in 0 .. Len(s), NEW t \in S
  PROVE  /\ Robin!InsertAfter(s, i, t) \in Seq(S)
         /\ Len(Robin!InsertAfter(s, i, t)) = Len(s) + 1
         /\ \A j \in 1 .. Len(s) + 1 :
              Robin!InsertAfter(s, i, t)[j] =
                IF j <= i THEN s[j] ELSE IF j = i + 1 THEN t ELSE s[j - 1]
<1> DEFINE front == SubSeq(s, 1, i)
           back  == SubSeq(s, i + 1, Len(s))
<1>1. Len(s) \in Nat /\ i \in Nat /\ \A j \in 1 .. Len(s) : s[j] \in S
  BY LenProperties, ElementOfSeq
<1>2. /\ front \in Seq(S) /\ Len(front) = i
      /\ \A j \in 1 .. i : front[j] = s[j]
  <2>1. \A j \in 1 .. i : s[j] \in S
    BY <1>1
  <2> QED BY <1>1, <2>1, SubSeqProperties
<1>3. /\ back \in Seq(S) /\ Len(back) = Len(s) - i
      /\ \A j \in 1 .. Len(s) - i : back[j] = s[i + j]
  <2>1. \A j \in i + 1 .. Len(s) : s[j] \in S
    BY <1>1
  <2> QED BY <1>1, <2>1, SubSeqProperties
<1>4. <<t>> \in Seq(S) /\ Len(<<t>>) = 1 /\ <<t>>[1] = t
  OBVIOUS
<1> HIDE DEF front, back
<1>5. /\ front \o <<t>> \in Seq(S) /\ Len(front \o <<t>>) = i + 1
      /\ \A j \in 1 .. i + 1 :
           (front \o <<t>>)[j] = IF j <= i THEN s[j] ELSE t
  <2>1. \A j \in 1 .. i + 1 : (front \o <<t>>)[j] =
            IF j <= Len(front) THEN front[j] ELSE <<t>>[j - Len(front)]
    BY <1>1, <1>2, <1>4, ConcatProperties
  <2>2. front \o <<t>> \in Seq(S) /\ Len(front \o <<t>>) = i + 1
    BY <1>2, <1>4, ConcatProperties
  <2> QED BY <1>1, <1>2, <1>4, <2>1, <2>2
<1> DEFINE joined == front \o <<t>>
<1> HIDE DEF joined
<1>6. joined \in Seq(S) /\ Len(joined) = i + 1
      /\ \A j \in 1 .. i + 1 : joined[j] = IF j <= i THEN s[j] ELSE t
  BY <1>5 DEF joined
<1>7. /\ joined \o back \in Seq(S) /\ Len(joined \o back) = Len(s) + 1
      /\ \A j \in 1 .. Len(s) + 1 :
           (joined \o back)[j] = IF j <= i + 1 THEN joined[j] ELSE back[j - (i + 1)]
  <2>1. /\ joined \o back \in Seq(S)
        /\ Len(joined \o back) = Len(joined) + Len(back)
        /\ \A j \in 1 .. Len(joined) + Len(back) :
             (joined \o back)[j] =
               IF j <= Len(joined) THEN joined[j] ELSE back[j - Len(joined)]
    BY <1>3, <1>6, ConcatProperties
  <2> QED BY <1>1, <1>3, <1>6, <2>1
<1>8. ASSUME NEW j \in 1 .. Len(s) + 1
      PROVE  (joined \o back)[j] =
               IF j <= i THEN s[j] ELSE IF j = i + 1 THEN t ELSE s[j - 1]
  <2>1. CASE j <= i + 1
    BY <1>1, <1>6, <1>7, <2>1
  <2>2. CASE j > i + 1
    <3>1. j - (i + 1) \in 1 .. Len(s) - i /\ i + (j - (i + 1)) = j - 1
      BY <1>1, <2>2
    <3>2. back[j - (i + 1)] = s[j - 1]
      BY <1>3, <3>1
    <3>3. ~ j <= i + 1 /\ ~ j <= i /\ j # i + 1
      BY <1>1, <2>2
    <3> QED BY <1>7, <3>2, <3>3
  <2>3. j <= i + 1 \/ j > i + 1
    BY <1>1
  <2> QED BY <2>1, <2>2, <2>3
<1>9. Robin!InsertAfter(s, i, t) = joined \o back
  BY DEF Robin!InsertAfter, joined, front, back
<1> QED BY <1>7, <1>8, <1>9

(* A new task gets the slot behind the last one in use: its first turn     *)
(* comes when the index has gone through the slots up to it.               *)
LEMMA AddTaskTurns ==
  ASSUME TypeOK, NEW t \in Tasks, AddTask(t)
  PROVE  \E i \in 0 .. Len(Turns) : Turns' = Robin!InsertAfter(Turns, i, t)
<1> DEFINE i == IF currentTask = -1 THEN numTasks ELSE numTasks - 1 - currentTask
<1>1. /\ currentTask \in -1 .. numTasks - 1 /\ numTasks \in Nat
      /\ numTasks' = numTasks + 1 /\ currentTask' = currentTask
      /\ ppTasks'[numTasks] = t
      /\ \A k \in 0 .. numTasks - 1 : ppTasks'[k] = ppTasks[k]
  BY TaskAssumption DEF AddTask, TypeOK
<1>2. /\ Waiting \in Nat /\ Turns \in Seq(Tasks) /\ Len(Turns) = Waiting
      /\ \A j \in 1 .. Waiting :
           Ahead(j) \in 0 .. numTasks - 1 /\ Turns[j] = ppTasks[Ahead(j)]
  BY TurnsAre DEF TurnsFacts
<1>3. Waiting' = Waiting + 1
  BY <1>1 DEF Waiting
<1>4. /\ Turns' \in Seq(Tasks) /\ Len(Turns') = Waiting + 1
      /\ \A j \in 1 .. Waiting + 1 : Turns'[j] = ppTasks'[Ahead(j)']
  <2>1. TypeOK' => TurnsFacts'
    BY TurnsAre, PTL
  <2> QED BY <1>3, <2>1, AddTaskTypeOK DEF TurnsFacts
<1>5. i \in 0 .. Waiting
  BY <1>1 DEF Waiting
<1> DEFINE inserted == Robin!InsertAfter(Turns, i, t)
<1>6. /\ inserted \in Seq(Tasks) /\ Len(inserted) = Waiting + 1
      /\ \A j \in 1 .. Waiting + 1 :
           inserted[j] = IF j <= i THEN Turns[j]
                         ELSE IF j = i + 1 THEN t ELSE Turns[j - 1]
  <2>1. Len(Turns) = Waiting /\ i \in 0 .. Len(Turns) /\ Turns \in Seq(Tasks)
    BY <1>2, <1>5
  <2>2. \A k \in 0 .. Len(Turns) :
          /\ Robin!InsertAfter(Turns, k, t) \in Seq(Tasks)
          /\ Len(Robin!InsertAfter(Turns, k, t)) = Len(Turns) + 1
          /\ \A j \in 1 .. Len(Turns) + 1 :
               Robin!InsertAfter(Turns, k, t)[j] =
                 IF j <= k THEN Turns[j] ELSE IF j = k + 1 THEN t ELSE Turns[j - 1]
    <3> SUFFICES ASSUME NEW k \in 0 .. Len(Turns)
                 PROVE  /\ Robin!InsertAfter(Turns, k, t) \in Seq(Tasks)
                        /\ Len(Robin!InsertAfter(Turns, k, t)) = Len(Turns) + 1
                        /\ \A j \in 1 .. Len(Turns) + 1 :
                             Robin!InsertAfter(Turns, k, t)[j] =
                               IF j <= k THEN Turns[j]
                               ELSE IF j = k + 1 THEN t ELSE Turns[j - 1]
      OBVIOUS
    <3>1. Turns \in Seq(Tasks) /\ t \in Tasks
      BY <2>1
    <3> HIDE DEF i, inserted
    <3> QED BY <3>1, InsertIs
  <2> HIDE DEF i
  <2> QED BY <2>1, <2>2
<1> HIDE DEF inserted
<1>7. ASSUME NEW j \in 1 .. Waiting + 1
      PROVE  Turns'[j] = inserted[j]
  <2>1. Turns'[j] = ppTasks'[Ahead(j)']
    BY <1>4
  <2>2. CASE j <= i
    <3>1. j \in 1 .. Waiting /\ Ahead(j)' = Ahead(j)
      BY <1>1, <1>5, <2>2 DEF Ahead, Waiting
    <3> QED BY <1>1, <1>2, <1>6, <2>1, <2>2, <3>1
  <2>3. CASE j = i + 1
    <3>1. Ahead(j)' = numTasks
      BY <1>1, <2>3 DEF Ahead
    <3> QED BY <1>1, <1>5, <1>6, <2>1, <2>3, <3>1
  <2>4. CASE j > i + 1
    <3>1. j - 1 \in 1 .. Waiting /\ Ahead(j)' = Ahead(j - 1)
      BY <1>1, <1>5, <2>4 DEF Ahead, Waiting
    <3>2. Turns[j - 1] = ppTasks[Ahead(j - 1)] /\ Ahead(j - 1) \in 0 .. numTasks - 1
      BY <1>2, <3>1
    <3> QED BY <1>1, <1>5, <1>6, <2>1, <2>4, <3>1, <3>2
  <2> QED BY <1>1, <1>5, <2>2, <2>3, <2>4
<1>8. Turns' = inserted
  BY <1>2, <1>4, <1>6, <1>7, SeqEqual
<1> QED BY <1>2, <1>5, <1>8 DEF inserted

-----------------------------------------------------------------------------

\* Every step of the table is a step of the queue.

(* An empty table is an empty queue.                                       *)
LEMMA InitRobin == Init => Robin!Init
<1> SUFFICES ASSUME Init PROVE Robin!Init
  OBVIOUS
<1>1. TypeOK /\ Waiting = 0
  BY InitTypeOK DEF Init, Waiting
<1>2. Turns = << >>
  BY <1>1, TurnsAre, EmptySeq DEF TurnsFacts
<1>3. esp \in Frames
  BY <1>1 DEF TypeOK
<1> QED BY <1>2, <1>3 DEF Robin!Init, Init, Turns

(* Schedule is a Tick of RoundRobin, or an IdleTick without tasks.         *)
LEMMA TickRobin ==
  ASSUME Inv, NEW f \in Stack[Owner(esp)], Schedule(f)
  PROVE  Robin!Next
<1>1. f \in Frames /\ TypeOK /\ TypeOK'
  BY TickInterrupts, TickInv DEF Inv
<1>2. CASE numTasks <= 0
  <2>1. numTasks = 0 /\ currentTask = -1 /\ Waiting = 0
    BY <1>1, <1>2, TaskAssumption DEF TypeOK, Waiting
  <2>2. Turns = << >>
    BY <1>1, <2>1, TurnsAre, EmptySeq DEF TurnsFacts
  <2>3. UNCHANGED <<Turns, Running>>
    BY <1>2 DEF Schedule, Turns, Running, Waiting
  <2>4. Robin!IdleTick(f)
    BY <1>2, <2>1, <2>2, <2>3 DEF Robin!IdleTick, Schedule, Turns, Running
  <2> QED BY <1>1, <2>4 DEF Robin!Next
<1>3. CASE ~ numTasks <= 0
  <2>1. /\ numTasks > 0 /\ interrupted' = f
        /\ pCpustate' = SaveFrame(f) /\ currentTask' = NextIndex
        /\ esp' = SaveFrame(f)[ppTasks[NextIndex]]
        /\ UNCHANGED <<ppTasks, numTasks>>
    BY <1>1, <1>3, TaskAssumption DEF Schedule, TypeOK
  <2>2. Running = NoTask <=> currentTask = -1
    BY <1>1, TaskAssumption DEF Running, TypeOK
  <2>3. SaveFrame(f) = IF Running = NoTask THEN pCpustate
                       ELSE [pCpustate EXCEPT ![Running] = f]
    <3>1. currentTask >= 0 <=> Running # NoTask
      BY <1>1, <2>2 DEF TypeOK
    <3>2. currentTask >= 0 => Running = ppTasks[currentTask]
      BY DEF Running
    <3> QED BY <3>1, <3>2 DEF SaveFrame
  <2> DEFINE waiting == IF Running = NoTask THEN Turns ELSE Append(Turns, Running)
  <2>4. /\ waiting # << >>
        /\ Running' = Head(waiting)
        /\ Turns' = Tail(waiting)
        /\ Head(waiting) = ppTasks[NextIndex]
    BY <1>1, <2>1, TickTurns
  <2>5. Robin!Tick(f)
    BY <2>1, <2>3, <2>4 DEF Robin!Tick, Turns, Running
  <2> QED BY <1>1, <2>5 DEF Robin!Next
<1> QED BY <1>2, <1>3

(* AddTask is a Join of RoundRobin.                                        *)
LEMMA AddTaskRobin ==
  ASSUME Inv, NEW t \in Tasks, AddTask(t)
  PROVE  Robin!Next
<1>1. \E i \in 0 .. Len(Turns) : Turns' = Robin!InsertAfter(Turns, i, t)
  BY AddTaskTurns DEF Inv
<1>2. UNCHANGED Running
  BY TaskAssumption DEF Running, AddTask, Inv, TypeOK
<1>3. Robin!Join(t)
  BY <1>1, <1>2 DEF Robin!Join, AddTask, Turns, Running
<1> QED BY <1>3 DEF Robin!Next

(* Every step of the table is one of the queue, or a stutter.              *)
LEMMA NextRobin ==
  ASSUME Inv, [Next]_vars
  PROVE  [Robin!Next]_Robin!vars
<1>1. CASE Tick
  BY <1>1, TickRobin DEF Tick
<1>2. ASSUME NEW t \in Tasks, AddTask(t)
      PROVE  Robin!Next
  BY <1>2, AddTaskRobin
<1>3. CASE UNCHANGED vars
  BY <1>3 DEF vars, Robin!vars, Waiting
<1> QED BY <1>1, <1>2, <1>3 DEF Next

(* The table and the index that wraps around implement a queue of tasks    *)
(* that take turns, each going on exactly where it was interrupted.        *)
THEOREM TableIsRoundRobin == Spec => ImplementsRoundRobin
<1>1. Init => Robin!Init
  BY InitRobin
<1>2. Inv /\ [Next]_vars => [Robin!Next]_Robin!vars
  BY NextRobin
<1> QED BY <1>1, <1>2, Invariant, PTL DEF Spec, ImplementsRoundRobin, Robin!Spec
=============================================================================
