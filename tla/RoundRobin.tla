----------------------------- MODULE RoundRobin -----------------------------
(***************************************************************************)
(* What the kernel's scheduler promises: the tasks take turns.             *)
(*                                                                         *)
(* turns is the queue of the tasks that wait, the next one first; the task *)
(* that runs is not in it.  Every timer tick sends the running task to the *)
(* end of the queue and resumes the head of the queue exactly where it was *)
(* interrupted.  TaskManager, with its table and its index that wraps      *)
(* around, implements this specification.                                  *)
(***************************************************************************)
EXTENDS Sequences, Integers

CONSTANTS
  Tasks,
  NoTask,     \* running, as long as no task has had a turn
  Frames,     \* saved contexts
  First       \* [task -> frame]: where a task starts

VARIABLES
  turns,      \* tasks waiting for their turn
  running,    \* the task whose turn it is, or NoTask
  resume,     \* [task -> frame]: where each task will go on
  go,         \* the frame the last tick gave to the CPU
  interrupted \* the frame it found

vars == <<turns, running, resume, go, interrupted>>

InsertAfter(s, i, t) == SubSeq(s, 1, i) \o <<t>> \o SubSeq(s, i + 1, Len(s))

Init ==
  /\ turns = << >>
  /\ running = NoTask
  /\ resume = First
  /\ go \in Frames
  /\ interrupted = go

(* A new task is queued somewhere: each task ahead of it goes before it    *)
(* once, none twice.                                                       *)
Join(t) ==
  /\ \E i \in 0 .. Len(turns) : turns' = InsertAfter(turns, i, t)
  /\ UNCHANGED <<running, resume, go, interrupted>>

(* A tick interrupts the running context, whose frame is f.                *)
Tick(f) ==
  LET waiting == IF running = NoTask THEN turns ELSE Append(turns, running)
      left    == IF running = NoTask THEN resume
                 ELSE [resume EXCEPT ![running] = f]
  IN  /\ waiting # << >>
      /\ running' = Head(waiting)
      /\ turns' = Tail(waiting)
      /\ resume' = left
      /\ go' = left[Head(waiting)]
      /\ interrupted' = f

(* With no task at all the interrupted context goes on.                    *)
IdleTick(f) ==
  /\ running = NoTask
  /\ turns = << >>
  /\ go' = f
  /\ interrupted' = f
  /\ UNCHANGED <<turns, running, resume>>

Next ==
  \/ \E t \in Tasks : Join(t)
  \/ \E f \in Frames : Tick(f) \/ IdleTick(f)

Spec == Init /\ [][Next]_vars
=============================================================================
