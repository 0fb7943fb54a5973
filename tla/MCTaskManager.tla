---------------------------- MODULE MCTaskManager ----------------------------
(* Three tasks and a table of three slots, so that a task can be in the     *)
(* table twice and an AddTask can meet a full table; two frames per stack.  *)
EXTENDS TaskManager

CONSTANTS t1, t2, t3

MCTasks == {t1, t2, t3}
MCStack == [c \in MCTasks \cup {Main} |-> {<<c, 1>>, <<c, 2>>}]
MCFirst == [t \in MCTasks |-> <<t, 1>>]
=============================================================================
