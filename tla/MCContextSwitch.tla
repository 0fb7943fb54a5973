--------------------------- MODULE MCContextSwitch ---------------------------
(* Two tasks in a table of two slots; stacks with room for one interrupt    *)
(* frame, the call of the handler and a return address; two register files  *)
(* in which every register has a value of its own, one of them the one of a *)
(* write system call.                                                       *)
EXTENDS ContextSwitch

CONSTANTS t1, t2

MCTasks == {t1, t2}
MCEntry == [t \in MCTasks |-> IF t = t1 THEN 1001 ELSE 1002]
MCAddresses == {2001}
MCRegisters ==
  {[eax |-> 4, ebx |-> 61, ecx |-> 62, edx |-> 63,
    esi |-> 64, edi |-> 65, ebp |-> 66],
   [eax |-> 70, ebx |-> 71, ecx |-> 72, edx |-> 73,
    esi |-> 74, edi |-> 75, ebp |-> 76]}
MCJunk == -1
MCIrqs == {32, 33}
MCExceptions == {13}
MCAllExceptions == {3, 13}
=============================================================================
