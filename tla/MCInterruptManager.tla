-------------------------- MODULE MCInterruptManager --------------------------
(* The timer and one more line of the master, a line of the slave, a system *)
(* call and a breakpoint; two handlers that compete for one slot.           *)
EXTENDS InterruptManager

MCLines == {0, 1, 12}
MCSlots == {33}
MCTraps == {3, 128}
=============================================================================
