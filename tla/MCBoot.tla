------------------------------- MODULE MCBoot -------------------------------
(***************************************************************************)
(* The boot on machines with two buses of two slots.  A slot is empty or   *)
(* has a device with one function, or with the functions 0 and 2 of three, *)
(* one a bridge (header type 1, two base address registers).               *)
(***************************************************************************)
EXTENDS Boot

Bars(a, b, c) == [k \in 0 .. 5 |-> CASE k = 0 -> a [] k = 1 -> b [] k = 5 -> c [] OTHER -> 0]

\* A network card with a memory and an I/O register, one with two of them.
Card == [vendor |-> 4130, type |-> 0, bars |-> Bars(8192, 49153, 0)]
Disk == [vendor |-> 32902, type |-> 0, bars |-> Bars(49409, 1, 49425)]
Bridge == [vendor |-> 32902, type |-> 1, bars |-> Bars(0, 49281, 12289)]

OneFunction == [f \in {0} |-> Card]
TwoFunctions == [f \in {0, 2} |-> IF f = 0 THEN Bridge ELSE Disk]

MCDeviceKinds == {Absent, OneFunction, TwoFunctions}

\* The card protected or not, expecting an attribute's index or its value.
MCCards ==
  {[registers |-> [k \in Registers |-> left], index |-> 48, latch |-> latch] :
     left \in {0, 255}, latch \in {"index", "value"}}

\* What a variable without a value may hold: nothing, or a port number.
MCLeftovers == {0, 57344}

\* 32 MiB, the least machine with a heap, one with less, and 3 GiB.
MCMemUppers == {31744, 10250, 10249, 3145728}
=============================================================================
