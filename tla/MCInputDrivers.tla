--------------------------- MODULE MCInputDrivers ----------------------------
(* The A key going down and up, a shift key going down and up, a movement   *)
(* with both signs, a press with a movement and a press without one.        *)
EXTENDS InputDrivers

MCCodes == {30, 158, 42, 170}
MCPackets == {<<8, 3, 253>>, <<9, 0, 2>>, <<9, 0, 0>>}
=============================================================================
