-------------------------------- MODULE Clock --------------------------------
(***************************************************************************)
(* The wall clock that gateways and relays read, in whole seconds.         *)
(***************************************************************************)
EXTENDS Naturals

VARIABLE clock

ClockInit == clock = 0
=============================================================================
