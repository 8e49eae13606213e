---------------------------- MODULE MCFaultTimer ----------------------------
(* No limit and the shortest one, and a setting of a loose contact that a   *)
(* switch byte of 2 carries past the checks of HostConfigCheck.             *)
EXTENDS FaultTimer

MCTimes == {0, 1}
MCLoose == {<<200, 150>>}
=============================================================================
