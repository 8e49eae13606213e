---------------------------- MODULE MCSupervisor ----------------------------
(***************************************************************************)
(* The supervisor over three starts: the first from power on, the others   *)
(* by a soft reset or a power cycle in any order.  The soft reset is what  *)
(* LED and buzzer report, in transfers that led_task can break into.       *)
(***************************************************************************)
EXTENDS Supervisor
=============================================================================
