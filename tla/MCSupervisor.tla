---------------------------- MODULE MCSupervisor ----------------------------
(* Values for checking Supervisor: a signal handler and a second thread that *)
(* may both be inside usque_tunnel_stop.                                     *)
EXTENDS Supervisor

CONSTANTS signal, thread

MCCallers == {signal, thread}
=============================================================================
