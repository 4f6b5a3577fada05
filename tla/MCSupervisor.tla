---------------------------- MODULE MCSupervisor ----------------------------
(* Supervisor on a small instance: its constants are numbers, which the    *)
(* configurations give.                                                    *)
EXTENDS Supervisor
=============================================================================
