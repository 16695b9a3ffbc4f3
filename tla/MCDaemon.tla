------------------------------- MODULE MCDaemon -------------------------------
(***************************************************************************)
(* A small instance of Daemon: two signals and two requests at a time.     *)
(***************************************************************************)
EXTENDS Daemon, TLC

CONSTANTS p1, p2

=============================================================================
