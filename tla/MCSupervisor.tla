---------------------------- MODULE MCSupervisor ---------------------------
(***************************************************************************)
(* The two children of production_start.py.  A child ends with success, an *)
(* error, by a signal of somebody else, or by itself with 143, which is    *)
(* 128 + SIGTERM.                                                          *)
(***************************************************************************)
EXTENDS Supervisor

TwoChildren == 2
SomeExitCodes == {-9, 0, 1, 143}
SigIntAndSigTerm == {2, 15}
=============================================================================
