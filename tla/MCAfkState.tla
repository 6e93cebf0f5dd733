------------------------------ MODULE MCAfkState ------------------------------
(***************************************************************************)
(* One plugin process and two commands on a Mac: a toggle of the device, a *)
(* toggle of the dashboard and a caffeinate may all be under way at once.  *)
(***************************************************************************)
EXTENDS AfkState
CONSTANTS c1, t1, t2
=============================================================================
