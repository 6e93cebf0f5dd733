---------------------------- MODULE MCDeviceOutbox ----------------------------
(***************************************************************************)
(* One channel process that raises two events, so that its drains and the   *)
(* heartbeat's overlap.                                                     *)
(***************************************************************************)
EXTENDS DeviceOutbox, TLC
CONSTANTS p1
MCOwner == (1 :> p1) @@ (2 :> p1)
=============================================================================
