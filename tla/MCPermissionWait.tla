-------------------------- MODULE MCPermissionWait --------------------------
(***************************************************************************)
(* Two requests of one session, so that one's verdict wakes the other's    *)
(* handler; a deadline of two ticks and a hook timeout of three, so that a *)
(* wait restarted in mid-course would outlast the hook.                    *)
(***************************************************************************)
EXTENDS PermissionWait

CONSTANTS q1, q2
=============================================================================
