--------------------------- MODULE MCInboundTurns ---------------------------
(***************************************************************************)
(* Texts x1, x2, x3 and a tap-back t1.  Three texts and a cap of one       *)
(* interrupt reach the cap and go past it.  The first text is delivered    *)
(* twice, so that its redelivery races the handler of the first delivery,  *)
(* its turn, a failed prologue and a restart.                              *)
(***************************************************************************)
EXTENDS InboundTurns

CONSTANTS x1, x2, x3, t1

FirstTwice == [m \in Messages |-> IF m = x1 THEN 2 ELSE 1]
=============================================================================
