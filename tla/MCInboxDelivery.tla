-------------------------- MODULE MCInboxDelivery --------------------------
(***************************************************************************)
(* Two or three rows: replies, a verdict and a verdict without a request   *)
(* id, so that a frame can hold a row that lands, one that is refused and  *)
(* one that is skipped.  Two faults are enough for a lost ACK followed by  *)
(* a restart, or a lost NOTIFY while the device is away.                   *)
(***************************************************************************)
EXTENDS InboxDelivery, TLC

CONSTANTS r1, r2, r3

\* Two replies differ in nothing but their order of insertion.
Replies == Permutations({r1, r2})
=============================================================================
