---------------------------- MODULE AtLeastOnce ----------------------------
(***************************************************************************)
(* What the session inbox promises its producers (the orchestrator and the *)
(* permission endpoint) and its consumer (the coding agent): a row, once   *)
(* submitted, may be handed to the agent any number of times, and is only  *)
(* ever confirmed after it was handed over at least once.  Rows in         *)
(* Undeliverable (verdicts that carry no request id) are confirmed without *)
(* being handed over, because there is nobody to hand them to.             *)
(***************************************************************************)
EXTENDS Naturals

CONSTANTS Rows, Undeliverable

VARIABLES submitted, handed, confirmed

absVars == <<submitted, handed, confirmed>>

Init ==
  /\ submitted = {}
  /\ handed = [r \in Rows |-> 0]
  /\ confirmed = {}

Submit(r) ==
  /\ r \notin submitted
  /\ submitted' = submitted \cup {r}
  /\ UNCHANGED <<handed, confirmed>>

\* Also enabled on a confirmed row: a copy served before the confirmation may
\* still be on its way to a restarted consumer.
Hand(r) ==
  /\ r \in submitted \ Undeliverable
  /\ handed' = [handed EXCEPT ![r] = @ + 1]
  /\ UNCHANGED <<submitted, confirmed>>

Confirm(S) ==
  /\ \A r \in S : r \in submitted /\ (handed[r] > 0 \/ r \in Undeliverable)
  /\ confirmed' = confirmed \cup S
  /\ UNCHANGED <<submitted, handed>>

Next ==
  \/ \E r \in Rows : Submit(r) \/ Hand(r)
  \/ \E S \in SUBSET Rows : Confirm(S)

Spec == Init /\ [][Next]_absVars
=============================================================================
