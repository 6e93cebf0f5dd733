---------------------------- MODULE InboundTurns ----------------------------
(***************************************************************************)
(* A user's text messages on their way to a turn, for ONE account on ONE   *)
(* machine: the provider's deliveries of POST /api/sendblue/webhook, the   *)
(* processed_webhooks ledger, orchestrate, and the queue that coalesces    *)
(* back-to-back texts and drains one batch at a time.                      *)
(*                                                                         *)
(* One action is one run of the event loop between two awaits, so what the *)
(* drain does from the end of one turn to the start of the next is one     *)
(* step.  Turns of agent events share the account's lock with the drain;   *)
(* here they only delay Begin (AccountLease has the lock).                 *)
(***************************************************************************)
EXTENDS Naturals, Sequences, SequencesExt

CONSTANTS
  Messages,
  Tapbacks,       \* the messages with reactionTo
  None,
  MaxAttempts,    \* how often the provider delivers each message
  MaxInterrupts,  \* MAX_COALESCE_INTERRUPTS
  MaxFaults       \* restarts, unreachable ledgers, failed look-ups and turns

ASSUME MessagesAssumption == Tapbacks \subseteq Messages /\ None \notin Messages
ASSUME InboundBounds ==
  /\ MaxAttempts \in [Messages -> Nat] /\ MaxInterrupts \in Nat /\ MaxFaults \in Nat

Deliveries == UNION {{m} \X (1 .. MaxAttempts[m]) : m \in Messages}

VARIABLES
  acked,       \* the provider has its 2xx for these messages
  claims,      \* processed_webhooks
  stage,       \* how far the handler of each delivery is
  queue,       \* userQueues
  drain,       \* drainActive: "off", "waiting" for the lock, or "on"
  interrupts,  \* the drain's count of consecutive interrupts
  batch,       \* the batch of the turn in flight
  turn,        \* how far that turn is
  committed, interruptible, interrupter, \* its latch, flag and abort signal
  blind,       \* history: messages processed although their claim failed
  entered,     \* history: what was enqueued in this life of the machine
  finished,    \* history: what turns of this life have finished with
  acts,        \* history: turns over a message that committed
  restarts,    \* history: interrupted turns over a message
  faults

hookVars == <<acked, claims, stage, blind>>
flightVars == <<batch, turn, committed, interruptible, interrupter>>
drainVars == <<queue, drain, interrupts, flightVars>>
history == <<entered, finished, acts, restarts>>
vars == <<hookVars, drainVars, history, faults>>

Fault ==
  /\ faults < MaxFaults
  /\ faults' = faults + 1

Init ==
  /\ acked = {} /\ claims = {} /\ blind = {}
  /\ stage = [d \in Deliveries |-> "none"]
  /\ queue = <<>> /\ drain = "off" /\ interrupts = 0
  /\ batch = <<>> /\ turn = "none"
  /\ committed = FALSE /\ interruptible = FALSE /\ interrupter = None
  /\ entered = <<>> /\ finished = <<>>
  /\ acts = [m \in Messages |-> 0]
  /\ restarts = [m \in Messages |-> 0]
  /\ faults = 0

-----------------------------------------------------------------------------
(* The webhook                                                             *)

Moves(d, from, to) == stage[d] = from /\ stage' = [stage EXCEPT ![d] = to]

\* The provider delivers until it has a 2xx.
MayDeliver(d) ==
  /\ d[1] \notin acked
  /\ \A k \in 1 .. d[2] - 1 : stage[<<d[1], k>>] # "none"

\* The 200 goes out before the turn runs; it may be lost or late, which matters
\* if the provider would try again.
Acks(d) ==
  \/ acked' = acked \cup {d[1]}
  \/ d[2] < MaxAttempts[d[1]] /\ UNCHANGED acked

\* claimWebhook wins: orchestrate runs detached.
Claim(d) ==
  /\ MayDeliver(d) /\ d[1] \notin claims
  /\ Moves(d, "none", "lookup")
  /\ claims' = claims \cup {d[1]}
  /\ Acks(d)
  /\ UNCHANGED <<blind, drainVars, history, faults>>

Duplicate(d) ==
  /\ MayDeliver(d) /\ d[1] \in claims
  /\ Moves(d, "none", "done")
  /\ Acks(d)
  /\ UNCHANGED <<claims, blind, drainVars, history, faults>>

\* The ledger is unreachable: fail open.
ClaimFails(d) ==
  /\ MayDeliver(d)
  /\ Moves(d, "none", "lookup")
  /\ Fault
  /\ Acks(d)
  /\ blind' = blind \cup {d[1]}
  /\ UNCHANGED <<claims, drainVars, history>>

\* orchestrate awaits findAccountByPhone (and logMessage, whose failure is caught);
\* an error releases the claim.
LookupFails(d) ==
  /\ Moves(d, "lookup", "release")
  /\ Fault
  /\ UNCHANGED <<acked, claims, blind, drainVars, history>>

Release(d) ==
  /\ Moves(d, "release", "done")
  /\ claims' = claims \ {d[1]}
  /\ UNCHANGED <<acked, blind, drainVars, history, faults>>

\* What failed the look-up may fail the release as well.
ReleaseFails(d) ==
  /\ Moves(d, "release", "done")
  /\ UNCHANGED <<acked, claims, blind, drainVars, history, faults>>

-----------------------------------------------------------------------------
(* enqueueUserMessage                                                      *)

InFlight == turn # "none"

\* Mutant: the commit latch is not looked at.
ShouldInterrupt_late(m) == InFlight /\ interruptible /\ m \notin Tapbacks
ShouldInterrupt(m) ==
  InFlight /\ interruptible /\ ~committed /\ m \notin Tapbacks

\* abort() is idempotent: the first text that interrupts a turn is kept.
Enqueue(d) ==
  /\ Moves(d, "lookup", "done")
  /\ queue' = Append(queue, d[1])
  /\ entered' = Append(entered, d[1])
  /\ drain' = IF drain = "off" THEN "waiting" ELSE drain
  /\ interrupter' =
       IF ShouldInterrupt(d[1]) /\ interrupter = None THEN d[1] ELSE interrupter
  /\ UNCHANGED <<acked, claims, blind, interrupts, batch, turn, committed,
                 interruptible, finished, acts, restarts, faults>>

-----------------------------------------------------------------------------
(* drainUserQueue                                                          *)

\* takeBatch takes n: a tap-back alone, or the leading run of texts.
IsBatch(q, n) ==
  \/ q[1] \in Tapbacks /\ n = 1
  \/ /\ \A i \in 1 .. n : q[i] \notin Tapbacks
     /\ n < Len(q) => q[n + 1] \in Tapbacks

\* Mutant: the slot is freed on an error path only.
Teardown_stuck == drain' = "on"
\* The queue is deleted and the slot freed, in one tick.
Teardown == drain' = "off"

\* Mutant: a batch of texts may always be interrupted.
MayInterrupt_always(q, count) == q[1] \notin Tapbacks
MayInterrupt(q, count) == q[1] \notin Tapbacks /\ count < MaxInterrupts

\* The head of the drain's loop, over what the queue now holds.
NextPass(q, count) ==
  /\ interrupts' = count
  /\ committed' = FALSE
  /\ interrupter' = None
  /\ \/ /\ q = <<>>
        /\ Teardown
        /\ queue' = <<>> /\ batch' = <<>> /\ turn' = "none"
        /\ interruptible' = FALSE
     \/ /\ q # <<>>
        /\ drain' = "on"
        /\ \E n \in 1 .. Len(q) :
             /\ IsBatch(q, n)
             /\ batch' = SubSeq(q, 1, n)
             /\ queue' = SubSeq(q, n + 1, Len(q))
        /\ turn' = "prologue"
        /\ interruptible' = MayInterrupt(q, count)

\* The lock is ours.
Begin ==
  /\ drain = "waiting"
  /\ NextPass(queue, 0)
  /\ UNCHANGED <<hookVars, history, faults>>

\* runUserTurn returned without having been interrupted.
Ends ==
  /\ finished' = finished \o batch
  /\ NextPass(queue, 0)
  /\ UNCHANGED <<hookVars, entered, acts, restarts, faults>>

\* Mutant: the interrupted batch goes behind the newer texts.
Requeued_behind == queue \o batch
\* q.unshift(...batch)
Requeued == batch \o queue

\* runUserTurn returned { aborted: true }.
Aborted ==
  /\ restarts' = [m \in Messages |->
                    IF m \in ToSet(batch) THEN restarts[m] + 1 ELSE restarts[m]]
  /\ NextPass(Requeued, interrupts + 1)
  /\ UNCHANGED <<hookVars, entered, finished, acts, faults>>

-----------------------------------------------------------------------------
(* runUserTurn and runAssistantTurn                                        *)

Goes(to) ==
  /\ turn' = to
  /\ UNCHANGED <<hookVars, queue, drain, interrupts, batch, interruptible,
                 interrupter, entered, finished, restarts>>

\* The context is loaded.
Loaded ==
  /\ turn = "prologue"
  /\ Goes("model")
  /\ UNCHANGED <<committed, acts, faults>>

\* An error: the user gets an apology, and the turn counts as handled.
Errs ==
  /\ \/ turn = "prologue" \/ turn = "acting"
     \/ turn = "model" /\ interrupter = None
  /\ Fault
  /\ Goes("apology")
  /\ UNCHANGED <<committed, acts>>

\* The model answers with tool calls or prose: the turn commits and acts.
Acts ==
  /\ turn = "model" /\ interrupter = None
  /\ committed' = TRUE
  /\ acts' = [m \in Messages |->
                IF m \in ToSet(batch) THEN acts[m] + 1 ELSE acts[m]]
  /\ Goes("acting")
  /\ UNCHANGED faults

\* It answers with nothing: recordActions is awaited, uncommitted.
Silent ==
  /\ turn = "model" /\ interrupter = None
  /\ Goes("closing")
  /\ UNCHANGED <<committed, acts, faults>>

\* The signal is seen before or after a model call, or rejects it.
Interrupted ==
  /\ turn \in {"model", "acting"}
  /\ interrupter # None
  /\ Aborted

Returns ==
  /\ turn \in {"acting", "closing", "apology"}
  /\ Ends

\* The machine restarts: the ledger and what was acknowledged survive.
Crash ==
  /\ Fault
  /\ stage' = [d \in Deliveries |-> IF stage[d] = "none" THEN "none" ELSE "done"]
  /\ queue' = <<>> /\ drain' = "off" /\ interrupts' = 0
  /\ batch' = <<>> /\ turn' = "none"
  /\ committed' = FALSE /\ interruptible' = FALSE /\ interrupter' = None
  /\ entered' = <<>> /\ finished' = <<>>
  /\ UNCHANGED <<acked, claims, blind, acts, restarts>>

Turn == Loaded \/ Acts \/ Interrupted \/ Returns

Handler(d) == Release(d) \/ Enqueue(d)

Next ==
  \/ \E d \in Deliveries :
       \/ Claim(d) \/ Duplicate(d) \/ ClaimFails(d)
       \/ Handler(d) \/ LookupFails(d) \/ ReleaseFails(d)
  \/ Begin \/ Turn \/ Silent \/ Errs
  \/ Crash

\* Queries return, the lock comes round (AccountLease), a model call is aborted
\* after REQUEST_TIMEOUT_MS, and the provider delivers until it has a 2xx.
Fairness ==
  /\ \A d \in Deliveries : WF_vars(Handler(d) \/ Claim(d) \/ Duplicate(d))
  /\ WF_vars(Begin) /\ WF_vars(Turn)

Spec == Init /\ [][Next]_vars
FairSpec == Spec /\ Fairness

-----------------------------------------------------------------------------
(* Properties.                                                             *)

TypeOK ==
  /\ acked \subseteq Messages /\ claims \subseteq Messages
  /\ blind \subseteq Messages
  /\ stage \in [Deliveries -> {"none", "lookup", "release", "done"}]
  /\ queue \in Seq(Messages) /\ batch \in Seq(Messages)
  /\ entered \in Seq(Messages) /\ finished \in Seq(Messages)
  /\ drain \in {"off", "waiting", "on"}
  /\ interrupts \in 0 .. MaxInterrupts
  /\ turn \in {"none", "prologue", "model", "acting", "closing", "apology"}
  /\ committed \in BOOLEAN /\ interruptible \in BOOLEAN
  /\ interrupter \in Messages \cup {None}
  /\ acts \in [Messages -> Nat] /\ restarts \in [Messages -> Nat]
  /\ faults \in Nat

\* Whatever is interrupted, re-queued and coalesced, every text is in exactly
\* one place and leaves in the order in which it was enqueued: FIFO, nothing
\* lost and nothing doubled between two restarts (drainUserQueue).
Conserved == entered = finished \o batch \o queue

\* "No lost wakeup": a queued text always has a drain to take it, and a turn in
\* flight is the drain's (enqueueUserMessage, drainUserQueue).
NoLostWakeup ==
  /\ queue # <<>> => drain # "off"
  /\ InFlight <=> drain = "on"

\* "A committed turn always finishes": no text is acted on twice, neither after
\* an interrupt, nor after a redelivery, nor after a restart, unless the ledger
\* could not be reached (runAssistantTurn, claimWebhook).
ActedOnce == \A m \in Messages \ blind : acts[m] <= 1

\* "Two distinct explicit bindings never merge into one turn", also when the
\* queue was put together again after an interrupt (takeBatch).
TapbackAlone ==
  (\E i \in 1 .. Len(batch) : batch[i] \in Tapbacks) => Len(batch) = 1

\* "Consecutive interrupts are capped so the reply can't be starved": no text
\* sees more than MaxInterrupts of its turns thrown away (drainUserQueue).
NotStarved == \A m \in Messages \ blind : restarts[m] <= MaxInterrupts

\* Every text that was enqueued is answered, or its turn fails with an apology,
\* or the machine restarts (drainUserQueue).
Answered ==
  \A m \in Messages :
    m \in ToSet(queue) ~> m \in ToSet(finished) \/ entered = <<>>

-----------------------------------------------------------------------------
(* What a comment says and the code does not do: no run checks these, TLC  *)
(* finds them violated (README, Divergences).                              *)

\* "A new text that lands BEFORE the current turn replies INTERRUPTS it and
\* re-runs ONE combined turn over both" (orchestrate): the turn that follows an
\* interrupt has the text that caused it.
Coalesces ==
  [][interrupter # None /\ restarts' # restarts
       => interrupter \in ToSet(batch')]_vars

\* "Releasing the claim restores the provider's at-least-once retry as the
\* recovery path" (releaseWebhook): what a blip kept from the queue comes again.
BlipIsRetried ==
  \A d \in Deliveries : stage[d] = "release" ~> d[1] \in ToSet(finished)
=============================================================================
