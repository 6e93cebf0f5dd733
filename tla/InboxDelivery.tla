--------------------------- MODULE InboxDelivery ---------------------------
(***************************************************************************)
(* Delivery of session_inbox rows (replies and permission verdicts) from   *)
(* the control plane into ONE coding-agent session.                        *)
(*                                                                         *)
(*   INSERT session_inbox --NOTIFY--> listener --wake--> SSE handler       *)
(*      ^                                                  | flush         *)
(*      | delivered_at                                     v               *)
(*   POST /ack <---- ackInbox <---- applyInbox <---- the INBOX frame       *)
(*                                                                         *)
(* A row is served on every flush until the device's ACK sets              *)
(* delivered_at; the device skips a row it has already applied in this     *)
(* process.  Faults (a lost NOTIFY, a dropped stream, a lost ACK, a device *)
(* restart, a refused injection, a disabled device) are bounded by         *)
(* MaxFaults, which is also the assumption under which every row is        *)
(* eventually delivered: after the last fault the system is left alone.    *)
(*                                                                         *)
(* One handler is modelled for the session's stream.  A handler left       *)
(* behind by a half-open connection keeps no state and nobody reads what   *)
(* it writes.                                                              *)
(***************************************************************************)
EXTENDS Naturals, FiniteSets, SequencesExt

CONSTANTS
  Rows,        \* the session's inbox rows
  Verdicts,    \* rows of kind 'verdict'; the others are replies
  Unbound,     \* verdicts without a request id: nothing to relay
  CodexInject, \* TRUE: Codex behind an app-server (replies may be refused);
               \* FALSE: the fire-and-forget channel of Claude Code
  AppliedCap,  \* APPLIED_INBOX_CAP
  MaxWire,     \* frames the connection buffers before a write blocks
  MaxFaults    \* bound on all the faults of a behaviour together

ASSUME RowsAssumption ==
  /\ IsFiniteSet(Rows)
  /\ Verdicts \subseteq Rows
  /\ Unbound \subseteq Verdicts
ASSUME BoundsAssumption ==
  /\ CodexInject \in BOOLEAN
  /\ AppliedCap \in Nat \ {0}
  /\ MaxWire \in Nat \ {0}
  /\ MaxFaults \in Nat

VARIABLES
  now,       \* the database's clock, in insertions
  created,   \* created_at of each row, 0 while it is not inserted
  delivered, \* rows whose delivered_at is set
  enabled,   \* the device's remote killswitch (disabled_at IS NULL)
  listening, \* the LISTEN connection of the control plane is up
  notify,    \* a NOTIFY for this session is on that connection
  handler,   \* the SSE handler: "off", "flush", "park", "wait" or "check"
  wire,      \* INBOX frames written and not yet read, each a set of rows
  link,      \* the device has its event stream open
  todo,      \* rest of the frame the device is applying, oldest row first
  landed,    \* rows of that frame to be ACKed (deliveredIds)
  applying,  \* a frame is being applied
  applied,   \* appliedInbox, in insertion order
  acks,      \* ACK requests in flight, each a set of rows
  injected,  \* how often each row was injected, ever
  thisLife,  \* how often each row was injected by this device process
  doubtful,  \* how often this process took an injected row for refused
  faults     \* faults so far

dbVars == <<now, created, delivered, enabled>>
serverVars == <<listening, notify, handler>>
deviceVars == <<todo, landed, applying, applied, injected, thisLife, doubtful>>
vars == <<dbVars, serverVars, wire, link, deviceVars, acks, faults>>

Inserted == {r \in Rows : created[r] > 0}
Handled(r) == injected[r] > 0 \/ r \in Unbound

Fault ==
  /\ faults < MaxFaults
  /\ faults' = faults + 1

Init ==
  /\ now = 0
  /\ created = [r \in Rows |-> 0]
  /\ delivered = {}
  /\ enabled = TRUE
  /\ listening = TRUE
  /\ notify = FALSE
  /\ handler = "off"
  /\ wire = <<>>
  /\ link = FALSE
  /\ todo = {}
  /\ landed = {}
  /\ applying = FALSE
  /\ applied = <<>>
  /\ acks = {}
  /\ injected = [r \in Rows |-> 0]
  /\ thisLife = [r \in Rows |-> 0]
  /\ doubtful = [r \in Rows |-> 0]
  /\ faults = 0

-----------------------------------------------------------------------------
(* The database and the LISTEN connection.                                 *)

\* resolveAttention and enqueueReply insert a row; the trigger NOTIFYs, and
\* nobody hears it while the LISTEN connection is down.
Enqueue(r) ==
  /\ r \notin Inserted
  /\ now' = now + 1
  /\ created' = [created EXCEPT ![r] = now + 1]
  /\ notify' = listening
  /\ UNCHANGED <<delivered, enabled, listening, handler, wire, link,
                 deviceVars, acks, faults>>

\* handleNotification wakes the waiters parked on the session, if any.
NotifyArrives ==
  /\ listening /\ notify
  /\ notify' = FALSE
  /\ handler' = IF handler = "wait" THEN "check" ELSE handler
  /\ UNCHANGED <<dbVars, listening, wire, link, deviceVars, acks, faults>>

\* The LISTEN connection ends: NOTIFYs on it, and those fired until it is
\* back, are lost.
ListenerDrops ==
  /\ listening
  /\ listening' = FALSE
  /\ notify' = FALSE
  /\ Fault
  /\ UNCHANGED <<dbVars, handler, wire, link, deviceVars, acks>>

ListenerReconnects ==
  /\ ~listening
  /\ listening' = TRUE
  /\ UNCHANGED <<dbVars, notify, handler, wire, link, deviceVars, acks, faults>>

\* The killswitch column; no code path of the control plane sets it, an
\* operator does.
Disable ==
  /\ enabled
  /\ enabled' = FALSE
  /\ Fault
  /\ UNCHANGED <<now, created, delivered, serverVars, wire, link, deviceVars, acks>>

Enable ==
  /\ ~enabled
  /\ enabled' = TRUE
  /\ UNCHANGED <<now, created, delivered, serverVars, wire, link, deviceVars, acks,
                 faults>>

-----------------------------------------------------------------------------
(* The SSE handler.                                                        *)

\* requireDevice looks at revoked_at only, so a disabled device connects; the
\* handler's first act is a catch-up flush.
Connect ==
  /\ ~link /\ handler = "off" /\ ~applying
  /\ link' = TRUE
  /\ handler' = "flush"
  /\ listening' = TRUE \* await ensureListener()
  /\ UNCHANGED <<dbVars, notify, wire, deviceVars, acks, faults>>

\* listUndeliveredInbox
Undelivered == Inserted \ delivered

\* Mutant: delivered_at is set when a row is served.
Flush_marks ==
  /\ handler = "flush"
  /\ Len(wire) < MaxWire
  /\ wire' = IF Undelivered = {} THEN wire ELSE Append(wire, Undelivered)
  /\ delivered' = Inserted
  /\ handler' = "park"
  /\ UNCHANGED <<now, created, enabled, listening, notify, link, deviceVars,
                 acks, faults>>

\* Every undelivered row, in one frame; a write blocks on a full connection.
Flush ==
  /\ handler = "flush"
  /\ Len(wire) < MaxWire
  /\ wire' = IF Undelivered = {} THEN wire ELSE Append(wire, Undelivered)
  /\ handler' = "park"
  /\ UNCHANGED <<dbVars, listening, notify, link, deviceVars, acks, faults>>

\* A NOTIFY that arrives before the waiter is registered wakes nobody.
Park ==
  /\ handler = "park"
  /\ handler' = "wait"
  /\ UNCHANGED <<dbVars, listening, notify, wire, link, deviceVars, acks, faults>>

\* Mutant: a timed-out wait only pings.
WaitTimesOut_ping ==
  /\ handler = "wait"
  /\ handler' = "wait"
  /\ UNCHANGED <<dbVars, listening, notify, wire, link, deviceVars, acks, faults>>

\* The wait ends after SSE_HEARTBEAT_MS without a NOTIFY.
WaitTimesOut ==
  /\ handler = "wait"
  /\ handler' = "check"
  /\ UNCHANGED <<dbVars, listening, notify, wire, link, deviceVars, acks, faults>>

CheckEnabled ==
  /\ handler = "check"
  /\ handler' = IF enabled THEN "flush" ELSE "off"
  /\ UNCHANGED <<dbVars, listening, notify, wire, link, deviceVars, acks, faults>>

-----------------------------------------------------------------------------
(* The device.                                                             *)

\* The read loop takes the next INBOX frame.
ReadFrame ==
  /\ link /\ ~applying /\ wire # <<>>
  /\ todo' = Head(wire)
  /\ wire' = Tail(wire)
  /\ applying' = TRUE
  /\ landed' = {}
  /\ UNCHANGED <<dbVars, serverVars, link, applied, injected, thisLife, doubtful,
                 acks, faults>>

\* The frame lists its rows ORDER BY created_at ASC.
IsNext(r) == r \in todo /\ \A s \in todo : created[r] <= created[s]

\* Mutant: nothing is remembered.
Remember_never(r) == applied' = applied

\* appliedInbox.add, evicting the oldest entry above the cap
Remember(r) ==
  LET all == Append(applied, r)
  IN  applied' = IF Len(all) > AppliedCap THEN Tail(all) ELSE all

\* Already applied by this process: skipped, and ACKed again.
SkipDuplicate(r) ==
  /\ applying /\ IsNext(r)
  /\ r \in ToSet(applied)
  /\ landed' = landed \cup {r}
  /\ todo' = todo \ {r}
  /\ UNCHANGED <<dbVars, serverVars, wire, link, applying, applied, injected,
                 thisLife, doubtful, acks, faults>>

Inject(r) ==
  /\ applying /\ IsNext(r)
  /\ r \notin ToSet(applied)
  /\ LET n == IF r \in Unbound THEN 0 ELSE 1
     IN  /\ injected' = [injected EXCEPT ![r] = @ + n]
         /\ thisLife' = [thisLife EXCEPT ![r] = @ + n]
  /\ Remember(r)
  /\ landed' = landed \cup {r}
  /\ todo' = todo \ {r}
  /\ UNCHANGED <<dbVars, serverVars, wire, link, applying, doubtful, acks, faults>>

\* Codex refuses a reply (a turn is active): not marked, not ACKed, and the
\* loop goes on with the next row.
InjectRefused(r) ==
  /\ CodexInject
  /\ applying /\ IsNext(r)
  /\ r \notin ToSet(applied) \cup Verdicts
  /\ todo' = todo \ {r}
  /\ Fault
  /\ UNCHANGED <<dbVars, serverVars, wire, link, landed, applying, applied,
                 injected, thisLife, doubtful, acks>>

\* The same answer to a turn that was queued: the response to turn/start came
\* too late, or the websocket closed before it.  The row is neither marked nor
\* ACKed, and will be injected again.
InjectDoubtful(r) ==
  /\ CodexInject
  /\ applying /\ IsNext(r)
  /\ r \notin ToSet(applied) \cup Verdicts
  /\ injected' = [injected EXCEPT ![r] = @ + 1]
  /\ thisLife' = [thisLife EXCEPT ![r] = @ + 1]
  /\ doubtful' = [doubtful EXCEPT ![r] = @ + 1]
  /\ todo' = todo \ {r}
  /\ Fault
  /\ UNCHANGED <<dbVars, serverVars, wire, link, landed, applying, applied, acks>>

\* mcp.notification throws: the catch abandons the rest of the frame, and the
\* rows that did land are not ACKed.
InjectThrows(r) ==
  /\ applying /\ IsNext(r)
  /\ r \notin ToSet(applied) \cup Unbound
  /\ CodexInject => r \in Verdicts
  /\ todo' = {}
  /\ landed' = {}
  /\ applying' = FALSE
  /\ Fault
  /\ UNCHANGED <<dbVars, serverVars, wire, link, applied, injected, thisLife,
                 doubtful, acks>>

\* End of the frame: one ACK for the rows that landed, not awaited.
SendAck ==
  /\ applying /\ todo = {}
  /\ acks' = IF landed = {} THEN acks ELSE acks \cup {landed}
  /\ landed' = {}
  /\ applying' = FALSE
  /\ UNCHANGED <<dbVars, serverVars, wire, link, todo, applied, injected,
                 thisLife, doubtful, faults>>

\* Mutant: the UPDATE forgets "id = ANY(ids)".
AckArrives_all(S) ==
  /\ S \in acks
  /\ acks' = acks \ {S}
  /\ delivered' = Inserted
  /\ UNCHANGED <<now, created, enabled, serverVars, wire, link, deviceVars,
                 faults>>

\* POST /ack: markInboxDelivered
AckArrives(S) ==
  /\ S \in acks
  /\ acks' = acks \ {S}
  /\ delivered' = delivered \cup S
  /\ UNCHANGED <<now, created, enabled, serverVars, wire, link, deviceVars, faults>>

AckLost(S) ==
  /\ S \in acks
  /\ acks' = acks \ {S}
  /\ Fault
  /\ UNCHANGED <<dbVars, serverVars, wire, link, deviceVars>>

\* The handler returned and the device has read everything it wrote.
EndOfStream ==
  /\ link /\ handler = "off" /\ wire = <<>> /\ ~applying
  /\ link' = FALSE
  /\ UNCHANGED <<dbVars, serverVars, wire, deviceVars, acks, faults>>

\* The connection breaks; unread frames are lost.
StreamBreaks ==
  /\ link
  /\ link' = FALSE
  /\ handler' = "off"
  /\ wire' = <<>>
  /\ Fault
  /\ UNCHANGED <<dbVars, listening, notify, deviceVars, acks>>

\* The plugin process dies and a new one resumes the same session.
DeviceRestarts ==
  /\ link' = FALSE
  /\ handler' = "off"
  /\ wire' = <<>>
  /\ todo' = {}
  /\ landed' = {}
  /\ applying' = FALSE
  /\ applied' = <<>>
  /\ thisLife' = [r \in Rows |-> 0]
  /\ doubtful' = [r \in Rows |-> 0]
  /\ Fault
  /\ UNCHANGED <<dbVars, listening, notify, acks, injected>>

-----------------------------------------------------------------------------
Server == Flush \/ Park \/ WaitTimesOut \/ CheckEnabled
Device ==
  \/ Connect \/ ReadFrame \/ SendAck \/ EndOfStream
  \/ \E r \in Rows : SkipDuplicate(r) \/ Inject(r)
Faulty ==
  \/ ListenerDrops \/ Disable \/ StreamBreaks \/ DeviceRestarts
  \/ \E r \in Rows : InjectRefused(r) \/ InjectDoubtful(r) \/ InjectThrows(r)
  \/ \E S \in acks : AckLost(S)

Next ==
  \/ \E r \in Rows : Enqueue(r)
  \/ NotifyArrives \/ ListenerReconnects \/ Enable
  \/ Server \/ Device
  \/ \E S \in acks : AckArrives(S)
  \/ Faulty

\* The handler's loop, the device's loop and an ACK request all run on their
\* own: each is a process that keeps being scheduled.  Nothing is assumed of
\* NOTIFY, of the LISTEN reconnect or of the operator.
Fairness ==
  /\ WF_vars(Server)
  /\ WF_vars(Device)
  /\ WF_vars(\E S \in acks : AckArrives(S))

Spec == Init /\ [][Next]_vars
FairSpec == Spec /\ Fairness

-----------------------------------------------------------------------------
(* Properties.                                                             *)

TypeOK ==
  /\ now \in Nat
  /\ created \in [Rows -> Nat]
  /\ delivered \subseteq Rows
  /\ enabled \in BOOLEAN
  /\ listening \in BOOLEAN
  /\ notify \in BOOLEAN
  /\ handler \in {"off", "flush", "park", "wait", "check"}
  /\ wire \in Seq(SUBSET Rows)
  /\ Len(wire) <= MaxWire
  /\ link \in BOOLEAN
  /\ todo \subseteq Rows
  /\ landed \subseteq Rows
  /\ applying \in BOOLEAN
  /\ applied \in Seq(Rows)
  /\ Len(applied) <= AppliedCap
  /\ acks \subseteq SUBSET Rows
  /\ injected \in [Rows -> Nat]
  /\ thisLife \in [Rows -> Nat]
  /\ doubtful \in [Rows -> Nat]
  /\ faults \in Nat

\* delivered_at is "the single delivery signal": a row that has it reached the
\* agent, whatever was dropped, refused, thrown or restarted on the way
\* (markInboxDelivered, subscribeEvents).
DeliveredReachedAgent == \A r \in delivered : Handled(r)

\* "inject each row at most once per process": a row re-served because its ACK
\* was lost, late or never sent is not run twice by the same plugin process
\* (applyInbox), as long as appliedInbox has not evicted it.  An app-server that
\* queued the turn and was taken to refuse it adds one injection each time.
OncePerProcess == \A r \in Rows : thisLife[r] <= 1 + doubtful[r]

\* The inbox is an at-least-once channel.
Abstract == INSTANCE AtLeastOnce WITH
  Undeliverable <- Unbound,
  submitted <- Inserted,
  handed <- injected,
  confirmed <- delivered
ImplementsAtLeastOnce == Abstract!Spec

\* A queued row is eventually delivered once the device stays enabled: a lost
\* NOTIFY, frame or ACK, a reconnect or a restart only delays it (the flush of
\* every iteration of the EVENTS loop, and of every reconnect).
EventuallyDelivered ==
  <>[]enabled => \A r \in Rows : r \in Inserted ~> r \in delivered

-----------------------------------------------------------------------------
(* What a comment says and the code does not do: no run checks these, TLC  *)
(* finds them violated (README, Divergences).                              *)

\* "the killswitch must still cut delivery": a disabled device is served no row.
DisabledIsNotServed == [][Len(wire') > Len(wire) => enabled]_vars
=============================================================================
