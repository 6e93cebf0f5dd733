----------------------------- MODULE DeviceOutbox -----------------------------
(***************************************************************************)
(* The outbox of attention events (outbox.ts): a file of the device, which *)
(* every channel process appends to and drains, once per event it raises   *)
(* and once per heartbeat (channel.ts), unless the killswitch              *)
(* (killswitch.ts) holds egress back.  A drain works on the rows it read   *)
(* and replaces the file at its end; each POST is an await, so drains of   *)
(* one process or of several overlap.  The answers are classified as in    *)
(* httpclient.ts; the ATTENTION route stores every event it is sent anew.  *)
(***************************************************************************)
EXTENDS Integers, FiniteSets, FiniteSetsExt

CONSTANTS Processes,  \* channel processes
          Events,     \* numbers: the events they raise, in the order of their ids
          Owner,      \* event -> the process that raises it
          Cap,        \* rows the file may hold (OUTBOX_CAP_BYTES)
          TTL, Stale, \* KILLSWITCH_TTL_MS, STALE_FALLBACK_LIMIT_MS
          Latency,    \* the timeout of a look-up (killswitch.ts:53)
          MaxFaults,  \* bound: failed requests and crashes
          MaxSwitches \* bound: times the device, or .disabled, is switched

ASSUME OutboxAssumption ==
  /\ Events \subseteq Nat /\ Owner \in [Events -> Processes] /\ Events \cap Processes = {}
  /\ {Cap, TTL, Stale, Latency, MaxFaults, MaxSwitches} \subseteq Nat /\ Latency < TTL /\ TTL < Stale

VARIABLES
  file,      \* the rows: [ev, due]
  drain,     \* per event and process: its drain [pc, rows, kept]
  stored,    \* event -> its rows in the database, counted up to two
  lost,      \* history: event -> why it was given up
  enabled,   \* devices.disabled_at is null
  since,     \* how long the device has been disabled, 0 while it is not
  stop,      \* 0, or one more than the age of the .disabled file
  ask,       \* drain -> its look-up: [waited, saw], the values the route may read meanwhile
  cache,     \* process -> what it knows of it: [enabled, age, ok]
  overlap,   \* history: during a drain another one began, or an event was appended
  hasty,     \* history: a drain began too long after the device was switched off
  faults, switches

kill == <<enabled, since, stop, ask, cache, hasty>>
vars == <<file, drain, stored, lost, kill, overlap, faults, switches>>

Drains == Events \cup Processes
ProcessOf(d) == IF d \in Events THEN Owner[d] ELSE d
Row(e, due) == [ev |-> e, due |-> due]
EventsOf(rows) == {r.ev : r \in rows}
InHand(d) == EventsOf(drain[d].rows \cup drain[d].kept)
Idle == [pc |-> "idle", rows |-> {}, kept |-> {}]
Horizon == Stale + Latency  \* clocks of the killswitch stop here
Unasked == [waited |-> 0, saw |-> {}]
Unknown == [enabled |-> TRUE, age |-> Horizon, ok |-> FALSE]

Init ==
  /\ file = {} /\ drain = [d \in Drains |-> IF d \in Events THEN [Idle EXCEPT !.pc = "new"] ELSE Idle]
  /\ stored = [e \in Events |-> 0] /\ lost = [e \in Events |-> "no"]
  /\ enabled \in BOOLEAN /\ since = (IF enabled THEN 0 ELSE Horizon) /\ stop = 0 /\ ask = [d \in Drains |-> Unasked]
  /\ cache = [p \in Processes |-> Unknown] /\ overlap = FALSE /\ hasty = FALSE
  /\ faults = 0 /\ switches = 0

Fault == faults < MaxFaults /\ faults' = faults + 1
Busy == \E d \in Drains : drain[d].pc = "post"
Lose(events, why) == lost' = [e \in Events |-> IF e \in events THEN why ELSE lost[e]]

-----------------------------------------------------------------------------
(* The file. *)

\* enforceCap: the oldest rows go.
Capped(rows) == {r \in rows : Cardinality({q \in rows : r.ev < q.ev}) < Cap}

\* emitAttention: enqueue, then a drain of its own.
Emit(e) ==
  LET rows == file \cup {Row(e, TRUE)}
  IN /\ drain[e].pc = "new"
     /\ file' = Capped(rows) /\ Lose(EventsOf(rows \ Capped(rows)), "cap")
     /\ drain' = [drain EXCEPT ![e].pc = "gate"] /\ overlap' = (overlap \/ Busy)
     /\ UNCHANGED <<stored, kill, faults, switches>>

\* The heartbeat's turn to drain.
Beat(p) ==
  /\ drain[p].pc = "idle" /\ file # {} /\ drain' = [drain EXCEPT ![p].pc = "gate"]
  /\ UNCHANGED <<file, stored, lost, kill, overlap, faults, switches>>

\* nextAttemptAt has come.
BackoffEnds ==
  /\ \E r \in file \cup UNION {drain[d].kept : d \in Drains} : ~r.due
  /\ file' = {Row(r.ev, TRUE) : r \in file}
  /\ drain' = [d \in Drains |-> [drain[d] EXCEPT !.kept = {Row(r.ev, TRUE) : r \in @}]]
  /\ UNCHANGED <<stored, lost, kill, overlap, faults, switches>>

-----------------------------------------------------------------------------
(* The killswitch. *)

Asking == {d \in Drains : drain[d].pc = "ask"}

\* The dashboard's switch, and the .disabled file the user makes or removes.
Switch ==
  /\ switches < MaxSwitches /\ switches' = switches + 1
  /\ \/ /\ enabled' = ~enabled /\ since' = 0 /\ UNCHANGED stop
        /\ ask' = [d \in Drains |-> IF d \in Asking THEN [ask[d] EXCEPT !.saw = BOOLEAN] ELSE ask[d]]
     \/ stop' = (IF stop = 0 THEN 1 ELSE 0) /\ UNCHANGED <<enabled, since, ask>>
  /\ UNCHANGED <<file, drain, stored, lost, cache, overlap, hasty, faults>>

Older(age) == Min({age + 1, Horizon})

\* No look-up waits longer than its timeout.
Tick ==
  /\ \A d \in Asking : ask[d].waited < Latency
  /\ since' = (IF enabled THEN 0 ELSE Older(since)) /\ stop' = IF stop = 0 THEN 0 ELSE Min({stop + 1, Latency + 2})
  /\ ask' = [d \in Drains |-> IF d \in Asking THEN [ask[d] EXCEPT !.waited = @ + 1] ELSE ask[d]]
  /\ cache' = [p \in Processes |-> [cache[p] EXCEPT !.age = Older(@)]]
  /\ UNCHANGED <<file, drain, stored, lost, enabled, overlap, hasty, faults, switches>>

\* A successful answer is used for TTL.
Fresh(c) == c.ok /\ c.age < TTL

\* The drain begins: readRows.  It is hasty when the device was switched off too long ago for
\* what the drain goes by.
Gate(d, allowed, limit) ==
  /\ overlap' = (overlap \/ Busy)
  /\ drain' = [drain EXCEPT ![d] = IF allowed /\ file # {}
              THEN [pc |-> "post", rows |-> {r \in file : r.due}, kept |-> {r \in file : ~r.due}] ELSE Idle]
  /\ hasty' = (hasty \/ (allowed /\ file # {} /\ (stop > Latency + 1 \/ (~enabled /\ since >= limit))))
  /\ ask' = [ask EXCEPT ![d] = Unasked]
  /\ UNCHANGED <<file, stored, lost, enabled, since, stop, switches>>

\* egressEnabled: nothing while .disabled is there, else from the cache, from the control
\* plane, or, when that fails, the last known value while it is not too old, else open.
Stopped(d) ==
  /\ drain[d].pc = "gate" /\ stop # 0 /\ Gate(d, FALSE, 0) /\ UNCHANGED <<cache, faults>>

Cached(d) ==
  LET c == cache[ProcessOf(d)]
  IN /\ drain[d].pc = "gate" /\ stop = 0 /\ Fresh(c)
     /\ Gate(d, c.enabled, TTL) /\ UNCHANGED <<cache, faults>>

Ask(d) ==
  /\ drain[d].pc = "gate" /\ stop = 0 /\ ~Fresh(cache[ProcessOf(d)])
  /\ drain' = [drain EXCEPT ![d].pc = "ask"] /\ ask' = [ask EXCEPT ![d].saw = {enabled}]
  /\ UNCHANGED <<file, stored, lost, enabled, since, stop, cache, overlap, hasty, faults, switches>>

\* Mutant: fetchedAt is the time of the answer.
Stamp_answer(d) == 0

\* fetchedAt is the time the look-up began.
Stamp(d) == ask[d].waited

\* The STATE route read the switch at some time since.
Fetched(d) ==
  /\ drain[d].pc = "ask" /\ UNCHANGED faults
  /\ \E on \in ask[d].saw :
       /\ Gate(d, on, TTL)
       /\ cache' = [cache EXCEPT ![ProcessOf(d)] = [enabled |-> on, age |-> Stamp(d), ok |-> TRUE]]

\* The age of the last known value counts from the beginning of the look-up.  A value that is
\* no answer, but what an earlier failure left, is no reason to hold back.
FetchFails(d) ==
  LET p == ProcessOf(d)
      known == cache[p].age - ask[d].waited < Stale
  IN /\ drain[d].pc = "ask" /\ Fault
     /\ Gate(d, known => cache[p].enabled, IF known /\ cache[p].ok THEN Horizon ELSE Horizon + 1)
     /\ cache' = IF known THEN cache ELSE [cache EXCEPT ![p] = [Unknown EXCEPT !.age = ask[d].waited]]

-----------------------------------------------------------------------------
(* A drain. *)

\* The rows go out one by one, the oldest first.
Next1(d) == CHOOSE r \in drain[d].rows : \A q \in drain[d].rows : r.ev <= q.ev

\* Mutant: a row that should be tried again is dropped.
Retried_dropped(r) == {}

\* RETRY: the row is due later.
Retried(r) == {Row(r.ev, FALSE)}

\* Mutant: only a refusal for good ends the attempts.
Again_shipped(answer) == answer # "poison"

\* classify: which answers mean another attempt.
Again(answer) == answer \in {"retry", "unanswered"}

\* One POST; the answer is classified.  The route answers 200 even when it could not store
\* the event ("rejected"), and an answer may be lost after it did ("unanswered").
Post(d, answer) ==
  LET r == Next1(d)
  IN /\ drain[d].pc = "post" /\ drain[d].rows # {}
     /\ answer \in {"success", "rejected", "poison", "retry", "unanswered"}
     /\ drain' = [drain EXCEPT ![d].rows = @ \ {r},
                               ![d].kept = IF Again(answer) THEN @ \cup Retried(r) ELSE @]
     /\ stored' = IF answer \in {"success", "unanswered"} THEN [stored EXCEPT ![r.ev] = Min({@ + 1, 2})] ELSE stored
     /\ IF answer \in {"rejected", "poison"} THEN Lose({r.ev}, answer) ELSE UNCHANGED lost
     /\ IF answer = "success" THEN UNCHANGED faults ELSE Fault
     /\ UNCHANGED <<file, kill, overlap, switches>>

\* 401: the queue is emptied, and the drain is over.
Halt(d) ==
  /\ drain[d].pc = "post" /\ drain[d].rows # {} /\ Fault
  /\ file' = {} /\ Lose(EventsOf(file \cup drain[d].rows \cup drain[d].kept), "halt")
  /\ drain' = [drain EXCEPT ![d] = Idle]
  /\ UNCHANGED <<stored, kill, overlap, switches>>

\* Events that are nowhere when the file has these, and these drains are over.
Gone(inFile, over) ==
  {e \in Events : stored[e] = 0 /\ lost[e] = "no" /\ drain[e].pc # "new"
                  /\ e \notin inFile \cup UNION {InHand(d) : d \in Drains \ over}}

\* writeRows(survivors): whatever was appended or rewritten meanwhile is gone.
Rewrite(d) ==
  /\ drain[d].pc = "post" /\ drain[d].rows = {}
  /\ file' = drain[d].kept /\ drain' = [drain EXCEPT ![d] = Idle]
  /\ Lose({e \in Gone(EventsOf(drain[d].kept), {d}) : e \in EventsOf(file)}, "overwritten")
  /\ UNCHANGED <<stored, kill, overlap, faults, switches>>

\* A channel process dies with its drains; the file stays as it is.
Crash(p) ==
  /\ Fault /\ \E d \in Drains : ProcessOf(d) = p /\ drain[d].pc \in {"gate", "ask", "post"}
  /\ drain' = [d \in Drains |-> IF ProcessOf(d) = p /\ drain[d].pc # "new" THEN Idle ELSE drain[d]]
  /\ cache' = [cache EXCEPT ![p] = Unknown]
  /\ ask' = [d \in Drains |-> IF ProcessOf(d) = p THEN Unasked ELSE ask[d]]
  /\ Lose(Gone(EventsOf(file), {d \in Drains : ProcessOf(d) = p}), "overwritten")
  /\ UNCHANGED <<file, stored, enabled, since, stop, overlap, hasty, switches>>

\* egressEnabled up to its first await.
Decides(d) == Stopped(d) \/ Cached(d) \/ Ask(d)
Goes(d) == Fetched(d) \/ Post(d, "success") \/ Rewrite(d)

Others ==
  \/ BackoffEnds \/ Tick \/ Switch
  \/ \E e \in Events : Emit(e)
  \/ \E d \in Drains : Goes(d) \/ FetchFails(d) \/ Halt(d) \/ \E a \in {"rejected", "poison", "retry", "unanswered"} : Post(d, a)
  \/ \E p \in Processes : Beat(p) \/ Crash(p)

\* Nothing else happens before a drain that was called has come to its first await.
Next ==
  \/ \E d \in Drains : Decides(d)
  \/ (\A d \in Drains : drain[d].pc # "gate") /\ Others

\* Every drain goes on, heartbeats and time too.
Fairness ==
  /\ \A d \in Drains : WF_vars(Goes(d) \/ Decides(d))
  /\ \A p \in Processes : WF_vars(Beat(p))
  /\ WF_vars(BackoffEnds) /\ WF_vars(Tick)
Spec == Init /\ [][Next]_vars /\ Fairness
-----------------------------------------------------------------------------
(* Properties. *)

TypeOK ==
  /\ EventsOf(file) \subseteq Events /\ Cardinality(file) <= Cap
  /\ \A d \in Drains : InHand(d) \subseteq Events
  /\ since \in 0..Horizon /\ \A p \in Processes : cache[p].age \in 0..Horizon

\* An event that was raised is in the database, in the file, in the hands of a drain, or was
\* given up: refused for good, reaped, emptied with a revoked token, refused by a route that
\* could not store it; or overwritten, which takes two writers at once.
Conserved ==
  \A e \in Events :
    /\ \/ drain[e].pc = "new" \/ stored[e] > 0 \/ lost[e] # "no"
       \/ e \in EventsOf(file) \cup UNION {InHand(d) : d \in Drains}
    /\ lost[e] = "overwritten" => overlap

\* Switching off takes hold (killswitch.ts:6-16), however long a look-up takes and whichever of
\* two overlapping ones ends first: no drain begins TTL after the device was disabled unless a
\* look-up failed; nor Stale and a look-up later, unless no answer is known that is
\* young enough (then egress fails open); nor a look-up after .disabled was made.
DisableTakesHold == ~hasty

\* With egress enabled, the outbox is emptied by the heartbeats, whatever backed off.
Shipped == <>[](enabled /\ stop = 0) => <>[](file = {})

-----------------------------------------------------------------------------
(* What a comment says and the code does not do: no run checks these, TLC  *)
(* finds them violated (README, Divergences).                              *)

\* outbox.ts:4-6: "attention events POST to the cloud control plane and MUST survive
\* transient network failure".
Survives == \A e \in Events : lost[e] \in {"no", "poison", "halt", "cap"}
=============================================================================
