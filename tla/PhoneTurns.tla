------------------------------ MODULE PhoneTurns ------------------------------
(***************************************************************************)
(* What the assistant's turns do with the requests and messages of the     *)
(* coding agents: orchestrator/index.ts (agent-event, relay and user       *)
(* turns, tool dispatch), orchestrator/safety.ts (tap-back binding), and   *)
(* the ATTENTION and MESSAGE routes that start the agent-driven turns.     *)
(*                                                                         *)
(* A request (an attention row) is surfaced on the phone by a message; the *)
(* row remembers the message that fronts it, and a tap-back on that        *)
(* message binds to the row.  Turns of an account run one at a time   *)
(* (AccountLease); only the deadline of a Codex permission resolves rows   *)
(* while a turn is running.  A turn works on the rows as it loaded them.   *)
(* Which tool the model calls, and with which arguments, is its own        *)
(* choice: every call its tools admit is a step.                           *)
(***************************************************************************)
EXTENDS Integers, FiniteSets, SequencesExt

CONSTANTS Requests,   \* attention rows the agents may raise
          Relays,     \* message_user texts the agents may send
          Sessions, None,
          Kinds,      \* r -> the kinds its row may have: a destructive or another permission,
                      \* a plan, a question
          SessionOf,  \* [Requests \cup Relays -> Sessions]
          MaxRounds,  \* tool calls of a turn (MAX_ROUNDS rounds in llm.ts)
          MaxInbound, \* bound: texts and tap-backs of the user
          MaxIds      \* bound: messages on the phone that a row or a turn refers to

ASSUME PhoneAssumption ==
  /\ Kinds \in [Requests -> SUBSET {"destructive", "edit", "plan", "question"}]
  /\ SessionOf \in [Requests \cup Relays -> Sessions]
  /\ None \notin Requests \cup Relays \cup Sessions
  /\ Requests \cap Relays = {}
  /\ {MaxRounds, MaxInbound, MaxIds} \subseteq Nat
  \* There is always an id to give to the next message.
  /\ IsFiniteSet(Requests) /\ MaxIds > Cardinality(Requests) + MaxInbound

VARIABLES
  kindOf,      \* r -> the kind of its row
  row,       \* r -> "absent", "pending", or the verdict it was resolved with
  notify,    \* r -> the message that fronts it: its id (notify_message_id, 0 for none),
             \* what it is about, and whose words it has: the code's, the model's, or the
             \* model's in a turn that had not loaded the row (blind)
  arrived,   \* the rows in the order of created_at
  jobs,      \* turns that were started and wait for the account's lock
  turn,      \* the turn that holds it
  verdict,   \* history: r -> what the turn that resolved it was bound to
  fate,      \* history: what the user got of a request or a relay by its turn
  heard,     \* history: m -> whose words of a relay the user got
  noId,      \* history: relays of which a message reached the phone and no id came back
  inbound

phoneVars == <<heard, noId>>
vars == <<kindOf, row, notify, arrived, jobs, turn, verdict, fate, phoneVars, inbound>>

Items == Requests \cup Relays
Permission(r) == kindOf[r] \in {"destructive", "edit"}
Message(id, about, by) == [id |-> id, about |-> about, by |-> by]
Job(kind, of, tap) == [kind |-> kind, of |-> of, tap |-> tap]
Free == [kind |-> "none", of |-> None, tap |-> 0, pending |-> {}, bound |-> None,
         said |-> "nothing", calls |-> 0]
\* A message of yesterday: it fronts no request.
Old == MaxIds + 1

Init ==
  /\ kindOf = [r \in Requests |-> "none"]
  /\ row = [r \in Requests |-> "absent"] /\ arrived = <<>>
  /\ notify = [r \in Requests |-> Message(0, None, "nobody")] /\ jobs = {} /\ turn = Free
  /\ verdict = [r \in Requests |-> [tapped |-> FALSE, bound |-> None]]
  /\ fate = [i \in Items |-> "open"] /\ heard = [m \in Relays |-> {}] /\ noId = {} /\ inbound = 0

-----------------------------------------------------------------------------
(* What starts a turn. *)

\* POST /attention and /permission: the row is stored; with AFK on it goes to the phone.
AttentionArrives(r, k, away) ==
  /\ row[r] = "absent" /\ k \in Kinds[r] /\ kindOf' = [kindOf EXCEPT ![r] = k]
  /\ row' = [row EXCEPT ![r] = "pending"] /\ arrived' = Append(arrived, r)
  /\ jobs' = IF away THEN jobs \cup {Job("event", r, 0)} ELSE jobs
  /\ UNCHANGED <<notify, turn, verdict, fate, phoneVars, inbound>>

\* POST /message, with AFK on, of a live session, outside the throttle's second: accepted.  A relay that
\* asks for its exact words gets them when they fit a screen.
RelayArrives(m, exact) ==
  /\ fate[m] = "open" /\ fate' = [fate EXCEPT ![m] = "accepted"]
  /\ jobs' = jobs \cup {Job(IF exact THEN "exact" ELSE "relay", m, 0)}
  /\ UNCHANGED <<kindOf, row, notify, arrived, turn, verdict, phoneVars, inbound>>

\* The user texts (tap 0), or taps back on a message.
UserActs(tap) ==
  /\ tap \in {0, Old} \cup {notify[r].id : r \in Requests}
  /\ inbound < MaxInbound /\ inbound' = inbound + 1
  /\ jobs' = jobs \cup {Job("user", None, tap)}
  /\ UNCHANGED <<kindOf, row, notify, arrived, turn, verdict, fate, phoneVars>>

\* The deadline of a Codex permission denies it, whatever turn is running.
DeadlineDenies(r) ==
  /\ Permission(r) /\ row[r] = "pending"
  /\ row' = [row EXCEPT ![r] = "deny"]
  /\ UNCHANGED <<kindOf, notify, arrived, jobs, turn, verdict, fate, phoneVars, inbound>>

-----------------------------------------------------------------------------
(* Sending, binding, resolving. *)

\* An id nobody refers to: forgotten messages lend theirs, which keeps the ids few.
InUse == {notify[r].id : r \in Requests} \cup {j.tap : j \in jobs} \cup {turn.tap}
NewId == CHOOSE i \in 1..MaxIds : i \notin InUse

\* sendToUser: the message reaches the phone and its id comes back (sent); it reaches the
\* phone, but the call throws or its answer has no id (unsure); or the provider refuses it.
Outcomes == {"sent", "unsure", "refused"}
Sends(about, by, out) ==
  /\ heard' = IF out # "refused" /\ about \in Relays THEN [heard EXCEPT ![about] = @ \cup {by}] ELSE heard
  /\ noId' = IF out = "unsure" /\ about \in Relays THEN noId \cup {about} ELSE noId

\* setAttentionNotifyMessageId, with the message that was just sent.
Fronts(r, about, by) == notify' = [notify EXCEPT ![r] = Message(NewId, about, by)]

\* notifyStatic and surfaceRequestMessage: the code's own words, bound to the request.
Static(r, out) ==
  /\ Sends(r, "code", out)
  /\ IF out = "sent" THEN Fronts(r, r, "code") ELSE UNCHANGED notify
SendsOnly(about, by, out) == Sends(about, by, out) /\ UNCHANGED notify

\* deterministicTarget: a tap-back binds to the one request its message fronts, or to none;
\* a text binds to the only pending request.
Target(tap, pending) ==
  LET fits == IF tap # 0 THEN {r \in pending : notify[r].id = tap} ELSE pending
  IN IF Cardinality(fits) = 1 THEN CHOOSE r \in fits : TRUE ELSE None

\* The account's unresolved rows, as the turn's prologue reads them.
Pending == {r \in Requests : row[r] = "pending"}

\* The body of withAccountLock starts; the context is loaded.
Begin(j) ==
  /\ turn = Free /\ j \in jobs /\ jobs' = jobs \ {j}
  /\ turn' = [Free EXCEPT !.kind = j.kind, !.of = j.of, !.tap = j.tap, !.pending = Pending,
                          !.bound = IF j.kind = "user" THEN Target(j.tap, Pending) ELSE None]
  /\ UNCHANGED <<kindOf, row, notify, arrived, verdict, fate, phoneVars, inbound>>

\* A destructive permission gets the code's words: no model is asked.
Bypasses == turn.kind = "event" /\ kindOf[turn.of] = "destructive"
AsIs == turn.kind = "exact"
AsksForUser == turn.kind = "user"
AsksForEvent == turn.kind = "event" /\ ~Bypasses
AsksForRelay == turn.kind = "relay"
AsksModel == AsksForUser \/ AsksForEvent \/ AsksForRelay

\* sent.count: what the turn knows to have sent, after one more message.
Said(out) == IF out = "sent" \/ turn.said = "sent" THEN "sent" ELSE "refused"

\* The lock is released.
Close(said) ==
  /\ turn' = Free
  /\ fate' = IF turn.of = None THEN fate ELSE [fate EXCEPT ![turn.of] = IF said = "nothing" THEN "silent" ELSE "done"]

NotifyBypass(out) ==
  /\ Bypasses /\ Static(turn.of, out) /\ Close(Said(out))
  /\ UNCHANGED <<kindOf, row, arrived, jobs, verdict, inbound>>

RelayVerbatim(out) ==
  /\ AsIs /\ SendsOnly(turn.of, "agent", out) /\ Close(Said(out))
  /\ UNCHANGED <<kindOf, row, arrived, jobs, verdict, inbound>>

-----------------------------------------------------------------------------
(* The tools of a turn. *)

MayCall == AsksModel /\ turn.calls < MaxRounds
Called(t) == [t EXCEPT !.calls = @ + 1]
Spoke(out) == turn' = [Called(turn) EXCEPT !.said = Said(out)]

\* What a text is about: what the model says, or the request that triggered the turn.
About(r) == IF r # None THEN r ELSE IF turn.kind = "event" THEN turn.of ELSE None
\* Mutant: the model's prose may front any request.
MayFront_any(r) == r # None

\* A destructive permission of the turn's snapshot is never bound to the model's prose.
MayFront(r) == r # None /\ (r \notin turn.pending \/ kindOf[r] # "destructive")

\* message_user with a text, about a request of the account or none.  The id is the model's
\* word: the row may have been closed before the turn loaded the account, or raised since.
MessageUser(r, out) ==
  /\ MayCall /\ (r # None => row[r] # "absent") /\ Spoke(out)
  /\ Sends(turn.of, "model", out)
  /\ IF out = "sent" /\ MayFront(About(r))
     THEN Fronts(About(r), About(r), IF About(r) \in turn.pending THEN "model" ELSE "blind")
     ELSE UNCHANGED notify
  /\ UNCHANGED <<kindOf, row, arrived, jobs, verdict, fate, inbound>>

\* message_user with surface_request: any request of the account, resolved ones included.
Surface(r, out) ==
  /\ MayCall /\ row[r] # "absent" /\ Static(r, out) /\ Spoke(out)
  /\ UNCHANGED <<kindOf, row, arrived, jobs, verdict, fate, inbound>>

\* latestByCreatedAt.
Latest(cands) == arrived[Max({i \in DOMAIN arrived : arrived[i] \in cands})]

\* Mutant: the most recent candidate, whatever the tap-back chose.
PickStrict_latest(cands) == IF cands = {} THEN None ELSE Latest(cands)

\* pickStrict: the bound request, else the only candidate, else none.
PickStrict(cands) ==
  IF turn.bound \in cands THEN turn.bound
  ELSE IF Cardinality(cands) = 1 THEN CHOOSE r \in cands : TRUE ELSE None

\* resolveAttention: only the first resolve of a row counts.
Resolve(r, behavior) ==
  IF row[r] = "pending"
  THEN /\ row' = [row EXCEPT ![r] = behavior]
       /\ verdict' = [verdict EXCEPT ![r] = [tapped |-> turn.tap # 0, bound |-> turn.bound]]
  ELSE UNCHANGED <<row, verdict>>

\* Only a turn of the user may do more than notify.
HumanDrives == turn.kind = "user"

\* message_agent with an action, on a session.
Decide(s, action) ==
  LET ofSession == {r \in turn.pending : SessionOf[r] = s}
      cands == CASE action = "allow" -> {r \in ofSession : Permission(r)}
                 [] action = "approve" -> {r \in ofSession : kindOf[r] = "plan"}
                 [] action = "deny" -> ofSession
      target == IF PickStrict(cands) # None \/ action = "allow" THEN PickStrict(cands) ELSE Latest(cands)
  IN /\ MayCall /\ HumanDrives /\ cands # {} /\ target # None
     /\ Resolve(target, IF action = "deny" THEN "deny" ELSE "allow")
     /\ turn' = Called(turn)
     /\ UNCHANGED <<kindOf, notify, arrived, jobs, fate, phoneVars, inbound>>

-----------------------------------------------------------------------------
(* The end of a turn that asked the model. *)

\* Mutant: a turn of an event may stop without a word.
Ends_silent(out) ==
  /\ AsksModel /\ out = "sent" /\ UNCHANGED <<phoneVars, notify>> /\ Close(turn.said)
  /\ UNCHANGED <<kindOf, row, arrived, jobs, verdict, inbound>>

\* The turn is over with what was said; a relay the model found trivial may end in silence.
EndsAsIs(out) == out = "refused" /\ UNCHANGED <<phoneVars, notify>> /\ Close(turn.said)

\* The model stops.  An event nobody was told of falls back to the code's words.
Ends(out) ==
  /\ AsksModel
  /\ IF turn.kind = "event" /\ turn.said # "sent" THEN Static(turn.of, out) /\ Close(Said(out))
     ELSE EndsAsIs(out)
  /\ UNCHANGED <<kindOf, row, arrived, jobs, verdict, inbound>>

\* It stops with prose and had never called message_user: onUnsentText; Ends is what follows
\* for an event when no id of the prose came back.
EndsWithProse(out) ==
  /\ AsksModel /\ turn.said = "nothing" /\ out \in {"sent"} \cup IF turn.kind = "event" THEN {} ELSE {"unsure"}
  /\ Sends(turn.of, "model", out) /\ Close(Said(out))
  /\ IF turn.kind = "event" THEN Fronts(turn.of, turn.of, "model") ELSE UNCHANGED notify
  /\ UNCHANGED <<kindOf, row, arrived, jobs, verdict, inbound>>

\* Mutant: it forwards it on any failure.
Forwards_always == TRUE

\* A failed relay forwards the raw text, unless the model is known to have sent something.
Forwards == turn.said # "sent"

\* The model cannot be reached: notify, apologise, or forward.
Errs(out) ==
  /\ AsksModel
  /\ CASE turn.kind = "event" -> Static(turn.of, out) /\ Close(Said(out))
       [] turn.kind = "user" -> SendsOnly(None, "code", out) /\ Close(Said(out))
       [] turn.kind = "relay" -> IF Forwards THEN SendsOnly(turn.of, "agent", out) /\ Close(Said(out))
                                 ELSE EndsAsIs(out)
  /\ UNCHANGED <<kindOf, row, arrived, jobs, verdict, inbound>>

Turn == \/ \E out \in Outcomes :
             \/ EndsWithProse(out) \/ NotifyBypass(out) \/ RelayVerbatim(out) \/ Ends(out) \/ Errs(out)
             \/ \E r \in Requests \cup {None} : MessageUser(r, out)
             \/ \E r \in Requests : Surface(r, out)
        \/ \E s \in Sessions, a \in {"allow", "approve", "deny"} : Decide(s, a)

Next ==
  \/ \E r \in Requests : (\E k \in Kinds[r], away \in BOOLEAN : AttentionArrives(r, k, away)) \/ DeadlineDenies(r)
  \/ \E m \in Relays, exact \in BOOLEAN : RelayArrives(m, exact)
  \/ \E tap \in 0..Old : UserActs(tap)
  \/ \E j \in jobs : Begin(j)
  \/ Turn

Spec == Init /\ [][Next]_vars
-----------------------------------------------------------------------------
(* Properties. *)

TypeOK ==
  /\ row \in [Requests -> {"absent", "pending", "allow", "deny"}]
  /\ \A r \in Requests : notify[r].id \in 0..MaxIds
  /\ turn.bound \in turn.pending \cup {None}
  /\ turn.calls <= MaxRounds /\ turn.pending \subseteq ToSet(arrived)

\* What a tap-back approves: the message that fronts a destructive permission is the code's
\* own description of that very permission, and no turn that knew the permission puts the
\* model's prose there, whichever rows it names, and however often, while others come and go
\* (execMessageUser).  A turn that had not loaded the row does: the code looks no further than
\* its snapshot.  No message fronts two requests, so a tap-back can bind to one at most.
FrontIsTruthful ==
  \A r \in Requests : notify[r].id # 0 =>
    /\ kindOf[r] = "destructive" => notify[r].about = r /\ notify[r].by \in {"code", "blind"}
    /\ \A q \in Requests \ {r} : notify[q].id # notify[r].id

\* A tap-back that bound to a permission never allows another one of that session, whatever
\* the model asks for, how often, and whatever the deadline closed meanwhile.
TapbackAllowsItsOwn ==
  \A r, q \in Requests : row[r] = "allow" /\ verdict[r].tapped /\ verdict[r].bound = q
    /\ SessionOf[r] = SessionOf[q] /\ Permission(r) /\ Permission(q) => r = q

\* No request of an agent is passed over in silence: its turn sends something, or the provider
\* refused what it sent.
NeverEaten == \A r \in Requests : fate[r] # "silent"

\* The raw text of a relay is never sent on top of the model's version of it, unless a message
\* reached the phone whose id did not come back (relayAgentMessageLocked, sent.count).
ForwardedOnce == \A m \in Relays \ noId : Cardinality(heard[m]) <= 1

-----------------------------------------------------------------------------
(* What the code's comments have and the code does not.  No run checks them. *)

\* "that binding must only ever front a code-generated, accurate notification".
OnlyCodeFronts ==
  \A r \in Requests : notify[r].id # 0 /\ kindOf[r] = "destructive" => notify[r].by = "code"

\* "if the model already delivered a summary before the turn threw mid-round, a raw forward
\* here would DUPLICATE it": nobody would get both.
NeverDoubled == \A m \in Relays : Cardinality(heard[m]) <= 1
=============================================================================
