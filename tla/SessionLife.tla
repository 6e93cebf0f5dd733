------------------------------ MODULE SessionLife ------------------------------
(***************************************************************************)
(* The sessions of one machine as the control plane sees them (repo.ts):   *)
(* every write of a session row, the sweep that ends the stale ones        *)
(* (index.ts), and the text that says a machine driven from the phone has  *)
(* been lost.  Times are ages, counted up to the longest one that matters. *)
(* One paired, enabled device; its titles and labels are left out.         *)
(***************************************************************************)
EXTENDS Integers, FiniteSets, FiniteSetsExt

CONSTANTS Sessions,
          Stale,      \* SESSION_STALE_SECONDS
          Offline,    \* DEVICE_OFFLINE_NOTIFY_SECONDS
          Chat,       \* DEVICE_CONVERSATION_ACTIVE_SECONDS
          MaxAsks     \* bound: requests the agents raise

ASSUME LifeAssumption ==
  /\ {Stale, Offline, Chat} \subseteq Nat \ {0} /\ Stale <= Offline
  /\ MaxAsks \in Nat

VARIABLES
  proc,    \* session -> "up", "ending" (its channel has left, its tap not yet), "gone"; one that is
           \* asleep or cut off is up and posts nothing
  beats,   \* sessions with a heartbeat on its way; bound: one each
  row,     \* session -> its row: [state, age of last_event_at]
  request, \* session -> "none", or its attention event: "storing", "open"
  afk,     \* devices.afk is on
  quiet,   \* time since the user's last text
  armed,   \* lost_notified_at is null, or the last text is newer
  notice,  \* the claimed notice: "none", "due", or "overtaken" by a text of the user
  texts,   \* history: notices claimed since the user's last text that reached the phone
  muted,   \* history: one that did not
  asks

noticeVars == <<quiet, armed, notice, texts, muted>>
lifeVars == <<proc, beats, row, request, afk, noticeVars, asks>>

LifeInit ==
  /\ proc = [s \in Sessions |-> "up"] /\ beats = {} /\ row = [s \in Sessions |-> [state |-> "active", age |-> 0]]
  /\ request = [s \in Sessions |-> "none"]
  /\ afk = FALSE /\ quiet = 0 /\ armed = TRUE /\ notice = "none" /\ texts = 0 /\ muted = FALSE
  /\ asks = 0

States == {"active", "idle", "waiting"}
Live(s) == row[s].state # "ended" /\ row[s].age < Stale

-----------------------------------------------------------------------------
(* What writes a session's row. *)

\* upsertSession: a given state wins; otherwise an ended session comes back if the caller says so.
Upserted(r, state, reviveIfEnded) ==
  [state |-> CASE state # "none" -> state
               [] state = "none" /\ r.state = "ended" /\ reviveIfEnded -> "active"
               [] OTHER -> r.state,
   age |-> 0]

\* heartbeatLoop posts a beat; it may be handled late, or never.
PostBeat(s) ==
  /\ proc[s] = "up" /\ s \notin beats /\ beats' = beats \cup {s}
  /\ UNCHANGED <<proc, row, request, afk, noticeVars, asks>>

LoseBeat(s) ==
  /\ s \in beats /\ beats' = beats \ {s}
  /\ UNCHANGED <<proc, row, request, afk, noticeVars, asks>>

\* HEARTBEAT, whether or not the session that posted it still runs.
Heartbeat(s) ==
  /\ s \in beats /\ beats' = beats \ {s} /\ row' = [row EXCEPT ![s] = Upserted(@, "none", TRUE)]
  /\ UNCHANGED <<proc, request, afk, noticeVars, asks>>

\* Mutant: the lines a dying session left are taken for proof of life.
Flushed_revives(r) == Upserted(r, "none", TRUE)

\* ACTIVITY: the tap's lines.
Flushed(r) == Upserted(r, "none", FALSE)

TailFlush(s) ==
  /\ proc[s] = "ending" /\ row' = [row EXCEPT ![s] = Flushed(@)]
  /\ UNCHANGED <<proc, beats, request, afk, noticeVars, asks>>

\* ATTENTION and PERMISSION: the session waits, then the request is stored.  The event may come
\* out of the machine's outbox, after its session.
AttentionArrives(s) ==
  /\ asks < MaxAsks /\ asks' = asks + 1 /\ request[s] = "none" /\ \E t \in Sessions : proc[t] = "up"
  /\ row' = [row EXCEPT ![s] = Upserted(@, "waiting", TRUE)] /\ request' = [request EXCEPT ![s] = "storing"]
  /\ UNCHANGED <<proc, beats, afk, noticeVars>>

AttentionStored(s) ==
  /\ request[s] = "storing" /\ request' = [request EXCEPT ![s] = "open"]
  /\ UNCHANGED <<proc, beats, row, afk, noticeVars, asks>>

Resolve(s) ==
  /\ request[s] = "open" /\ request' = [request EXCEPT ![s] = "none"]
  /\ UNCHANGED <<proc, beats, row, afk, noticeVars, asks>>

\* applySessionStatePing: it never revives; a finished turn is not idle while a request is open.
Applies(s, state) == row[s].state # "ended" /\ (state = "idle" => request[s] # "open")

\* The hooks' TURN_START, TURN_COMPLETE, BLOCKED, which may outlast the channel.
Ping(s, state) ==
  /\ proc[s] # "gone" /\ Applies(s, state) /\ row[s].state # state
  /\ row' = [row EXCEPT ![s].state = state]
  /\ UNCHANGED <<proc, beats, request, afk, noticeVars, asks>>

-----------------------------------------------------------------------------
(* The machine and the user. *)

\* The session ends: first its channel, then its tap.
Exit(s) ==
  /\ proc[s] \in {"up", "ending"} /\ proc' = [proc EXCEPT ![s] = IF @ = "up" THEN "ending" ELSE "gone"]
  /\ UNCHANGED <<beats, row, request, afk, noticeVars, asks>>

\* Mutant: only a machine that was never announced is due.
Rearms_never == armed' = armed

\* What the user's text does to the next claim: it is newer than lost_notified_at.
Rearms == armed' = TRUE

Inbound ==
  /\ quiet' = 0 /\ Rearms /\ texts' = 0 /\ muted' = FALSE
  /\ notice' = IF notice = "none" THEN "none" ELSE "overtaken"
  /\ UNCHANGED <<proc, beats, row, request, afk, asks>>

ToggleAfk == afk' = ~afk /\ UNCHANGED <<proc, beats, row, request, noticeVars, asks>>

-----------------------------------------------------------------------------
(* The sweep.  At boot it only reaps. *)

\* reapStaleSessions.
Reap ==
  /\ \E s \in Sessions : row[s].state # "ended" /\ row[s].age >= Stale
  /\ row' = [s \in Sessions |-> IF row[s].age >= Stale THEN [row[s] EXCEPT !.state = "ended"] ELSE row[s]]
  /\ UNCHANGED <<proc, beats, request, afk, noticeVars, asks>>

\* Mutant: a machine that was back in between is armed again.
Due_flapping == afk /\ quiet >= Chat /\ \A s \in Sessions : row[s].age = Offline

Due == afk /\ (\A s \in Sessions : row[s].age >= Offline) /\ armed /\ quiet >= Chat

\* claimDevicesToNotifyLost, by whichever instance comes first: the lock before the text.
ClaimLost ==
  /\ Due /\ armed' = FALSE /\ notice' = "due"
  /\ UNCHANGED <<proc, beats, row, request, afk, quiet, texts, muted, asks>>

\* notifyLostDevices: one text, sent once.  The provider may refuse it, or the instance may die
\* after the claim: nobody sends it again.
Announce(reached) ==
  /\ notice # "none" /\ notice' = "none"
  /\ texts' = IF notice = "due" /\ reached THEN Min({texts + 1, 2}) ELSE texts
  /\ muted' = (muted \/ (notice = "due" /\ ~reached))
  /\ UNCHANGED <<proc, beats, row, request, afk, quiet, armed, asks>>

Announces == \E reached \in BOOLEAN : Announce(reached)

Ages == (\E s \in Sessions : row[s].age < Offline) \/ quiet < Chat
LifeTick == \* a claimed notice is on the phone, or lost, in no time
  /\ notice = "none" /\ row' = [s \in Sessions |-> [row[s] EXCEPT !.age = Min({@ + 1, Offline})]]
  /\ quiet' = Min({quiet + 1, Chat})
  /\ UNCHANGED <<proc, beats, request, afk, armed, notice, texts, muted, asks>>

LifeNext ==
  \/ Reap \/ ClaimLost \/ Announces \/ Inbound \/ ToggleAfk
  \/ \E s \in Sessions : PostBeat(s) \/ LoseBeat(s) \/ Heartbeat(s) \/ TailFlush(s) \/ AttentionArrives(s) \/ AttentionStored(s)
                         \/ Resolve(s) \/ Exit(s) \/ \E state \in States : Ping(s, state)
-----------------------------------------------------------------------------
(* Properties. *)

LifeTypeOK ==
  /\ row \in [Sessions -> [state : States \cup {"ended"}, age : 0..Offline]]
  /\ quiet \in 0..Chat /\ notice \in {"none", "due", "overtaken"} /\ texts \in 0..2

\* "Texts at most once per offline episode and re-arms only when the user re-engages"
\* (index.ts:42-44), however the machine flaps.  A notice that was claimed before the user's last
\* text and sent after it does not count.
OneTextPerEngagement == texts <= 1

\* When a machine driven from the phone is lost for good and the user is quiet, he has had a notice
\* since the last text he sent, or that notice was dropped (index.ts:47-50).
LostIsAnnounced ==
  <>[](afk /\ quiet = Chat /\ \A s \in Sessions : row[s].age >= Offline)
    => <>[](texts > 0 \/ muted)

\* What shows an ended session again is a heartbeat its channel posted while it ran, once for each,
\* or a request of it, perhaps out of the machine's outbox: never the tail its tap left, a late hook,
\* an answered request or the sweep, in whatever order they come.
NoGhost ==
  [][\A s \in Sessions : row[s].state = "ended" /\ row'[s].state # "ended"
       => s \in beats \ beats' \/ (request[s] = "none" /\ request'[s] = "storing")]_lifeVars

-----------------------------------------------------------------------------
(* What a comment says and the code does not do: no run checks these, TLC  *)
(* finds them violated (README, Divergences).                              *)

\* "A turn that ended while parked on a phone reply must stay WAITING, atomically" (repo.ts:1207).
ParkedStaysWaiting == \A s \in Sessions : request[s] = "open" => row[s].state # "idle"
=============================================================================
