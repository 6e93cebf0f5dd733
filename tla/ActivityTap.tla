----------------------------- MODULE ActivityTap -----------------------------
(***************************************************************************)
(* The activity mirror: the tap daemon of a session (bin/tap.ts) tails the *)
(* agent's transcript and ships it to the control plane while the user is  *)
(* away from the keyboard (AFK); the control plane stores it only while    *)
(* AFK is on, and a trigger wipes it when AFK goes off.                    *)
(*                                                                         *)
(* Not in the model: the cap of 32 batches a tick, and a transcript that is  *)
(* truncated under its tap.                                                *)
(*                                                                         *)
(* The tap reads the AFK state once a tick, and its drain works on a       *)
(* snapshot of the outbox file, which it replaces at the end.  Two taps of *)
(* a session may overlap for a tick.  A line is its number: the cursor     *)
(* keeps bytes and lines together, and the line number is the key under    *)
(* which the control plane stores it.                                      *)
(***************************************************************************)
EXTENDS Integers, FiniteSets

CONSTANTS Taps,         \* process slots
          None,
          Kind,         \* line -> what the agent wrote there; its length bounds the transcript
          Codex,        \* TRUE: the lines are Codex's rollout items
          MaxToggles, MaxStarts, MaxFaults  \* bounds

ASSUME TapAssumption == Codex \in BOOLEAN /\ {MaxToggles, MaxStarts, MaxFaults} \subseteq Nat

VARIABLES
  written,            \* lines in the transcript
  cursorFile, outbox, \* files of the session: the cursor, the batches not shipped yet
  pidFile,            \* the tap that owns the session
  localAfk,           \* afk.state
  serverAfk,          \* devices.afk
  unsynced,           \* which of the two the other has not heard of: "none", "local", "server"
  mirror,             \* session_activity
  tap,                \* p -> the state of process p
  missed,             \* history: lines that were given up since the last backfill
  orphans,            \* history: lines an insert in flight brought back behind the last wipe
  toggles, starts, faults

files == <<cursorFile, outbox, pidFile>>
afk == <<localAfk, serverAfk, unsynced, toggles>>
vars == <<written, files, afk, mirror, tap, missed, orphans, starts, faults>>

Dead == [pc |-> "dead", cursor |-> 0, lastAfk |-> FALSE, on |-> FALSE, shipping |-> FALSE,
         backfill |-> {}, upto |-> 0, rows |-> {}, kept |-> {}]

Init ==
  /\ written = 0 /\ cursorFile = 0 /\ outbox = {} /\ pidFile = None
  /\ localAfk = FALSE /\ serverAfk = FALSE /\ unsynced = "none" /\ mirror = {}
  /\ tap = [p \in Taps |-> Dead] /\ missed = {} /\ orphans = {} /\ toggles = 0 /\ starts = 0 /\ faults = 0

-----------------------------------------------------------------------------
(* What a transcript line amounts to. *)

\* Claude Code: text and tool calls, of the results only the failures; no thinking, no meta.
ExtractActivity(kind) == kind \in {"text", "tool_use", "failed_result"}
\* Codex: the response items alone; no preamble, no reasoning, no successful output.
ExtractCodexActivity(kind) == kind \in {"message", "call", "failed_output"}
ReduceLine(l) == IF Codex THEN ExtractCodexActivity(Kind[l]) ELSE ExtractActivity(Kind[l])

\* buildEvents.
Events(lines) == {l \in lines : ReduceLine(l)}

\* Mutant: a single event is not worth a batch.
Batch_pairs(lines) == IF Cardinality(Events(lines)) <= 1 THEN {} ELSE {Events(lines)}

\* enqueueEvents: one batch, none when nothing surfaces.
Batch(lines) == IF Events(lines) = {} THEN {} ELSE {Events(lines)}

\* readNew: the complete lines after an offset.
ReadNew(from) == (from + 1)..written

-----------------------------------------------------------------------------
(* The world around the tap. *)

AgentWrites ==
  /\ written < Cardinality(DOMAIN Kind) /\ written' = written + 1
  /\ UNCHANGED <<orphans, files, afk, mirror, tap, missed, starts, faults>>

\* The trigger: AFK going off wipes the session's rows, but for those of an insert that had
\* read "afk on" before and commits behind the DELETE (repo.ts:1130-1134).
InFlight == {{}} \cup UNION {tap[p].rows : p \in Taps}
ServerSets(on) ==
  /\ serverAfk' = on
  /\ IF serverAfk /\ ~on
     THEN /\ \E row \in InFlight : mirror' = row /\ orphans' = row
          /\ missed' = missed \cup mirror
     ELSE UNCHANGED <<mirror, missed, orphans>>

\* imsg afk writes the local file; the control plane hears of it by the POST or a heartbeat.
CliToggles ==
  /\ toggles < MaxToggles /\ toggles' = toggles + 1
  /\ localAfk' = ~localAfk /\ unsynced' = "local"
  /\ UNCHANGED <<orphans, written, files, serverAfk, mirror, tap, missed, starts, faults>>

\* The dashboard sets the column; the device hears of it on its stream.
DashboardToggles ==
  /\ toggles < MaxToggles /\ toggles' = toggles + 1 /\ unsynced # "local"
  /\ ServerSets(~serverAfk) /\ unsynced' = "server"
  /\ UNCHANGED <<written, files, localAfk, tap, starts, faults>>

Syncs ==
  /\ unsynced # "none" /\ unsynced' = "none"
  /\ IF unsynced = "local" THEN ServerSets(localAfk) /\ UNCHANGED localAfk
     ELSE localAfk' = serverAfk /\ UNCHANGED <<serverAfk, mirror, missed, orphans>>
  /\ UNCHANGED <<written, files, tap, toggles, starts, faults>>

-----------------------------------------------------------------------------
(* A tap. *)

Goes(p, pc) == tap' = [tap EXCEPT ![p].pc = pc]

\* A hook spawned it: it claims the session and reads the cursor.
Start(p) ==
  /\ tap[p].pc = "dead" /\ pidFile # p /\ starts < MaxStarts /\ starts' = starts + 1
  /\ tap' = [tap EXCEPT ![p] = [Dead EXCEPT !.pc = "top", !.cursor = cursorFile]]
  /\ pidFile' = p
  /\ UNCHANGED <<orphans, written, cursorFile, outbox, afk, mirror, missed, faults>>

\* It dies, or is shut down between two ticks.
Dies(p) ==
  /\ tap[p].pc # "dead" /\ tap' = [tap EXCEPT ![p] = Dead]
  /\ starts < MaxStarts
  /\ UNCHANGED <<orphans, written, files, afk, mirror, missed, starts, faults>>

\* The top of a tick: a tap that is not the newest yields.
Top(p) ==
  /\ tap[p].pc = "top"
  /\ IF pidFile = p THEN Goes(p, "gate") ELSE tap' = [tap EXCEPT ![p] = Dead]
  /\ UNCHANGED <<orphans, written, files, afk, mirror, missed, starts, faults>>

\* Mutant: the edge is taken although the backfill could not be read.
LastAfk_edge(t) == t.on

\* The AFK edge: "on" only once a backfill landed.
LastAfk(t) == t.on /\ (t.backfill # {} \/ t.lastAfk)

\* egressEnabled has answered; classifyAfkTick decides.  A backfill reads the whole
\* transcript (readable, or not), the off edge empties the outbox.
Gate(p, enabled, readable) ==
  LET ships == enabled /\ localAfk
      fills == ships /\ ~tap[p].lastAfk
  IN /\ tap[p].pc = "gate"
     /\ ~enabled \/ ~readable => faults < MaxFaults
     /\ faults' = faults + (IF enabled /\ readable THEN 0 ELSE 1)
     /\ tap' = [tap EXCEPT ![p].pc = "tail", ![p].on = localAfk, ![p].shipping = ships,
                           ![p].backfill = IF fills /\ readable THEN {0} \cup ReadNew(0) ELSE {}]
     /\ outbox' = CASE fills /\ readable -> outbox \cup Batch(ReadNew(0))
                    [] ~localAfk /\ tap[p].lastAfk -> {}
                    [] OTHER -> outbox
     /\ missed' = CASE fills /\ readable -> {}
                    [] ~localAfk /\ tap[p].lastAfk -> missed \cup UNION outbox
                    [] OTHER -> missed
     /\ UNCHANGED <<orphans, written, cursorFile, pidFile, afk, mirror, starts>>

\* The new lines: enqueued before the cursor moves, unless the tick has backfilled.
Tail(p) ==
  LET lines == ReadNew(tap[p].cursor)
      ships == tap[p].shipping /\ tap[p].backfill = {}
  IN /\ tap[p].pc = "tail"
     /\ tap' = [tap EXCEPT ![p].pc = "commit", ![p].upto = written]
     /\ outbox' = IF ships THEN outbox \cup Batch(lines) ELSE outbox
     /\ missed' = IF ships \/ ~tap[p].on THEN missed ELSE missed \cup (lines \ tap[p].backfill)
     /\ UNCHANGED <<orphans, written, cursorFile, pidFile, afk, mirror, starts, faults>>

\* writeCursor, the edge, and the drain's reading of the outbox.
Commit(p) ==
  LET t == tap[p]
      rows == IF t.shipping THEN outbox ELSE {}
  IN /\ t.pc = "commit"
     /\ tap' = [tap EXCEPT ![p] = [Dead EXCEPT !.pc = IF rows = {} THEN "top" ELSE "post", !.cursor = t.upto,
                                              !.lastAfk = LastAfk(t), !.rows = rows]]
     /\ cursorFile' = IF t.upto > t.cursor THEN t.upto ELSE cursorFile
     /\ UNCHANGED <<orphans, written, outbox, pidFile, afk, mirror, missed, starts, faults>>

\* Mutant: rows are stored whatever the AFK state is.
Accepts_any == TRUE

\* insertSessionActivity: only while the device is AFK, in one statement.
Accepts == serverAfk

Stores(row) ==
  IF Accepts THEN mirror' = mirror \cup row /\ UNCHANGED missed
  ELSE missed' = missed \cup row /\ UNCHANGED mirror

\* One POST.  The answer may be lost, the server unreachable, the batch refused for good.
Post(p, row, outcome) ==
  /\ tap[p].pc = "post" /\ row \in tap[p].rows
  /\ tap' = [tap EXCEPT ![p].rows = @ \ {row},
                        ![p].kept = IF outcome \in {"lost", "retry"} THEN @ \cup {row} ELSE @]
  /\ CASE outcome \in {"success", "lost"} -> Stores(row)
       [] outcome = "retry" -> UNCHANGED <<mirror, missed>>
       [] outcome = "poison" -> missed' = missed \cup row /\ UNCHANGED mirror
  /\ faults' = IF outcome = "success" THEN faults ELSE faults + 1
  /\ faults' <= MaxFaults
  /\ UNCHANGED <<orphans, written, files, afk, starts>>

\* 401: the token is revoked; the outbox is emptied and the tap exits.
Halt(p) ==
  /\ tap[p].pc = "post" /\ faults < MaxFaults /\ faults' = faults + 1
  /\ outbox' = {} /\ missed' = missed \cup UNION (outbox \cup tap[p].rows \cup tap[p].kept)
  /\ tap' = [tap EXCEPT ![p] = Dead]
  /\ UNCHANGED <<orphans, written, cursorFile, pidFile, afk, mirror, starts>>

\* What a drain writes back: what it kept, and what it did not get to.
Survivors(t) == t.kept \cup t.rows

\* writeOutbox(survivors), over whatever another tap has appended since.  A drain that is
\* shut down keeps the rest of its rows, and the tap exits.
WriteBack(p) ==
  /\ tap[p].pc = "post" /\ (tap[p].rows = {} \/ starts < MaxStarts)
  /\ outbox' = Survivors(tap[p])
  /\ missed' = missed \cup ((UNION (outbox \ (tap[p].kept \cup tap[p].rows))) \ mirror)
  /\ tap' = [tap EXCEPT ![p] = IF @.rows = {} THEN [@ EXCEPT !.pc = "top", !.kept = {}] ELSE Dead]
  /\ UNCHANGED <<orphans, written, cursorFile, pidFile, afk, mirror, starts, faults>>

Works(p) ==
  \/ Top(p) \/ Tail(p) \/ Commit(p) \/ Gate(p, TRUE, TRUE)
  \/ \E row \in tap[p].rows : Post(p, row, "success")
  \/ tap[p].rows = {} /\ WriteBack(p)
Fails(p) ==
  \/ Dies(p) \/ Halt(p) \/ WriteBack(p)
  \/ \E enabled, readable \in BOOLEAN : Gate(p, enabled, readable)
  \/ \E row \in tap[p].rows, o \in {"lost", "retry", "poison"} : Post(p, row, o)

Next ==
  \/ AgentWrites \/ CliToggles \/ DashboardToggles \/ Syncs
  \/ \E p \in Taps : Start(p) \/ Works(p) \/ Fails(p)

\* Ticks go on, hooks respawn a tap that died, and the two AFK states are reconciled.
Fairness ==
  /\ WF_vars(Syncs) /\ \A p \in Taps : WF_vars(Works(p))
Spec == Init /\ [][Next]_vars /\ Fairness
-----------------------------------------------------------------------------
(* Properties. *)

Lines == DOMAIN Kind
TypeOK ==
  /\ written \in 0..Cardinality(Lines) /\ cursorFile \in 0..written
  /\ outbox \subseteq SUBSET Lines /\ mirror \subseteq Lines /\ pidFile \in Taps \cup {None}
  /\ \A p \in Taps : tap[p].cursor <= written /\ tap[p].rows \cup tap[p].kept \subseteq SUBSET Lines

\* The copy on the server is ephemeral: whatever batches are still on their way when AFK goes
\* off, by whichever side, the wipe is final but for an insert that was in the database at
\* that very moment (db/schema.sql:612-622); a later drain brings nothing back.
Ephemeral == ~serverAfk => mirror \subseteq orphans

\* What a tap passed over while shipping is stored, queued in the file, or in one of the places
\* where the code gives lines up: a killswitched stretch, a wipe, a refused batch, a revoked
\* token, a second tap's rewrite.  Retries, deaths and interrupted drains lose nothing more:
\* what a drain holds is never the only copy.
Conserved ==
  \A p \in Taps : tap[p].lastAfk => Events(1..tap[p].cursor) \subseteq mirror \cup missed \cup UNION outbox

Settled ==
  localAfk /\ serverAfk /\ unsynced = "none" /\ \E p \in Taps : pidFile = p /\ tap[p].pc # "dead"

\* While the user stays away, everything the agent did reaches the control plane, but for
\* what was given up.
ContextArrives == <>[]Settled => <>[](Events(1..written) \subseteq mirror \cup missed)

-----------------------------------------------------------------------------
(* What a comment says and the code does not do: no run checks these, TLC  *)
(* finds them violated (README, Divergences).                              *)

\* bin/tap.ts:12-14: "On the off->on edge we backfill the whole session from byte 0 so the
\* orchestrator gets context from BEFORE the user stepped away": without a fault, all of it.
ContextComplete == <>[]Settled => <>[](Events(1..written) \subseteq mirror)
=============================================================================
