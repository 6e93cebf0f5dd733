------------------------------ MODULE SessionHooks ------------------------------
(***************************************************************************)
(* One session of a coding agent as its hooks see it: the tap daemon that  *)
(* the hooks start and keep alive (tap-spawn.ts, session-end.ts, the main  *)
(* loop of bin/tap.ts), coordinated by three files, and the session title  *)
(* the tap finds in the transcript, the channel's heartbeat ships and the  *)
(* user may overwrite.  Every process may be interleaved with every other: *)
(* a step is what one does between two looks at a file another writes.     *)
(* What the tap uploads while the user is away is ActivityTap's.           *)
(***************************************************************************)
EXTENDS Integers, Sequences, FiniteSets

CONSTANTS Taps,       \* bound: pids of taps that run at once
          Hooks,      \* bound: per-turn hooks that run at once
          Transcript, \* TitleRank of each line the agent will write, 0 for a line without a title
          MaxResumes, \* bound: times the session is resumed
          MaxSlips   \* bound: crashes, kills, sleeps, lost requests, lost tokens, hooks that overlap, looks in vain, renames

ASSUME HooksAssumption ==
  /\ 0 \notin Taps /\ {MaxResumes, MaxSlips} \subseteq Nat /\ Transcript \in Seq(0..3)

CUSTOM == 3
Titles == 0..Len(Transcript) \* a title is the line it comes from, 0 is none
Renamed == Len(Transcript) + 1

VARIABLES
  agent,    \* the agent's process is there
  auth,     \* the device's token: "paired", "revoked", or "none" (or egress is off locally)
  lines,    \* lines in the transcript
  hook,     \* hook -> [pc, tap]: "idle", "spawning" or "claiming" for the tap it has spawned
  ending,   \* SessionEnd has signalled the tap and has yet to remove its sentinel
  alive,    \* <id>.alive: "none", "fresh", "stale"
  pidFile,  \* 0 for none
  shutdown, \* <id>.shutdown is there
  tap,      \* pid -> [pc, term, reader, missed, rank, at, upto]
  file,     \* <id>.title
  sent,     \* <id>.title.sent
  beat,     \* the heartbeat in flight: [pc, title]
  late,     \* the title in a heartbeat the channel has given up on and that is still on its way
  title,    \* sessions.title
  stray,    \* history: a beat given up on had an older title than the one stored last
  resumes, slips

sentinels == <<alive, pidFile, shutdown>>
titleVars == <<sent, beat, late, title, stray>>
bounds == <<resumes, slips>>
hooksVars == <<agent, auth, lines, hook, ending, sentinels, tap, file, titleVars, bounds>>

NoTap == [pc |-> "none", term |-> FALSE, reader |-> FALSE, missed |-> FALSE, rank |-> 0, at |-> 0, upto |-> 0]
Idle == [pc |-> "idle", tap |-> 0]
NoBeat == [pc |-> "idle", title |-> 0]
Slip == slips < MaxSlips /\ slips' = slips + 1 /\ UNCHANGED resumes
Becomes(p, pc) == tap' = [tap EXCEPT ![p].pc = pc]

HooksInit ==
  /\ agent = TRUE /\ auth = "paired" /\ lines = 0 /\ hook = [h \in Hooks |-> Idle] /\ ending = FALSE
  /\ alive = "none" /\ pidFile = 0 /\ shutdown = FALSE /\ tap = [p \in Taps |-> NoTap]
  /\ file = 0 /\ sent = 0 /\ beat = NoBeat /\ late = 0 /\ title = 0 /\ stray = FALSE
  /\ resumes = 0 /\ slips = 0

-----------------------------------------------------------------------------
(* The agent and its hooks. *)

Writes ==
  /\ agent /\ lines < Len(Transcript) /\ lines' = lines + 1
  /\ UNCHANGED <<agent, auth, hook, ending, sentinels, tap, file, titleVars, bounds>>

\* ensureTap, called by SessionStart and at either end of a turn: not without a transcript and a
\* token, and nothing to do while the sentinel is fresh.
Checks(h) ==
  /\ agent /\ hook[h] = Idle /\ lines > 0 /\ auth # "none" /\ alive # "fresh"
  /\ hook' = [hook EXCEPT ![h].pc = "spawning"]
  /\ IF \E g \in Hooks : hook[g] # Idle THEN Slip ELSE UNCHANGED bounds
  /\ UNCHANGED <<agent, auth, lines, ending, sentinels, tap, file, titleVars>>

\* Mutant: the sentinel of an earlier run is left where it is.
ClearedShutdown_kept == shutdown

\* What a spawn leaves of the shutdown sentinel.
ClearedShutdown == FALSE

Spawns(h) ==
  /\ hook[h].pc = "spawning"
  /\ \E p \in Taps \ ({pidFile} \cup {hook[g].tap : g \in Hooks}) :
       /\ tap[p] = NoTap /\ Becomes(p, "started")
       /\ hook' = [hook EXCEPT ![h] = [pc |-> "claiming", tap |-> p]]
  /\ shutdown' = ClearedShutdown
  /\ UNCHANGED <<agent, auth, lines, ending, alive, pidFile, file, titleVars, bounds>>

Claims(h) ==
  /\ hook[h].pc = "claiming" /\ alive' = "fresh" /\ pidFile' = hook[h].tap
  /\ hook' = [hook EXCEPT ![h] = Idle]
  /\ UNCHANGED <<agent, auth, lines, ending, shutdown, tap, file, titleVars, bounds>>

\* SessionEnd: the sentinel and a SIGTERM; a tap that has not got as far as its handler dies of it.
SessionEnds ==
  /\ agent /\ agent' = FALSE /\ ending' = TRUE /\ alive' = "none" /\ pidFile' = 0 /\ shutdown' = TRUE
  /\ tap' = [p \in Taps |-> IF p # pidFile \/ tap[p].pc = "none" THEN tap[p]
                            ELSE IF tap[p].pc = "started" THEN NoTap ELSE [tap[p] EXCEPT !.term = TRUE]]
  /\ UNCHANGED <<auth, lines, hook, file, titleVars, bounds>>

EndFinishes ==
  /\ ending /\ ending' = FALSE /\ shutdown' = FALSE
  /\ UNCHANGED <<agent, auth, lines, hook, alive, pidFile, tap, file, titleVars, bounds>>

Killed ==
  /\ agent /\ agent' = FALSE /\ Slip
  /\ UNCHANGED <<auth, lines, hook, ending, sentinels, tap, file, titleVars>>

Resumed ==
  /\ ~agent /\ ~ending /\ resumes < MaxResumes /\ agent' = TRUE /\ resumes' = resumes + 1
  /\ UNCHANGED <<auth, lines, hook, ending, sentinels, tap, file, titleVars, slips>>

\* The token is revoked, cleared, or the machine paired again.
Auth ==
  /\ auth' \in {"paired", "revoked", "none"} \ {auth} /\ (auth' = "paired" \/ slips < MaxSlips)
  /\ slips' = (IF auth' = "paired" THEN slips ELSE slips + 1)
  /\ UNCHANGED <<agent, lines, hook, ending, sentinels, tap, file, titleVars, resumes>>

\* Five minutes without a touch, since no tap is left.
GoesStale ==
  /\ alive = "fresh" /\ alive' = "stale" /\ \A p \in Taps : tap[p] = NoTap
  /\ UNCHANGED <<agent, auth, lines, hook, ending, pidFile, shutdown, tap, file, titleVars, bounds>>

\* The same because the machine slept, taps and all.
Sleeps ==
  /\ alive = "fresh" /\ alive' = "stale" /\ Slip
  /\ UNCHANGED <<agent, auth, lines, hook, ending, pidFile, shutdown, tap, file, titleVars>>

-----------------------------------------------------------------------------
(* The tap. *)

\* Every way out of main: the sentinel is removed, whoever touched it last.
Leaves(p) == tap' = [tap EXCEPT ![p] = NoTap] /\ alive' = "none"

\* Bound: no other tap reads the transcript in the milliseconds in which one does.
NoScan == \A q \in Taps : tap[q].pc # "scan"

\* main: no token, no tap; otherwise the session is claimed and the transcript read from the top.
Starts(p) ==
  /\ tap[p].pc = "started" /\ NoScan
  /\ IF auth = "none" THEN Leaves(p) /\ UNCHANGED pidFile
     ELSE tap' = [tap EXCEPT ![p].pc = "scan", ![p].upto = lines] /\ pidFile' = p /\ UNCHANGED alive
  /\ UNCHANGED <<agent, auth, lines, hook, ending, shutdown, file, titleVars, bounds>>

\* offerTitle: an upgrade, or a /rename after another.
Accepts(rank, offered) == offered > rank \/ (offered = CUSTOM /\ rank = CUSTOM)

\* scanForTitle: the lines that were read are offered one by one.
Scans(p) ==
  LET k == tap[p].at + 1
  IN /\ tap[p].pc = "scan"
     /\ \/ tap[p].at = tap[p].upto /\ Becomes(p, "loop") /\ UNCHANGED file
        \/ LET better == Accepts(tap[p].rank, Transcript[k])
           IN /\ tap[p].at < tap[p].upto /\ file' = IF better THEN k ELSE file
              /\ tap' = [tap EXCEPT ![p].at = k, ![p].rank = IF better THEN Transcript[k] ELSE @]
     /\ UNCHANGED <<agent, auth, lines, hook, ending, sentinels, titleVars, bounds>>

\* ownsSession: the newest pid on disk wins, none is as good as one's own.
Owns(p) == pidFile \in {0, p}

\* What the head of the loop looks at: asked to stop, or superseded.
MustStop(p) == shutdown \/ tap[p].term \/ ~Owns(p)

Stops(p) ==
  /\ tap[p].pc = "loop" /\ MustStop(p) /\ Leaves(p)
  /\ UNCHANGED <<agent, auth, lines, hook, ending, pidFile, shutdown, file, titleVars, bounds>>

Round(p) == tap[p].pc = "loop" /\ ~MustStop(p) /\ NoScan

\* A tick: a sign of life, and all the new lines, which nobody scans once there is a /rename.
Ticks(p) ==
  /\ Round(p) /\ alive' = "fresh"
  /\ LET scans == tap[p].at < lines /\ tap[p].rank # CUSTOM
     IN tap' = [tap EXCEPT ![p].pc = IF scans THEN "scan" ELSE "loop", ![p].at = IF scans THEN @ ELSE lines,
                           ![p].upto = lines]
  /\ UNCHANGED <<agent, auth, lines, hook, ending, pidFile, shutdown, file, titleVars, bounds>>

\* transcriptHasReader: lsof may see nothing of an agent that is there.
HasReader == IF agent THEN BOOLEAN ELSE {FALSE}

\* One tick in twelve looks whether the agent holds the transcript open: once it did, two looks in a
\* row that do not see it make the tap an orphan.
Looks(p) ==
  /\ Round(p) /\ tap[p].at = lines
  /\ \E has \in HasReader :
       /\ IF ~has /\ tap[p].reader /\ tap[p].missed THEN Leaves(p) /\ shutdown' = TRUE
          ELSE /\ alive' = "fresh" /\ UNCHANGED shutdown
               /\ tap' = [tap EXCEPT ![p].reader = @ \/ has, ![p].missed = ~has /\ tap[p].reader]
       /\ IF has = agent \/ tap[p].missed THEN UNCHANGED bounds ELSE Slip
  /\ UNCHANGED <<agent, auth, lines, hook, ending, pidFile, file, titleVars>>

\* Five ticks in a row find no transcript: it was moved away, for a while or for good.
TranscriptGone(p) ==
  /\ Round(p) /\ Leaves(p) /\ Slip
  /\ UNCHANGED <<agent, auth, lines, hook, ending, pidFile, shutdown, file, titleVars>>

\* A 401 while draining.
Halts(p) ==
  /\ tap[p].pc = "loop" /\ auth = "revoked" /\ Leaves(p)
  /\ UNCHANGED <<agent, auth, lines, hook, ending, pidFile, shutdown, file, titleVars, bounds>>

Crashes(p) ==
  /\ tap[p] # NoTap /\ tap' = [tap EXCEPT ![p] = NoTap] /\ Slip
  /\ UNCHANGED <<agent, auth, lines, hook, ending, sentinels, file, titleVars>>

-----------------------------------------------------------------------------
(* The title: the channel's heartbeat, and the renames. *)

\* The title rides a beat when it is not the one shipped last.
Beats ==
  /\ agent /\ beat = NoBeat /\ auth = "paired" /\ file # sent
  /\ beat' = [pc |-> "posted", title |-> file]
  /\ UNCHANGED <<agent, auth, lines, hook, ending, sentinels, tap, file, sent, late, title, stray, bounds>>

\* upsertSession: the newest title that is not null.
BeatStored ==
  /\ beat.pc = "posted" /\ beat' = [beat EXCEPT !.pc = "stored"] /\ title' = beat.title
  /\ UNCHANGED <<agent, auth, lines, hook, ending, sentinels, tap, file, sent, late, stray, bounds>>

\* Mutant: the title counts as shipped whatever became of the beat.
SentAfter_always(success, shipped) == shipped

\* What the marker says after a beat.
SentAfter(success, shipped) == IF success THEN shipped ELSE sent

BeatAnswered ==
  /\ beat.pc = "stored" /\ beat' = NoBeat /\ sent' = SentAfter(TRUE, beat.title)
  /\ UNCHANGED <<agent, auth, lines, hook, ending, sentinels, tap, file, late, title, stray, bounds>>

\* The channel gives up on a beat: it was stored, was lost, or is still on its way.
BeatFails(coming) ==
  /\ beat # NoBeat /\ beat' = NoBeat /\ sent' = SentAfter(FALSE, beat.title) /\ Slip
  /\ coming => beat.pc = "posted" /\ late = 0
  /\ late' = (IF coming THEN beat.title ELSE late) /\ stray' = (stray \/ beat.title < sent)
  /\ UNCHANGED <<agent, auth, lines, hook, ending, sentinels, tap, file, title>>

LateStored ==
  /\ late # 0 /\ late' = 0 /\ title' = late
  /\ stray' = (stray \/ late < sent \/ (beat.pc = "stored" /\ late < beat.title))
  /\ UNCHANGED <<agent, auth, lines, hook, ending, sentinels, tap, file, sent, beat, bounds>>

\* setTitle: the agent's rename_session, the dashboard's inline edit, the orchestrator's tool.
Renames ==
  /\ title \notin {0, Renamed} /\ title' = Renamed /\ Slip
  /\ UNCHANGED <<agent, auth, lines, hook, ending, sentinels, tap, file, sent, beat, late, stray>>

-----------------------------------------------------------------------------
HookSteps == \E h \in Hooks : Checks(h) \/ Spawns(h) \/ Claims(h)
TapNext(p) == Starts(p) \/ Scans(p) \/ Stops(p) \/ Ticks(p) \/ Looks(p)
HooksNext ==
  \/ Writes \/ SessionEnds \/ EndFinishes \/ Killed \/ Resumed \/ Auth \/ GoesStale \/ Sleeps
  \/ HookSteps \/ \E p \in Taps : TapNext(p) \/ Halts(p) \/ TranscriptGone(p) \/ Crashes(p)
  \/ Beats \/ BeatStored \/ BeatAnswered \/ LateStored \/ Renames
  \/ \E coming \in BOOLEAN : BeatFails(coming)

\* Processes go on, the user keeps prompting, time passes; a beat is due every ten seconds.
HooksFairness ==
  /\ \A h \in Hooks : WF_hooksVars(Checks(h) \/ Spawns(h) \/ Claims(h))
  /\ \A p \in Taps : WF_hooksVars(TapNext(p))
  /\ WF_hooksVars(GoesStale) /\ WF_hooksVars(Beats \/ BeatStored \/ BeatAnswered)
HooksSpec == HooksInit /\ [][HooksNext]_hooksVars /\ HooksFairness

-----------------------------------------------------------------------------
(* Properties. *)

\* While a paired machine's session stays open and has a transcript, a tap that is not about to stop
\* keeps coming back, whatever killed the last one: a crash, lsof's misses, a resume, or hooks that
\* raced each other to start one (tap-spawn.ts: "what lets the device recover").  The races must end
\* some day and hooks and starts pause now and then: two hooks that overlap again and again can each
\* claim the session from the other's tap, and the exit of a superseded tap removes its successor's
\* sentinel, so that the next hook starts one more.
TapRuns ==
  /\ <>[](agent /\ auth = "paired" /\ lines > 0 /\ \A g, h \in Hooks : g = h \/ Idle \in {hook[g], hook[h]})
  /\ []<>((\A h \in Hooks : hook[h] = Idle) /\ \A p \in Taps : tap[p].pc \in {"none", "loop"})
  => []<>(\E p \in Taps : tap[p].pc = "loop" /\ ~MustStop(p))

\* The title the taps finally settle on is the one the dashboard shows, unless the user's own name
\* does, through lost beats and restarts (channel.ts: "a failed beat re-sends next time").  The
\* exception is a beat given up on with an older title than the one stored last: it was overtaken,
\* or read while a new tap's seed passed through the old titles again.
TitleLands ==
  <>[](agent /\ auth = "paired" /\ \A h \in Hooks : hook[h] = Idle)
    => <>[](file = 0 \/ title \in {file, Renamed} \/ stray)

-----------------------------------------------------------------------------
(* What a comment says and the code does not do: no run checks these, TLC  *)
(* finds them violated (README, Divergences).                              *)

\* Once a session is over for good, so are its taps (session-end.ts: "Signal the daemon to stop").
EndedMeansGone == <>[](~agent) => <>[](\A p \in Taps : tap[p] = NoTap)

\* A rename is only ever replaced by a title captured since (channel.ts: "never clobbers a
\* server-side rename").
RenameStands == [][title = Renamed /\ title' # Renamed => title' # sent]_hooksVars
=============================================================================
