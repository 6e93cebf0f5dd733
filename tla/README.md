# A verification of imessage-coding in TLA+

`imessage-coding` lets a user drive coding agents (Claude Code, Codex) from a phone: a
plugin on the machine reports what an agent needs, a control plane texts the user, runs an
LLM turn over the answer and sends decisions and messages back into the session. This
directory holds TLA+ models of the protocols the system rests on, the TLC runs that check
them on small instances, and proofs, checked by TLAPS, of the properties that matter most.

Paths below are relative to the repository; `cp` stands for `apps/control-plane/src` and
`dev` for `packages/device/src`.

## 1. The system

| Component | State it keeps | Operations | Hard because | Correct when |
|---|---|---|---|---|
| Session inbox (`cp/db/repo.ts`, `cp/db/listener.ts`, `cp/routes/device.ts`, `dev/channel.ts`) | `session_inbox` rows, `delivered_at`, waiters, the SSE stream, `appliedInbox` | insert, NOTIFY, flush, park, apply, ACK, reconnect | lost NOTIFYs, frames and ACKs, restarts, refused injections | nothing marked that did not arrive, everything arrives, at most once per process |
| Codex approve-and-resume (`cp/routes/device.ts`, `cp/routes/permission.ts`, `hooks/codex/permission-request.ts`) | pending attention, verdict row, the waiting handler, the blocked hook | ask, wait, decide, deadline, disconnect | the deadline races the user; two processes with two timeouts; a stale snapshot | fails closed, one verdict, the server answers before the hook gives up |
| Turn serialization (`withAccountLock`, `cp/db/account-lock.ts`) | a promise chain per account and machine, a lease row | chain, acquire, steal, release | crash of a holder, failed queries, overruns, collection of the chain | turns exclude each other and every turn runs |
| Inbound texts (`cp/routes/webhook-sendblue.ts`, `cp/orchestrator/index.ts`, `llm.ts`) | `processed_webhooks`, the queue, the drain's slot, the turn in flight | claim, release, enqueue, take a batch, interrupt, commit, re-queue | redelivery, an interrupt at any await, restarts | FIFO without loss, no text acted on twice, no starvation |
| Turns on requests and relays (`cp/orchestrator/index.ts`, `safety.ts`) | the snapshot, `notify_message_id`, the bound target | surface, bind, allow, deny, approve, relay, fall back | the model may call anything; rows close under a turn | a tap-back allows what its message showed; no request is passed over |
| Delivery watcher (`watchDeliveries`, `waitForDelivered`) | a detached task per row | quick wait, grace, debounce, warn, retract | late ACKs, lost NOTIFYs, failed queries | it sees every ACK and gives up by its rules only |
| AFK state (`dev/afk-sync.ts`, `dev/cli.ts`, `dev/caffeinate.ts`, heartbeat, state frames, dashboard) | `devices.afk`, local file, dirty flag, caffeinate's pid | toggle, push down, reconcile up | three writers, lost and late posts, ABA | a remote toggle stands, copies heal, the Mac is awake while away |
| Session liveness (`upsertSession`, `reapStaleSessions`, `claimDevicesToNotifyLost`) | session state, last event | touch, revive, reap, notify once | reaper against heartbeat, flapping machines | one notice per engagement, no ghosts |
| Outbox and killswitch (`dev/outbox.ts`, `dev/killswitch.ts`) | a file, a cached flag | append, drain, classify, back off | overlapping drains, partial success, stale answers | every event accounted for, a disable takes hold |
| Activity tap (`packages/device/bin/tap.ts`, `session_activity`) | cursor, outbox, the mirror | tick, backfill, ship, wipe | AFK on both sides, two taps, kills | the mirror is ephemeral, the context arrives |
| Session hooks and titles (`dev/tap-spawn.ts`, hooks, `dev/channel.ts`) | pid file, sentinel, shutdown file, titles | ensure, supersede, end, resume, scan, beat | files as locks, lost beats | a tap is there while the session is; the title lands |
| Onboarding and pairing (dashboard routes, `cp/db/repo.ts`) | single-use codes and tokens, account, phone, device rows | mint, burn, consume, poll, delete | tabs, retries, concurrent consumers | the wizard follows; one machine is one card |
| Installation (`install.sh`, `uninstall.sh`, `dev/creds.ts`) | staged files, settings, backup, rc block, token stores | steps of two scripts | interruption at any step, two agents | uninstall reverts; the token is known |
| Transports, prompts, rendering | | | mostly text and I/O | |

How they interact: an agent event is POSTed by the device (outbox) and becomes an
*attention*; an agent-event turn, under the account's lock, texts the user. The user's text
comes back through the webhook and the queue as a user turn, under the same lock, which may
resolve an attention or steer a session; both insert a *session_inbox* row, whose trigger
NOTIFYs the machine that holds the device's stream. For Codex the consumer of a verdict is
the blocked hook's own handler instead.

## 2. Modules

| Module | What it is |
|---|---|
| `AtLeastOnce` | what the inbox promises: submit, hand over any number of times, confirm only what was handed over |
| `InboxDelivery` | the inbox of one session, from insert to ACK; `Abstract` instantiates `AtLeastOnce` |
| `PermissionWait` | the blocking permission endpoint, the user's decisions, the hook |
| `AccountLease` | the promise chain and the lease row around the turns of one account |
| `InboundTurns` | webhook deliveries, the ledger, the queue, the drain and the user turn of one account on one machine |
| `PhoneTurns` | agent-event, relay and user turns on the requests of the agents: binding, gate, decisions, fallbacks |
| `ActivityTap` | the tap's tick, its outbox and cursor, the control plane's mirror, AFK on both sides |
| `AfkState` | the AFK value's copies, the dirty flag, heartbeats, state frames, caffeinate |
| `DeviceOutbox` | the file of attention events, its drains, the cached killswitch |
| `SessionLife` | who writes a session's row, the reaper, the lost-machine notice |
| `DeliveryWatch` | extends `SessionLife` by the delivery watcher of one turn |
| `Onboarding` | the wizard's tabs, codes and the phone's link |
| `Installation` | mints, the pairing exchange, install and uninstall, the token stores |
| `Enrollment` | composes `Onboarding` and `Installation`; account deletion takes from both |
| `SessionHooks` | hooks that keep a tap alive, its end and resume, the title from transcript to dashboard |
| `MC...` | model values and the functions a configuration file cannot write |
| `..._proofs` | theorems and proofs. `Delivery_proofs` covers the way to the agent, the inbox, its watcher with the sessions it watches, and a session's hooks; `Machine_proofs` what a machine's person sets up and switches, the AFK state and enrollment |

Conventions: one action per handler, or per stretch of a handler between two awaits where others can
interleave; a `Fault` conjunct counts failures against `MaxFaults` (`Lapse` and `MaxLapses` in
`DeliveryWatch`, `Mishap` and `MaxMishaps` in `Installation`, `Slip` and `MaxSlips` in
`SessionHooks`, so that a module can extend two components). An operator whose name has a suffix and
a comment that starts with "Mutant" is a plausible mistake in the operator that follows it; no
module uses it, and putting it in place of that operator breaks a property of a run.

**InboxDelivery.** `handler` is the program counter of the EVENTS handler (`flush`, `park`,
`wait`, `check`), `wire` the frames between it and the device, `todo`/`landed`/`applying` the
device's loop over a frame, `applied` the ordered set of ids, `acks` the ACK requests in
flight (a set: they may arrive in any order). Replies and verdicts differ in two ways only:
Codex may refuse a reply, or be taken to have refused one that it has queued (`InjectDoubtful`,
counted per row in `doubtful`), and an unbound verdict is ACKed without being relayed. One handler
per session is modelled; a half-open handler writes to nobody and keeps no state.

**PermissionWait.** The clock is discrete, and a tick passes only when every handler is parked: a
handler's own work is short against a tick. `snapshot` is a turn's list of pending requests and may
be stale; `told` is what the user heard. `Ask` has the two inserts and the listener as one step:
until they are done nobody else can name the request. A listener that rejects (`AskFails`) and a
look-up that throws (`LookUpFails`) answer 500, which the hook takes for a deny, and clean nothing
up. `orphaned` marks requests whose handler died, threw, was disconnected or failed to clean up;
`cut` those whose connection went silent, so that neither side is told. `PollTimesOut` is the hook's
own request timeout, `HookTimesOut` Codex's timeout of the hook; in the code they are the same 3600
s, and the model lets either come first when both are due.

**AccountLease.** Time is relative (`left` until the row expires, `age` of a wait or a
job), so no clock grows. `held` is what `acquireLease` returned, which may differ from
`owner` after a failed query. A job may outlast the TTL: the lease is not renewed.

**InboundTurns.** `stage` follows each delivery of a message through the webhook,
`turn` the user turn, and the three parts of `InflightTurn` are `committed`, `interruptible`
and `interrupter` (the abort signal together with the text that raised it). The drain's
actions from the end of a turn to the start of the next are one step, `NextPass`, because the
code has no await there. `entered`, `finished`, `acts`, `restarts` and `blind` are history.

**PhoneTurns.** `jobs` are the turns that wait for the account's lock, `turn` the one that has it,
with the snapshot it loaded (`pending`), the target its tap-back bound to and the number of tool
calls left. The model's choice of tools and arguments is nondeterministic; what the tools refuse is
in the code and therefore in the guards. A message is sent, refused, or reaches the phone without an
id that comes back (`Outcomes`): the code counts ids, the phone what arrived. An `about_request`
that is not in the turn's snapshot is bound without a look at the row ("blind"). `notify` is a row's
`notify_message_id` together with what that message really says and who wrote it, which no column
records.

**ActivityTap.** A line is its number; `mirror` is `session_activity`. A tap's `pc` walks through
one tick (read AFK, backfill, read at the cursor, append, write the cursor, drain). `missed`
collects what the code gives up on purpose or by a documented race, `orphans` what an insert in
flight left behind the wipe.

**AfkState.** Everything a process does up to its next await is one step; the `ps` of
`caffeinate.ts` splits its reconcile. A channel beats only while its last look at the killswitch let
it (`egress`), and `Switch` changes that at any time, in either direction. `frames` are state frames
on their way, `last` the edge detector of each stream. `owed` and `synced` are history for the two
properties that start from rest.

**DeviceOutbox.** A drain is a process's loop over the rows it read; events are appended by the
request that raises them, which then drains as well. `cache` is the killswitch's module state, with
its age in ticks; a look-up is a request under way (`ask`), at most `Latency` ticks long, that fails
or is answered with a value the column had meanwhile, and two of one process may overlap. A failed
one falls back on the last known value. `stop` counts from the moment the local `.disabled` file was
made, `since` from the column's change; a drain that begins too late after either sets `hasty`.

**SessionLife, DeliveryWatch.** Times are ages, counted up to the longest one that matters. `proc`
is the truth about a channel process, `row` what the control plane has; a heartbeat is posted by a
living process and handled whenever it arrives, after the process died as well. The lost notice is a
stamp (`ClaimLost`) and then a text (`Announce`) that may be refused, crash with the process or be
overtaken by a text of the user's. `DeliveryWatch` leaves `SessionLife`'s actions as they are and
adds the watcher of one row per session.

**Onboarding, Installation, Enrollment.** `Onboarding` is the wizard and the phone, `Installation`
the machine; a script's `pc` is its next step, and any step may be the last (`Interrupt`). The
exchange goes on in the server after its client gave up. A code belongs to an account and to the
browser session that minted it (`here`), and only codes with the same two are burned. The person
may sign out and in again, and delete the account from any page that has a menu, the wizard's too;
signing in then inserts a new account, and a machine still holds the token of the old one.
`Enrollment` lets both run, gives each the other's preconditions, and deletes the account with
everything that hangs on it; the exchanges of a deleted account become "void".

**SessionHooks.** The three files of a session are variables; a step is what a process does between
two looks at a file another one writes. Hooks overlap. A tap's tick takes the whole batch of new
lines and scans it, unless it stood for a `/rename` before; it leaves when the transcript is gone,
and when two orphan checks in a row find no reader, of which the first may miss one that is there. A
title is the line it comes from, its rank the `TitleRank` of that line.

## 3. What TLC checks

Every run finishes within three minutes on two cores.

| Run | Instance | Shows |
|---|---|---|
| `inbox_channel` | 2 replies and an unbound verdict, buffer of 1 frame, 2 faults; replies are symmetric | `DeliveredReachedAgent`, `OncePerProcess`, and that the inbox implements `AtLeastOnce` |
| `inbox_codex` | a reply and a verdict, 2 faults, fairness | `EventuallyDelivered` with refused replies |
| `permission_wait` | 2 requests, deadline 2, poll and hook timeout 3, 2 faults, fairness | fail-closed, one verdict, deadline first, closed is final, every hook answered |
| `lease` | 3 jobs on one machine and 1 on the other, TTL 2, wait 3, jobs of up to 3 ticks, 2 faults, fairness | `TurnsExclude` (chain and lease), every turn ends |
| `inbound_turns` | 3 texts (one delivered twice) and a tap-back, cap of 1 interrupt, 1 fault, fairness | conservation, no starvation, one action per text, answers |
| `phone_turns` | a destructive permission, an edit or plan, a relay; turns of 2 calls, 1 text or tap-back, 4 message ids, any message refused or unsure | what fronts what, what a tap-back allows, nothing passed over or doubled |
| `activity_mirror` | 2 lines, 2 taps, 2 toggles, 2 starts, 1 fault, fairness | `Ephemeral`, `Conserved`, `ContextArrives` |
| `afk` | 1 channel whose egress is switched at will, 2 commands, 1 remote toggle, 3 caffeinates, 2 frames, 1 fault, fairness | `RemoteStands`, `AwakeIffAway`, `HealsOnReconnect`, `NotWedged` |
| `outbox` | 2 events, a file of 2 rows, TTL 2, fallback limit 3, look-ups of up to 1 tick, 1 fault, 1 switch, fairness | `Conserved`, `DisableTakesHold`, `Shipped` |
| `sessions` | 1 session that goes silent, wakes and ends at any time, stale 1, offline 2, debounce 3, 1 request, 1 lapse, fairness | `OneTextPerEngagement`, `WarningsAreTakenBack`, `GivesUpFairly`, `NoGhost`, `LostIsAnnounced` |
| `enrollment` | 1 tab and the Integrations page, 2 codes, 2 tokens, 2 installs of both agents, 1 uninstall, 1 deletion, 1 mishap, sign-outs | `OneCard`, `Reverts`, `Recognised`, `WizardFollows` |
| `hooks` | 2 taps, 2 hooks, a first message's title then a `/rename`, 1 resume, 1 slip (an overlap of the hooks, or a fault), fairness | `TapRuns`, `TitleLands` |

**Bounds.** *Inbox:* two rows are what a reordering or a partly applied frame needs; the third, an
unbound verdict, gives the frame that mixes the kinds. Two faults give a lost ACK followed by a
restart, or a lost NOTIFY while the device is away. The dedup set's cap equals the number of rows:
with more rows than the cap duplicates are possible by design, and the proof of
`OncePerProcessCorrect` carries that hypothesis. *Permission:* two requests let one's verdict wake
the other's handler; 2 < 3 are the smallest times with a wait that, restarted in mid-course,
outlasts the hook. *Lease:* three jobs of one machine are what a chain whose entry is collected too
early needs, the fourth is the other machine's; the times keep the order of the code's constants
(120 s TTL < 130 s wait), and a job of eight calls of up to 110 s outlasts its lease, as one of
three ticks does here. *Inbound texts:* three texts and a cap of one reach the cap and go past it;
the first text's second delivery races everything. *Phone turns:* two requests are what a wrong
binding needs, two calls what a closed row inside a turn needs. *Activity:* one toggle off and one
on, on either side, is one full AFK period between two others; the second tap supersedes the first.
*AFK:* two commands and a dashboard toggle give every ABA of one Boolean; the kill switch has no
bound. *Outbox:* two events make overlapping drains and a partial rewrite; the two ages tell the
cache's TTL from the fallback limit, and a look-up of a tick is in flight while the switch is
thrown. *Sessions:* outages, beats and toggles are not bounded, so the flapping that would repeat a
notice happens; the times keep the order of the constants (quick + grace < debounce, stale <=
offline). *Enrollment:* two tokens and two installs are a lost exchange and its repetition, or an
exchange before and one after the account was deleted. Two bounds keep the halves from multiplying:
a machine is first set up where the first code linked the phone, and later while the wizard is done
with or nobody is signed in (`FirstTry`, `SetsUp`); and once one was set up the person does one
thing at a time, signs out only by deleting the account, and the wizard's requests succeed (`Calm`).
After a deletion the person signs in again, is approved, links and pairs again with the old token
still on the device; sign-outs, sessions with a live code each and failures of the wizard are
explored until the machine is first set up. *Hooks:* one slip is one overlap of the two hooks, one
orphan check that misses the reader, a vanished transcript, a crash, a beat given up on, or a rename
in the dashboard. Until a tap has run its first scan no other one starts or ticks. The invariant
behind the title, and the run's properties, have also passed with a transcript of two renames. The
transcript lines of the `activity_mirror` run yield a row each, and the agent is Claude Code (`Codex
= FALSE`): the reduction of a line is a function that no step depends on otherwise.

**Fairness.** Weak fairness of each process of the system: the handler's loop, the device's loop, an
ACK in flight (inbox); a webhook handler, the drain and the turn (inbound texts); each tap and the
sync of the AFK value (activity); the beats and frames of the AFK file, beats only while the
channel's egress is on; each drain of the outbox, the end of a backoff; the reaper, the offline
sweep, the text that follows its claim and the watcher, which are timers of the control plane; the
wizard's poll, which is an interval; hooks once begun, taps and heartbeats. For permissions and for
the lease one condition on all handlers or jobs, timers and the clock together is enough, because
each of them has finitely many steps. The code justifies it by timers: waits have timeouts, a model
call is aborted after 110 s and there are at most 8 in a turn, the promise chain runs on after a
rejection, heartbeats and polls are intervals. Time passes, no NOTIFY is assumed to arrive, no user
to answer, and the LISTEN connection need never come back. Faults are not fair and are finite:
liveness says what happens once they stop. `EventuallyDelivered` and `Shipped` assume that the
device stays enabled from some point on, `NotWedged` that some channel's egress stays on,
`ContextArrives` that the user stays away, `LostIsAnnounced` that the machine stays lost and that
its notice was not refused or lost after the claim, `WizardFollows` that the link stays and the
person signed in, `TapRuns` and `TitleLands` that the session stays open on a paired machine;
`TapRuns` also that hooks stop overlapping from some point on and that hooks and starts pause now
and then (without the first the run finds two hooks that claim the session from each other's tap for
ever). For inbound texts a restart is an excuse (`Answered`): the queue is in memory.

**Deadlock** checking is off where a run ends by design: every request answered, every job
done, every text handled, every bounded user action taken. The inbox's handler never stops.

## 4. What is proved

| Theorem | For all |
|---|---|
| `Delivery_proofs`: `TypeCorrect`, `DeliveredCorrect`, `OncePerProcessCorrect`, `Refinement` | finite sets of rows, both channels, any caps, any number of faults |
| `Delivery_proofs`: `WatchTypes`, `GivenUpFairly`, `AnnouncedOnce`, `EndedStaysEnded` | sessions, requests, beats, thresholds of staleness and loss, waits with `Quick + Grace < Debounce`, lapses |
| `PermissionWait_proofs`: `TypeCorrect`, `FailClosed`, `VerdictOnce`, `WakeupKept`, `DeadlineFirst`, `AnsweredIsClosed` | requests, times with `Deadline` below both timeouts, faults |
| `AccountLease_proofs`: `TypeCorrect`, `LeaseCorrect`, `ChainCorrect`, `Exclusion` | machines, jobs of any length, TTL, timeouts, faults |
| `InboundTurns_proofs`: `TypeCorrect`, `QueueConserves`, `WakeupsKept`, `TapbacksAlone`, `OneAction`, `NoStarvation` | messages, attempts, caps, faults |
| `PhoneTurns_proofs`: `TypeCorrect`, `TruthfulFronts`, `TapbackBinds`, `NothingEaten`, `OneForward` | requests, relays, sessions, calls of the model, texts, sends refused or unsure |
| `Machine_proofs`: `RemoteToggleStands`, `StreamHeals`, `KeepsAwake` | channels, commands, toggles, switches of egress, spawns, faults |
| `Delivery_proofs`: `TitlesShown` | transcripts, taps, hooks, resumes, slips |
| `Machine_proofs`: `OneRow`, `UninstallReverts`, `TokensRecognised` | tabs, sessions, codes, tokens, installs, uninstalls and deletions, mishaps |
| `DeviceOutbox_proofs`: `EventsConserved`, `DisableHolds` | processes, events, cap, ages with `Latency < TTL < Stale`, switches, faults |
| `ActivityTap_proofs`: `WipeIsFinal`, `NothingPassedOver` | transcripts of either agent, taps, toggles, starts, faults |

*Inbox.* `DeliveredReachedAgent` is not inductive: a row becomes delivered by an ACK that was sent
before. The invariant `IInv` follows the row back along its way: what is on the wire or in a frame
was inserted, and what is landed, remembered, in an ACK or delivered was handled. The refinement
uses the same invariant: `Enqueue` maps to `Submit`, `Inject` and `InjectDoubtful` to `Hand`,
`AckArrives` to `Confirm`, the rest to stuttering. `OncePerProcessCorrect` adds that every row this
process injected, but for the times the app-server queued what it was taken to have refused
(`doubtful`), is still in `applied`; it needs that the set never evicts, hence `Cardinality(Rows) <=
AppliedCap`, by a counting argument over a sequence without repetitions.

*Permission.* All the safety of the component rests on one invariant, `WaitInv`. Time waits for
handlers (`OnTime`): a tick finds each of them parked before its deadline, so a handler is done once
the deadline has passed. A hook on a working connection has its handler at work (`Served`), hence no
timer of the hook can fire first. A request is closed before its hook is answered (`ClosedFirst`)
unless its handler was lost, threw or could not close it (`orphaned`), so nobody can add a row
afterwards. `Wakes` extends `NoLostWakeup` to the moment when the first look-up has read nothing but
not yet returned.

*Lease.* A job that holds the lease owns the row and `left + age = TTL` as long as it is younger
than the TTL (`Protected`), so nobody finds the row free in that time; an older one may have lost
the row to a thief, and gives up only a row that is still its own. Nothing is assumed of a job's
length: of two holders that run together one has outlasted the TTL. The chain's invariant numbers
the jobs of a machine in the order in which they chained. A job that has a predecessor waits for
exactly the one before it, only the last one can be the map's entry, and an entry is collected only
by the last one when it is through, so all jobs before the first unfinished one are through and all
after it wait. `Exclusion` joins the two.

*Inbound texts.* The invariant adds to the four properties that a batch in flight is not
empty, that a free slot means an empty batch, and which turns are interruptible. `NextPass`
is the heart: cutting `batch \o queue` anew at any legal point conserves the sequence.
A second invariant, `OnceInv`, follows the texts that still wait (`batch \o queue`): a delivery
that is not enqueued yet is not among them, one that is was claimed, none is there twice, and a
turn that has acted is committed, which is past its last interrupt. A new batch begins with the
old one, so only the texts of the current batch have been restarted, as often as `interrupts`
says; that gives `NoStarvation` from the cap.

*Phone turns.* Every step of a turn has one of two shapes (`TurnShape`): it talks, or it
decides. `PhoneInv` adds to the four properties that nobody refers to a row that has not arrived
and a turn's item fits its kind (`Known`), that a turn which relays the agent's
exact words has told nothing else (`Verbatim`), that there are no more tapped ids than inbound texts
(`FewTaps`; with `MaxIds` above the sum, a fresh id always exists), and that a relay waits in one
job only, is unheard while it does, and is known in one form only unless a message's id
did not come back (`Once`, with `noId`).

*AFK.* `AfkInv` has four parts. While a remote toggle is owed the device is at rest, so no beat
or request can assert an older value (`Stands`). The newest frame of a stream is what its edge
detector remembers (`Newest`). After a stream that began at rest some stream has something left
to say, or its last word is the local value (`Heals`). One reconcile at a time works with the
value that was written last, and the pid file names the only caffeinate (`Awake`).

*Watcher and sessions.* Two clocks run side by side, the row's age and the watcher's, and nothing
in one action relates them. `Timed` does: each of the watcher's waits lasts to its own end and no
longer, so a row has been watched for exactly the waits that lie behind it. A watcher that gives up
has therefore waited the quick wait and its grace, or the debounce (`GivesUpFairly`). For the lost
notice, `Announced` follows the claim to the phone: what is armed has no notice due and no text
since the user's last one, and a notice that is due has none before it. `EndedStaysEnded` names
what brings an ended session back: a heartbeat on its way, which is then used up, or a request that
is about to be stored.

*Titles.* `ShippedIsShown` says that a title which the channel counts as shipped is on the
dashboard, or something newer is. No run checks it, as `TitleLands` is the run's; TLC has checked
its invariant `HooksInv` on the `hooks` instance with a transcript of two renames. Between the store
and its answer the title may run behind what was answered last (a second tap passes through old
titles again), so `ShownSince` compares with the beat in that window and with the marker outside of
it; that a beat given up on there had an older title is what `stray` records.

*Enrollment.* The invariant has a half on the disk and one on the server. On the disk (`DiskInv`)
the line that a script saved is the person's own as long as it is there, and what an uninstall still
has to do is not yet counted as reverted. On the server (`ServerInv`) an exchange holds its lock
until it has written (`Holds`, `Alone`); a token is sent once (`SentOnce`); as long as no two mints
overlapped there is one usable token, and every exchange that began before the last pairing has
spent its token already (`Overtakes`); so the last answer is the one whose bearer the row knows
(`LastAnswers`, `Stored`). A deletion spends all tokens and turns the exchanges that had paired
"void": a device that reads such a token is the named exception, until it pairs again.

*Outbox.* A cached answer that is no longer true is at least as old as the switch that made it
untrue, because its age counts from the start of its look-up; an answer on its way that is no longer
true has been on its way since before the switch, and so has a look-up that `.disabled` did not stop
(`Recent`). Hence a drain that goes by a cached answer, by a fresh one or by the last known one
after a failure begins before `TTL`, `Latency`, or `Stale` and a look-up, respectively. Without two
writers at once a single drain posts, and it holds all that is in the file but for the rows it has
dealt with (`Single`); every event that was raised is accounted for (`Held`). The rewrite at the end
therefore overwrites nothing unless `overlap` is set.

*Activity.* `Ephemeral` is inductive: the mirror changes under "afk on" or in the wipe. For
`Conserved` the invariant carries a claim through the tick, from the edge or the backfill
(`Filled`) through the read at the cursor (`Tailed`) to the moved cursor (`Passed`), and shows
that no step of any process loses sight of a line that was written (`Keeps`).

The assumptions on the constants (`RowsAssumption`, `BoundsAssumption`, `DeadlineAssumption`,
`PermissionBounds`, `JobsAssumption`, `TimesAssumption`, `MessagesAssumption`, `InboundBounds`,
`PhoneAssumption`, `AfkAssumption`, `OutboxAssumption`, `TapAssumption`, `LifeAssumption`,
`WatchAssumption`, `OnboardingAssumption`, `InstallAssumption`, `HooksAssumption`) are in the
component's module and are evaluated by TLC in each run. `PhoneAssumption` asks for more message ids
than a run can use, `AfkAssumption` for a channel and a Boolean `Mac`.

**Only model-checked**: the liveness properties (`EventuallyDelivered`, `HookAnswered`,
`EveryTurnEnds`, `Answered`, `ContextArrives`, `NotWedged`, `Shipped`, `WarningsAreTakenBack`,
`LostIsAnnounced`, `WizardFollows`, `TapRuns`, `TitleLands`), because they rest on fairness and
TLAPS has no ENABLED.
Every invariant and every action property of the runs is a theorem.

## 5. Divergences: where the source says otherwise

Comments that the code does not live up to, met while modelling; `PROJECT.json` quotes each. Where
a module states the comment as a property, TLC finds it violated; these stand under a divider
at the end of the module, and no run checks them.

* `DisabledIsNotServed`: a reconnecting device that is disabled is served its backlog before its
  state is looked at (`cp/routes/device.ts:644`, comment at 653-655).
* `RecordedAllowIsReturned`: an allow can be on record, and reported to the user, for a command that
  was denied at its deadline (`cp/routes/device.ts:507-511`). It fails closed.
* `NeverLocalPrompt`: the hook's request timeout is equal to Codex's hook timeout and not below it
  (`hooks/codex/permission-request.ts:49-53`), so on a connection that goes silent the local prompt
  can open instead of a deny.
* `OncePerProcess` counts the injections that Codex's app-server queued although `injectReply` said
  "not injected": the same process injects the row again (`dev/channel.ts:584`, comment at 541).
* `NoLateApproval`: a listener that rejects or a look-up that throws answers 500 and leaves the
  request open, so a later allow is recorded for a command that was denied
  (`cp/routes/device.ts:464`).
* `HoldersNeverOverlap`: the lease is held for a whole job, not for "one LLM call", and is not
  renewed (`cp/db/account-lock.ts:16-19`, `39`); nothing keeps a job below the TTL, and then two
  machines that both took the lease run at once.
* `OnlyCodeFronts`: a destructive permission that the turn's snapshot does not have is bound to the
  model's prose (`cp/orchestrator/index.ts:858`, comment at 849-851).
* `NeverDoubled`: a message that reached the phone and threw, or came back without an id, is not
  counted, and the raw text is forwarded on top of it (`cp/orchestrator/index.ts:719`).
* `Coalesces`: a text behind a queued tap-back aborts a turn it cannot be combined with
  (`cp/orchestrator/index.ts:1768`).
* `BlipIsRetried`: releasing a claim brings no redelivery once the 200 was sent
  (`cp/routes/webhook-sendblue.ts:89-107`).
* `pickStrict` falls back to a lone candidate although `safety.ts:104-107` says that an unresolvable
  tap-back is never coerced onto it (`cp/orchestrator/index.ts:978`).
* `ContextComplete`: lines between the backfill's read and the cursor's read are never shipped
  (`bin/tap.ts:13-14`).
* An insert in flight during the wipe leaves rows behind (`db/schema.sql:620-622`).
* `SyncsBothWays`: a state frame dropped while the local toggle is dirty is never sent again on its
  stream (`dev/afk-sync.ts:5`).
* `NeverWedges`: with egress off and the command's POST lost, the dirty flag stays
  (`dev/channel.ts:763-766`, `862-863`).
* A stale reconcile can kill the caffeinate of a newer toggle, or leave one
  (`dev/caffeinate.ts:137-142`).
* `Survives`: an event is dropped when the route could not store it, or overwritten by a drain's
  rewrite (`dev/outbox.ts:4-10`).
* `WarnsOfTheMissing`: a row given up early may be confirmed before the warning that names it
  (`cp/orchestrator/index.ts:1520`).
* `ParkedStaysWaiting`: the WAITING state and the attention are two statements
  (`cp/db/repo.ts:1206`).
* The wizard's boot may be aborted for good; overlapping mints leave two live tokens, and two device
  rows; the attempt limit is not enforced; a lost pairing answer rotates the token in use away;
  uninstall leaves the other agent, the keychain's token and some settings behind.
* `EndedMeansGone`; the exit of a superseded tap removes its successor's sentinel, and two hooks
  that overlap can each take the session from the other's tap (`bin/tap.ts:160-171`, `626-636`,
  `dev/tap-spawn.ts:151-166`).
* `RenameStands`; a second `/rename` is read only in the same batch of lines as the first, or by the
  next tap's scan (`dev/channel.ts:827`, `bin/tap.ts:373`).

A restarted device sees a re-served row twice (`dev/channel.ts:543-547`), as documented.

## 6. Not modelled

Prompts and history, media, tracing, the transports' parsing and signatures, the parsing of
transcript lines and the pages that only render: text processing and I/O whose correctness is not a
matter of interleaving, and without state the protocols depend on. The websocket protocol with Codex
is an input (landed, refused, or landed and taken for refused), because the app-server is another
program. The handshake by which the channel process learns its session id is left out: one file, one
writer per project directory, read at start. Several control-plane machines appear only in
`AccountLease`; the in-memory queue of `InboundTurns` is one machine's, as in the code.
Authentication is left out except where the killswitch, a revoked token or a re-pairing meets it.
`Codex = TRUE` of `ActivityTap`, the cap of 32 batches a tick and a truncated transcript are not in
a run. In `Enrollment` the person and the wizard are bounded as `SetsUp` and `Calm` say.

## 7. What could come next

1. `HookAnswered`, `EveryTurnEnds` and the other liveness properties need a prover with ENABLED.
2. A larger `activity_mirror` (three lines, Codex), two sessions in `sessions`, two channels in
   `afk` are beyond the time the runs are given, not beyond the modules.
3. More of `SessionHooks`: the title a tap in its loop stands for against the file's, with seeds
   that are cut short as the exception.
4. Abstract specifications for more components than the inbox: a queue that hands over in order for
   `InboundTurns`, a mutual exclusion for `AccountLease`.
