--------------------------- MODULE PermissionWait ---------------------------
(***************************************************************************)
(* Approve-and-resume for Codex.  A PermissionRequest hook POSTs to the    *)
(* control plane and blocks; the handler records a PERMISSION attention,   *)
(* waits for the verdict row the user's decision inserts, and answers the  *)
(* hook with it, or denies at the deadline.  The user's decision is a      *)
(* call of resolveAttention from an orchestrator turn that works on a      *)
(* snapshot of the pending requests.                                       *)
(*                                                                         *)
(* Time is counted in ticks and a step of a handler takes less than one:   *)
(* no tick passes while a handler has something to do.  Requests of one    *)
(* session share its NOTIFY channel, so each wakes the others' handlers.   *)
(***************************************************************************)
EXTENDS Naturals, Sequences, FiniteSets

CONSTANTS
  Requests,    \* permission requests of one Codex session
  Deadline,    \* PERMISSION_DEADLINE_MS, in ticks
  PollTimeout, \* PERMISSION_POLL_TIMEOUT_MS: when the hook's request gives up
  HookTimeout, \* CODEX_HOOK_TIMEOUT_MS: when Codex gives up on the hook
  MaxClock,    \* bound on time
  MaxFaults    \* bound on lost NOTIFYs, lost connections, crashes, failed queries

\* assertDeadlineBelowHookTimeout
ASSUME DeadlineAssumption ==
  /\ Deadline \in Nat \ {0}
  /\ PollTimeout \in Nat /\ Deadline < PollTimeout
  /\ HookTimeout \in Nat /\ Deadline < HookTimeout
ASSUME PermissionBounds == MaxClock \in Nat /\ MaxFaults \in Nat

Behaviors == {"allow", "deny"}

VARIABLES
  clock,
  resolved,  \* attentions with resolved = true
  rows,      \* the verdict rows of each request, in created_at order
  listening, \* the LISTEN connection is up
  notify,    \* a NOTIFY of the session is on it
  missed,    \* that connection was ever lost
  pc,        \* where the handler of each request is
  startedAt,
  wakeAt,    \* when the parked waiter times out
  woken,     \* the parked waiter was settled by a NOTIFY or an abort
  aborted,   \* the client is gone
  hook,      \* what the hook did: "none", "blocked", an answer or "timeout"
  snapshot,  \* ctx.pending of the user's turn
  told,      \* the decision on each request that the user was told was taken
  orphaned,  \* requests whose handler was lost, threw or could not close them
  cut,       \* requests whose connection went silent: neither side is told
  faults

dbVars == <<resolved, rows>>
notifyVars == <<listening, notify, missed>>
handlerVars == <<pc, startedAt, wakeAt, woken, aborted>>
userVars == <<snapshot, told>>
faultVars == <<orphaned, cut, faults>>
vars == <<clock, dbVars, notifyVars, handlerVars, hook, userVars, faultVars>>

Fault ==
  /\ faults < MaxFaults
  /\ faults' = faults + 1

Init ==
  /\ clock = 0
  /\ resolved = {}
  /\ rows = [r \in Requests |-> <<>>]
  /\ listening = TRUE
  /\ notify = FALSE
  /\ missed = FALSE
  /\ pc = [r \in Requests |-> "idle"]
  /\ startedAt = [r \in Requests |-> 0]
  /\ wakeAt = [r \in Requests |-> 0]
  /\ woken = [r \in Requests |-> FALSE]
  /\ aborted = [r \in Requests |-> FALSE]
  /\ hook = [r \in Requests |-> "none"]
  /\ snapshot = {}
  /\ told = [r \in Requests |-> "nothing"]
  /\ orphaned = {}
  /\ cut = {}
  /\ faults = 0

-----------------------------------------------------------------------------
(* The database: resolveAttention and findVerdictForRequest.               *)

\* Mutant: the UPDATE forgets "AND resolved = false".
ResolveAttention_again(r, b) ==
  /\ resolved' = resolved \cup {r}
  /\ rows' = [rows EXCEPT ![r] = Append(@, b)]
  /\ notify' = listening
\* One transaction: only the first resolve wins, and it inserts the row, whose
\* trigger NOTIFYs.
ResolveAttention(r, b) ==
  IF r \in resolved
  THEN UNCHANGED <<resolved, rows, notify>>
  ELSE /\ resolved' = resolved \cup {r}
       /\ rows' = [rows EXCEPT ![r] = Append(@, b)]
       /\ notify' = listening

\* Mutant: any verdict of the session is taken.
FindVerdict_session(r) ==
  LET some == {q \in Requests : rows[q] # <<>>}
  IN  IF some = {} THEN "none" ELSE rows[CHOOSE q \in some : TRUE][1]
\* The first verdict row; anything but an allow reads as a deny.
FindVerdict(r) ==
  IF rows[r] = <<>> THEN "none"
  ELSE IF rows[r][1] = "allow" THEN "allow" ELSE "deny"

-----------------------------------------------------------------------------
(* The handler of POST /api/device/permission.                             *)

\* The waiter is registered before the row is looked for.
Parked(r) == pc[r] \in {"query", "empty", "await"}

\* The hook, with AFK on and a tool that needs a verdict, asks for one and blocks on it.
HookAsks(r) == hook[r] = "none"

\* The attention is stored and surfaced, the clock starts.
Ask(r) ==
  /\ HookAsks(r)
  /\ clock + HookTimeout <= MaxClock \* room to see it through
  /\ hook' = [hook EXCEPT ![r] = "blocked"]
  /\ pc' = [pc EXCEPT ![r] = "loop"]
  /\ startedAt' = [startedAt EXCEPT ![r] = clock]
  /\ listening' = TRUE \* await ensureListener()
  /\ UNCHANGED <<clock, dbVars, notify, missed, wakeAt, woken, aborted,
                 userVars, faultVars>>

\* The attention is stored, and then ensureListener rejects: the route answers
\* 500, which the hook takes for a deny, and leaves the request open.
AskFails(r) ==
  /\ HookAsks(r)
  /\ clock + HookTimeout <= MaxClock
  /\ ~listening
  /\ hook' = [hook EXCEPT ![r] = "deny"]
  /\ pc' = [pc EXCEPT ![r] = "done"]
  /\ orphaned' = orphaned \cup {r}
  /\ Fault
  /\ UNCHANGED <<clock, dbVars, notifyVars, startedAt, wakeAt, woken, aborted,
                 userVars, cut>>

\* Mutant: every wait gets the full deadline again.
Remaining_full(r) == IF clock >= startedAt[r] + Deadline THEN 0 ELSE Deadline
Remaining(r) ==
  IF clock >= startedAt[r] + Deadline THEN 0 ELSE startedAt[r] + Deadline - clock

\* waitForSessionEvent, for what is left of the deadline.
Parks(r) ==
  /\ wakeAt' = [wakeAt EXCEPT ![r] = clock + Remaining(r)]
  /\ woken' = [woken EXCEPT ![r] = FALSE]

Loop(r) ==
  /\ pc[r] = "loop"
  /\ IF aborted[r] \/ Remaining(r) = 0
     THEN /\ pc' = [pc EXCEPT ![r] = "cleanup"]
          /\ UNCHANGED <<wakeAt, woken>>
     ELSE /\ pc' = [pc EXCEPT ![r] = "query"]
          /\ Parks(r)
  /\ UNCHANGED <<clock, dbVars, notifyVars, startedAt, aborted, hook, userVars,
                 faultVars>>

\* A hook that waits on a connection that works.
Reachable(r) == hook[r] = "blocked" /\ r \notin cut
\* Only an explicit allow allows.
DecisionFromVerdict(b) == IF b = "allow" THEN "allow" ELSE "deny"
\* The response reaches the hook if it is still there.
Answer(r, b) == hook' = IF Reachable(r) THEN [hook EXCEPT ![r] = DecisionFromVerdict(b)] ELSE hook

\* The waiter is gone.
Unparks(r) ==
  /\ wakeAt' = [wakeAt EXCEPT ![r] = 0]
  /\ woken' = [woken EXCEPT ![r] = FALSE]

\* Both look-ups, the one after parking and the one after the wait.
LookUp(r, from, to) ==
  /\ pc[r] = from
  /\ IF FindVerdict(r) = "none"
     THEN pc' = [pc EXCEPT ![r] = to] /\ UNCHANGED <<hook, wakeAt, woken>>
     ELSE /\ pc' = [pc EXCEPT ![r] = "done"]
          /\ Answer(r, FindVerdict(r))
          /\ Unparks(r)
  /\ UNCHANGED <<clock, dbVars, notifyVars, startedAt, aborted, userVars, faultVars>>

\* The result of a query arrives after the database has read the row.
Query(r) == LookUp(r, "query", "empty")
NoVerdict(r) ==
  /\ pc[r] = "empty"
  /\ pc' = [pc EXCEPT ![r] = "await"]
  /\ UNCHANGED <<clock, dbVars, notifyVars, startedAt, wakeAt, woken, aborted,
                 hook, userVars, faultVars>>
After(r) == LookUp(r, "after", "loop")

\* Either look-up throws.  The try has a finally and no catch: the waiter goes,
\* the answer is a 500, a deny to the hook, and nobody closes the request.
LookUpFails(r) ==
  /\ pc[r] \in {"query", "after"}
  /\ pc' = [pc EXCEPT ![r] = "done"]
  /\ Answer(r, "deny")
  /\ Unparks(r)
  /\ orphaned' = orphaned \cup {r}
  /\ Fault
  /\ UNCHANGED <<clock, dbVars, notifyVars, startedAt, aborted, userVars, cut>>

\* Mutant: the wait has no timeout of its own.
WaitEnds_notified(r) ==
  /\ pc[r] = "await"
  /\ woken[r] \/ aborted[r]
  /\ pc' = [pc EXCEPT ![r] = "after"]
  /\ Unparks(r)
  /\ UNCHANGED <<clock, dbVars, notifyVars, startedAt, aborted, hook, userVars,
                 faultVars>>
\* A NOTIFY of the session, the client's abort or the timeout ends the wait.
WaitEnds(r) ==
  /\ pc[r] = "await"
  /\ woken[r] \/ aborted[r] \/ clock >= wakeAt[r]
  /\ pc' = [pc EXCEPT ![r] = "after"]
  /\ Unparks(r)
  /\ UNCHANGED <<clock, dbVars, notifyVars, startedAt, aborted, hook, userVars,
                 faultVars>>

\* Mutant: the answer goes out without closing the request.
Cleanup_skipped(r) ==
  /\ pc[r] = "cleanup"
  /\ pc' = [pc EXCEPT ![r] = "deny"]
  /\ UNCHANGED <<clock, dbVars, notifyVars, startedAt, wakeAt, woken, aborted,
                 hook, userVars, faultVars>>
\* Deadline or disconnect: the request is resolved as a deny first ...
Cleanup(r) ==
  /\ pc[r] = "cleanup"
  /\ ResolveAttention(r, "deny")
  /\ pc' = [pc EXCEPT ![r] = "deny"]
  /\ UNCHANGED <<clock, listening, missed, startedAt, wakeAt, woken, aborted,
                 hook, userVars, faultVars>>

\* ... where a database error is logged and swallowed ...
CleanupFails(r) ==
  /\ pc[r] = "cleanup"
  /\ pc' = [pc EXCEPT ![r] = "deny"]
  /\ orphaned' = orphaned \cup {r}
  /\ Fault
  /\ UNCHANGED <<clock, dbVars, notifyVars, startedAt, wakeAt, woken, aborted,
                 hook, userVars, cut>>

\* ... and the answer is an explicit deny.
DeadlineDeny(r) ==
  /\ pc[r] = "deny"
  /\ pc' = [pc EXCEPT ![r] = "done"]
  /\ Answer(r, "deny")
  /\ UNCHANGED <<clock, dbVars, notifyVars, startedAt, wakeAt, woken, aborted,
                 userVars, faultVars>>

Handler(r) ==
  \/ Loop(r) \/ Query(r) \/ NoVerdict(r) \/ WaitEnds(r) \/ After(r)
  \/ Cleanup(r) \/ DeadlineDeny(r)

-----------------------------------------------------------------------------
(* The user's turn.                                                        *)

Pending == {r \in Requests : hook[r] # "none"} \ resolved

StartTurn ==
  /\ snapshot # Pending
  /\ snapshot' = Pending
  /\ UNCHANGED <<clock, dbVars, notifyVars, handlerVars, hook, told, faultVars>>

\* message_agent with an action: the pick comes from the snapshot, the reply to
\* the user from what resolveAttention returned.
Decide(r, b) ==
  /\ r \in snapshot
  /\ ResolveAttention(r, b)
  /\ told' = IF r \in resolved THEN told \* "already resolved"
             ELSE [told EXCEPT ![r] = b]
  /\ UNCHANGED <<clock, listening, missed, handlerVars, hook, snapshot, faultVars>>

-----------------------------------------------------------------------------
(* NOTIFY, time and faults.                                                *)

NotifyArrives ==
  /\ listening /\ notify
  /\ notify' = FALSE
  /\ woken' = [r \in Requests |-> woken[r] \/ Parked(r)]
  /\ UNCHANGED <<clock, dbVars, listening, missed, pc, startedAt, wakeAt,
                 aborted, hook, userVars, faultVars>>

ListenerDrops ==
  /\ listening
  /\ listening' = FALSE
  /\ notify' = FALSE
  /\ missed' = TRUE
  /\ Fault
  /\ UNCHANGED <<clock, dbVars, handlerVars, hook, userVars, orphaned, cut>>

ListenerReconnects ==
  /\ ~listening
  /\ listening' = TRUE
  /\ UNCHANGED <<clock, dbVars, notify, missed, handlerVars, hook, userVars, faultVars>>

\* The hook's connection breaks; the hook fails closed.
Disconnects(r) ==
  /\ Reachable(r)
  /\ hook' = [hook EXCEPT ![r] = "deny"]
  /\ aborted' = [aborted EXCEPT ![r] = TRUE]
  /\ orphaned' = orphaned \cup {r}
  /\ Fault
  /\ UNCHANGED <<clock, dbVars, notifyVars, pc, startedAt, wakeAt, woken, userVars,
                 cut>>

\* It goes silent: the handler is not aborted, and its answer will not arrive.
GoesSilent(r) ==
  /\ Reachable(r)
  /\ cut' = cut \cup {r}
  /\ Fault
  /\ UNCHANGED <<clock, dbVars, notifyVars, handlerVars, hook, userVars, orphaned>>

\* The control plane goes down with all its handlers and the user's turn.
Crash ==
  /\ Fault
  /\ pc' = [r \in Requests |-> IF hook[r] = "none" THEN "idle" ELSE "done"]
  /\ hook' = [r \in Requests |-> IF Reachable(r) THEN "deny" ELSE hook[r]]
  /\ orphaned' = orphaned \cup {r \in Requests : hook[r] = "blocked"}
  /\ snapshot' = {}
  /\ notify' = FALSE
  /\ missed' = TRUE
  /\ UNCHANGED <<clock, dbVars, listening, startedAt, wakeAt, woken, aborted, told,
                 cut>>

Overdue(r, limit) == hook[r] = "blocked" /\ clock >= startedAt[r] + limit

\* The hook's request is aborted: deny.
PollTimesOut(r) ==
  /\ Overdue(r, PollTimeout)
  /\ hook' = [hook EXCEPT ![r] = "deny"]
  /\ UNCHANGED <<clock, dbVars, notifyVars, handlerVars, userVars, faultVars>>

\* Codex gives up on the hook: no decision, and the local prompt opens.
HookTimesOut(r) ==
  /\ Overdue(r, HookTimeout)
  /\ hook' = [hook EXCEPT ![r] = "timeout"]
  /\ UNCHANGED <<clock, dbVars, notifyVars, handlerVars, userVars, faultVars>>

Idle(r) ==
  \/ pc[r] \in {"idle", "done"}
  \/ pc[r] = "await" /\ ~woken[r] /\ ~aborted[r] /\ clock < wakeAt[r]

Tick ==
  /\ clock < MaxClock
  /\ \A r \in Requests :
       Idle(r) /\ ~Overdue(r, PollTimeout) /\ ~Overdue(r, HookTimeout)
  /\ clock' = clock + 1
  /\ UNCHANGED <<dbVars, notifyVars, handlerVars, hook, userVars, faultVars>>

Next ==
  \/ \E r \in Requests :
       \/ Ask(r) \/ Handler(r) \/ PollTimesOut(r) \/ HookTimesOut(r)
       \/ AskFails(r) \/ LookUpFails(r) \/ CleanupFails(r)
       \/ Disconnects(r) \/ GoesSilent(r)
       \/ \E b \in Behaviors : Decide(r, b)
  \/ StartTurn
  \/ NotifyArrives \/ ListenerDrops \/ ListenerReconnects
  \/ Crash
  \/ Tick

\* While a handler can run or a timer is due, one of them takes a step, and
\* otherwise time passes; the user may never decide.
Progress ==
  \/ \E r \in Requests : Handler(r) \/ PollTimesOut(r) \/ HookTimesOut(r)
  \/ Tick
Fairness == WF_vars(Progress)

Spec == Init /\ [][Next]_vars
FairSpec == Spec /\ Fairness

-----------------------------------------------------------------------------
(* Properties.                                                             *)

TypeOK ==
  /\ clock \in Nat
  /\ resolved \subseteq Requests
  /\ rows \in [Requests -> Seq(Behaviors)]
  /\ listening \in BOOLEAN /\ notify \in BOOLEAN /\ missed \in BOOLEAN
  /\ pc \in [Requests -> {"idle", "loop", "query", "empty", "await", "after", "cleanup",
                          "deny", "done"}]
  /\ startedAt \in [Requests -> Nat]
  /\ wakeAt \in [Requests -> Nat]
  /\ \A r \in Requests : wakeAt[r] <= startedAt[r] + Deadline
  /\ woken \in [Requests -> BOOLEAN]
  /\ aborted \in [Requests -> BOOLEAN]
  /\ hook \in [Requests -> {"none", "blocked", "allow", "deny", "timeout"}]
  /\ snapshot \subseteq Requests
  /\ told \in [Requests -> Behaviors \cup {"nothing"}]
  /\ orphaned \subseteq Requests /\ cut \subseteq Requests
  /\ faults \in Nat

\* The approval path is fail-closed: a hook is told "allow" only if an allow is
\* the verdict on record for that very request; no deadline, lost response,
\* crash, spurious wake-up or verdict of another request produces one.
AllowIsOnRecord == \A r \in Requests : hook[r] = "allow" => rows[r] = <<"allow">>

\* "never double-resolves, never double-enqueues": the turn and the deadline
\* race for a request, one row results, and the user is told "allowed" or
\* "denied" only if that row is what was recorded (resolveAttention).
OneVerdict ==
  \A r \in Requests :
    /\ Len(rows[r]) <= 1
    /\ told[r] \in Behaviors => rows[r] = <<told[r]>>

\* Park-before-query: while the LISTEN connection holds, a handler never sleeps
\* on a verdict that is already there; the NOTIFY either is still coming or has
\* settled the waiter, however it interleaves with the look-up.
NoLostWakeup ==
  \A r \in Requests :
    pc[r] = "await" /\ rows[r] # <<>> /\ ~missed => notify \/ woken[r]

\* The deadline beats the hook's own timeout however often the wait is
\* interrupted by other rows of the session: a silent user is a remote deny and
\* never the unattended local prompt, as long as the answer can get through.
DeadlineBeatsHook == \A r \in Requests \ cut : hook[r] # "timeout"

\* "a late tap-back can't approve a command that already returned": once the
\* hook has been answered by a verdict or at its deadline, the verdict on record
\* no longer changes.  Exempt is a request whose handler was lost, threw or
\* failed to clean up, and which therefore is still open (NoLateApproval).
ClosedIsFinal ==
  [][\A r \in Requests \ orphaned :
       hook[r] \in {"allow", "deny"} => rows'[r] = rows[r]]_vars

\* "never a hang": every blocked hook is eventually answered; again and again
\* none is blocked.
HookAnswered == []<>(\A r \in Requests : hook[r] # "blocked")

-----------------------------------------------------------------------------
(* What a comment says and the code does not do: no run checks these, TLC  *)
(* finds them violated (README, Divergences).                              *)

\* "only the first resolve wins, so a verdict that beat us to it has already
\* returned above": an allow that is on record when the hook is answered is the
\* answer.
RecordedAllowIsReturned ==
  \A r \in Requests :
    hook[r] \in {"allow", "deny"} /\ rows[r] = <<"allow">> => hook[r] = "allow"

\* "a late tap-back can't approve a command that already returned", whatever made
\* it return: not so after a look-up that threw, a lost handler, a disconnect or
\* a failed cleanup.
NoLateApproval ==
  [][\A r \in Requests :
       hook[r] \in {"allow", "deny"} /\ rows'[r] # rows[r] => rows'[r] # <<"allow">>]_vars

\* "any error: deny": the hook's request gives up before Codex gives up on the
\* hook, so even a silent network is a deny and not the local prompt.
NeverLocalPrompt == \A r \in Requests : hook[r] # "timeout"
=============================================================================
