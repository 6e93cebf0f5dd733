----------------------------- MODULE DeliveryWatch -----------------------------
(***************************************************************************)
(* watchDeliveries of orchestrator/index.ts: after a turn that put rows    *)
(* into session inboxes, a detached watcher waits for the device's ACK of  *)
(* each (waitForDelivered of listener.ts), asks whether the session still  *)
(* lives (SessionLife), warns the user of the rows that did not land, and  *)
(* takes a warning back if they land after all.  One row per session, all  *)
(* of one turn.                                                            *)
(***************************************************************************)
EXTENDS SessionLife

CONSTANTS Quick,     \* DELIVERY_CONFIRM_TIMEOUT_MS
          Grace,     \* DELIVERY_DISCONNECTED_GRACE_MS
          Debounce,  \* DELIVERY_DEBOUNCE_MS
          Retract,   \* DELIVERY_RETRACT_WINDOW_MS
          MaxLapses  \* bound: failed queries, lost NOTIFYs, restarts

ASSUME WatchAssumption ==
  {Quick, Grace, Debounce, Retract, MaxLapses} \subseteq Nat /\ 0 < Quick /\ Quick + Grace < Debounce

VARIABLES
  acked,     \* rows whose delivered_at is set
  woken,     \* rows whose NOTIFY came since their wait began
  watch,     \* session -> its row's watch: [pc, left, checked, until]
  clock,     \* time since the watch began, up to Debounce
  failed,    \* history: rows with a query that failed
  lapses     \* so far

watchVars == <<acked, woken, watch, clock, failed, lapses>>
allVars == <<lifeVars, watchVars>>

Waits == {"quick", "grace", "rest", "late"}
Waiting(pc, time, until) == [pc |-> pc, left |-> time, checked |-> FALSE, until |-> until]
At(pc) == Waiting(pc, 0, 0)
Goes(s, w) == watch' = [watch EXCEPT ![s] = w]

WatchInit ==
  /\ LifeInit /\ acked = {} /\ woken = {} /\ watch = [s \in Sessions |-> Waiting("quick", Quick, 0)]
  /\ clock = 0 /\ failed = {} /\ lapses = 0

Lapse == lapses < MaxLapses /\ lapses' = lapses + 1

\* The device's ACK, and its NOTIFY if the LISTEN connection holds; it may outlast its process.
Ack(s, heard) ==
  /\ s \notin acked /\ acked' = acked \cup {s}
  /\ IF heard THEN woken' = woken \cup {s} /\ UNCHANGED lapses ELSE Lapse /\ UNCHANGED woken
  /\ UNCHANGED <<lifeVars, watch, clock, failed>>

\* Mutant: after the wait the wake-up decides, not the row.
Landed_heard(s) == s \in woken

\* isInboxDelivered.
Landed(s) == s \in acked

\* What follows a wait that ended without an ACK.
After(pc) == CASE pc = "quick" -> "live1" [] pc = "grace" -> "live2"
               [] pc = "rest" -> "given_up" [] pc = "late" -> "missed"

\* waitForDelivered: a check when parked, and one when the NOTIFY or the timeout ends the wait.
\* A query that fails or hangs counts as not delivered.
Check(s, works) ==
  LET w == watch[s]
      seen == works /\ Landed(s)
  IN /\ w.pc \in Waits /\ (~w.checked \/ w.left = 0 \/ s \in woken)
     /\ Goes(s, CASE seen -> At(IF w.pc = "late" THEN "landed" ELSE "ok")
                  [] ~seen /\ ~w.checked -> [w EXCEPT !.checked = TRUE]
                  [] OTHER -> Waiting(After(w.pc), 0, IF w.pc = "quick" THEN clock + Debounce - Quick ELSE w.until))
     /\ IF works THEN UNCHANGED <<failed, lapses>> ELSE failed' = failed \cup {s} /\ Lapse
     /\ UNCHANGED <<lifeVars, acked, woken, clock>>

\* Mutant: the grace is the last chance.
Rest_none(s) == At("given_up")

\* Phase 3: what is left of the debounce.
Rest(s) ==
  LET until == watch[s].until
  IN IF clock < until THEN Waiting("rest", until - clock, until) ELSE At("given_up")

\* watchOneDelivery after the quick wait, and after the grace: isSessionLive, live if unknown.
AsksLive(s, works) ==
  LET alive == works => Live(s)
  IN /\ watch[s].pc \in {"live1", "live2"}
     /\ Goes(s, CASE alive -> Rest(s)
                  [] ~alive /\ watch[s].pc = "live1" -> Waiting("grace", Grace, watch[s].until)
                  [] OTHER -> At("given_up"))
     /\ IF works THEN UNCHANGED <<failed, lapses>> ELSE failed' = failed \cup {s} /\ Lapse
     /\ woken' = woken \ {s}
     /\ UNCHANGED <<lifeVars, acked, clock>>

\* All rows are decided: one warning, and the warned rows are watched on.
Warn ==
  /\ \A s \in Sessions : watch[s].pc \in {"ok", "given_up"}
  /\ \E s \in Sessions : watch[s].pc = "given_up"
  /\ watch' = [s \in Sessions |-> IF watch[s].pc = "ok" THEN watch[s] ELSE Waiting("late", Retract, 0)]
  /\ woken' = {} /\ UNCHANGED <<lifeVars, acked, clock, failed, lapses>>

\* All late watches are over: one retraction.
Retracts ==
  /\ \A s \in Sessions : watch[s].pc \in {"ok", "landed", "missed"}
  /\ \E s \in Sessions : watch[s].pc = "landed"
  /\ watch' = [s \in Sessions |-> IF watch[s].pc = "landed" THEN At("retracted") ELSE watch[s]]
  /\ UNCHANGED <<lifeVars, acked, woken, clock, failed, lapses>>

WatchOver == {"ok", "missed", "retracted", "cut"}

\* A restart takes the watcher with it.
Restart ==
  /\ Lapse /\ \E s \in Sessions : watch[s].pc \notin WatchOver
  /\ watch' = [s \in Sessions |-> At("cut")]
  /\ UNCHANGED <<lifeVars, acked, woken, clock, failed>>

\* The watcher's steps take no time.
Urgent == \E s \in Sessions :
  \/ watch[s].pc \in {"live1", "live2", "landed"}
  \/ watch[s].pc \in Waits /\ (~watch[s].checked \/ watch[s].left = 0 \/ s \in woken)
  \/ watch[s].pc = "given_up" /\ \A t \in Sessions : watch[t].pc \in {"ok", "given_up"}
Counts == \E s \in Sessions : watch[s].pc \in Waits

Tick ==
  /\ ~Urgent /\ (Ages \/ Counts) /\ LifeTick
  /\ clock' = IF Counts THEN Min({clock + 1, Debounce}) ELSE clock
  /\ watch' = [s \in Sessions |-> IF watch[s].pc \in Waits THEN [watch[s] EXCEPT !.left = @ - 1] ELSE watch[s]]
  /\ UNCHANGED <<acked, woken, failed, lapses>>

Watches == Warn \/ Retracts \/ \E s \in Sessions : Check(s, TRUE) \/ AsksLive(s, TRUE)

WatchNext ==
  \/ LifeNext /\ UNCHANGED watchVars
  \/ Watches \/ Tick \/ Restart
  \/ \E s \in Sessions : Check(s, FALSE) \/ AsksLive(s, FALSE) \/ \E heard \in BOOLEAN : Ack(s, heard)

WatchFairness ==
  /\ WF_allVars(Reap /\ UNCHANGED watchVars) /\ WF_allVars(ClaimLost /\ UNCHANGED watchVars)
  /\ WF_allVars(Announces /\ UNCHANGED watchVars)
  /\ WF_allVars(Watches) /\ WF_allVars(Tick)
WatchSpec == WatchInit /\ [][WatchNext]_allVars /\ WatchFairness
-----------------------------------------------------------------------------
(* Properties. *)

WatchTypeOK ==
  /\ LifeTypeOK /\ acked \subseteq Sessions /\ woken \subseteq acked /\ clock \in 0..Debounce
  /\ \A s \in Sessions : watch[s].left \in 0..Debounce + Retract

\* The user's last word on a row is true: one whose ACK comes while it is watched is not warned
\* of, or the warning is taken back, whatever NOTIFY is lost, whichever wait it meets;
\* a failed query of its watch or a restart may spoil that.
WarningsAreTakenBack ==
  \A s \in Sessions : s \in acked /\ watch[s].pc \notin WatchOver
                      ~> watch[s].pc \in {"ok", "retracted", "cut"} \/ s \in failed

\* A row is given up only when the debounce is over, or after the grace while its session is
\* not live; a session that is merely slow has the whole debounce.
GivesUpFairly ==
  [][\A s \in Sessions : watch[s].pc # "given_up" /\ watch'[s].pc = "given_up" /\ s \notin failed'
       => clock = Debounce \/ (clock >= Quick + Grace /\ ~Live(s))]_allVars

-----------------------------------------------------------------------------
(* What a comment says and the code does not do: no run checks these, TLC  *)
(* finds them violated (README, Divergences).                              *)

\* The warning is about rows "that never landed" (index.ts:1520).
WarnsOfTheMissing ==
  [][\A s \in Sessions : watch[s].pc = "given_up" /\ watch'[s].pc = "late" => s \notin acked]_allVars
=============================================================================
