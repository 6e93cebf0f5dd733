---------------------------- MODULE AccountLease ----------------------------
(***************************************************************************)
(* Turns of ONE account, serialized in two layers: on each machine the     *)
(* promise chain of withAccountLock, and between machines a lease row in   *)
(* Postgres that withAccountLease takes around the turn.                   *)
(*                                                                         *)
(* A job is one call of withAccountLock: an agent event, a relayed message *)
(* or a drain of the user's queue.  Time is relative: the row counts down  *)
(* to its expiry, a waiting job counts up to its timeout, a running job    *)
(* counts its length, which the model bounds by MaxTurn.  The code bounds  *)
(* one model call, not a job, and never renews the lease: MaxTurn may      *)
(* exceed the TTL.                                                         *)
(***************************************************************************)
EXTENDS Naturals, FiniteSets

CONSTANTS
  Machines, Jobs,
  Home,           \* the machine each job arrives at
  None,
  TTL,            \* LEASE_TTL_SECONDS, in ticks
  AcquireTimeout, \* ACQUIRE_TIMEOUT_MS, in ticks
  MaxTurn,        \* longest job, in ticks
  MaxFaults       \* crashes and failed lease queries

ASSUME JobsAssumption == Home \in [Jobs -> Machines] /\ None \notin Jobs
ASSUME TimesAssumption ==
  /\ TTL \in Nat \ {0} /\ AcquireTimeout \in Nat
  /\ MaxTurn \in Nat /\ MaxFaults \in Nat

VARIABLES
  st,     \* how far each job is
  prev,   \* the job it waits for in the chain
  tail,   \* accountLocks: the last job chained on each machine
  held,   \* acquireLease returned true
  age,    \* ticks in acquireLease, or ticks the job has been running
  owner,  \* account_locks.owner, a job standing for its token
  left,   \* ticks until expires_at; a row with 0 left is up for grabs
  faults

chainVars == <<prev, tail>>
leaseVars == <<owner, left>>
vars == <<st, chainVars, held, age, leaseVars, faults>>

Settled == {"fulfilled", "rejected", "collected", "gone"}

Fault ==
  /\ faults < MaxFaults
  /\ faults' = faults + 1

Becomes(j, s) ==
  /\ st' = [st EXCEPT ![j] = s]
  /\ age' = [age EXCEPT ![j] = 0]

Init ==
  /\ st = [j \in Jobs |-> "new"]
  /\ prev = [j \in Jobs |-> None]
  /\ tail = [m \in Machines |-> None]
  /\ held = [j \in Jobs |-> FALSE]
  /\ age = [j \in Jobs |-> 0]
  /\ owner = None
  /\ left = 0
  /\ faults = 0

-----------------------------------------------------------------------------
(* withAccountLock                                                         *)

Submit(j) ==
  /\ st[j] = "new"
  /\ Becomes(j, "chained")
  /\ prev' = [prev EXCEPT ![j] = tail[Home[j]]]
  /\ tail' = [tail EXCEPT ![Home[j]] = j]
  /\ UNCHANGED <<held, leaseVars, faults>>

\* Mutant: prev.then(guarded), with nothing for a rejection.
Start_fulfilled(j) ==
  /\ st[j] = "chained"
  /\ prev[j] # None => st[prev[j]] \in Settled \ {"rejected"}
  /\ Becomes(j, "acquiring")
  /\ prev' = [prev EXCEPT ![j] = None]
  /\ UNCHANGED <<tail, held, leaseVars, faults>>
\* Runs however the prior turn settled.
Start(j) ==
  /\ st[j] = "chained"
  /\ prev[j] # None => st[prev[j]] \in Settled
  /\ Becomes(j, "acquiring")
  /\ prev' = [prev EXCEPT ![j] = None]
  /\ UNCHANGED <<tail, held, leaseVars, faults>>

\* The last chained turn removes the entry, however it settled.
Collect(j) ==
  /\ st[j] \in {"fulfilled", "rejected"}
  /\ Becomes(j, "collected")
  /\ tail' = IF tail[Home[j]] = j THEN [tail EXCEPT ![Home[j]] = None] ELSE tail
  /\ UNCHANGED <<prev, held, leaseVars, faults>>

-----------------------------------------------------------------------------
(* withAccountLease, acquireLease, releaseLease                            *)

\* INSERT ... ON CONFLICT DO UPDATE ... WHERE expires_at < now()
Takes(j) == owner' = j /\ left' = TTL

Free == owner = None \/ left = 0

Acquire(j) ==
  /\ st[j] = "acquiring"
  /\ Free
  /\ Takes(j)
  /\ held' = [held EXCEPT ![j] = TRUE]
  /\ Becomes(j, "running")
  /\ UNCHANGED <<chainVars, faults>>

\* The row is still held after the wait: best-effort, without the lease.
GiveUp(j) ==
  /\ st[j] = "acquiring"
  /\ ~Free
  /\ age[j] >= AcquireTimeout
  /\ Becomes(j, "running")
  /\ UNCHANGED <<chainVars, held, leaseVars, faults>>

\* The query fails: best-effort again; the statement may have been applied.
AcquireFails(j) ==
  /\ st[j] = "acquiring"
  /\ (Free /\ Takes(j)) \/ UNCHANGED leaseVars
  /\ Becomes(j, "running")
  /\ Fault
  /\ UNCHANGED <<chainVars, held>>

\* The turn ends, or throws; finally releases a lease that was taken.
Finish(j) ==
  /\ st[j] = "running"
  /\ \/ Becomes(j, IF held[j] THEN "releasing" ELSE "fulfilled")
     \/ Becomes(j, IF held[j] THEN "unwinding" ELSE "rejected")
  /\ UNCHANGED <<chainVars, held, leaseVars, faults>>

Ends(j) ==
  \/ st[j] = "releasing" /\ Becomes(j, "fulfilled")
  \/ st[j] = "unwinding" /\ Becomes(j, "rejected")

\* Mutant: DELETE the account's row, whoever owns it.
Release_any(j) ==
  /\ Ends(j)
  /\ owner' = None /\ left' = 0
  /\ UNCHANGED <<chainVars, held, faults>>
\* DELETE ... WHERE owner = my token
Release(j) ==
  /\ Ends(j)
  /\ IF owner = j THEN owner' = None /\ left' = 0 ELSE UNCHANGED leaseVars
  /\ UNCHANGED <<chainVars, held, faults>>

\* A failed DELETE leaves the row to its expiry.
ReleaseFails(j) ==
  /\ Ends(j)
  /\ Fault
  /\ UNCHANGED <<chainVars, held, leaseVars>>

\* A machine dies with its jobs; the rows they own stay.
Crash(m) ==
  /\ st' = [j \in Jobs |-> IF Home[j] = m /\ st[j] # "new" THEN "gone" ELSE st[j]]
  /\ age' = [j \in Jobs |-> IF Home[j] = m THEN 0 ELSE age[j]]
  /\ tail' = [tail EXCEPT ![m] = None]
  /\ Fault
  /\ UNCHANGED <<prev, held, leaseVars>>

\* A tick is long against RETRY_MS: a row nobody holds is taken within one.
Tick ==
  /\ \A j \in Jobs : st[j] = "running" => age[j] < MaxTurn
  /\ Free => \A j \in Jobs : st[j] # "acquiring"
  /\ left' = IF left = 0 THEN 0 ELSE left - 1
  /\ age' = [j \in Jobs |->
       IF st[j] = "running" \/ (st[j] = "acquiring" /\ age[j] < AcquireTimeout)
       THEN age[j] + 1 ELSE age[j]]
  /\ UNCHANGED <<st, chainVars, held, owner, faults>>

Job(j) == Start(j) \/ Acquire(j) \/ GiveUp(j) \/ Finish(j) \/ Release(j)

Next ==
  \/ \E j \in Jobs :
       \/ Submit(j) \/ Job(j) \/ Collect(j)
       \/ AcquireFails(j) \/ ReleaseFails(j)
  \/ \E m \in Machines : Crash(m)
  \/ Tick

\* Promises settle, queries return, turns end (each model call is aborted after
\* REQUEST_TIMEOUT_MS and there are MAX_ROUNDS of them), and time passes: as long
\* as one of them is due, one of them happens.
Progress == (\E j \in Jobs : Job(j)) \/ Tick
Fairness == WF_vars(Progress)

Spec == Init /\ [][Next]_vars
FairSpec == Spec /\ Fairness

-----------------------------------------------------------------------------
(* Properties.                                                             *)

TypeOK ==
  /\ st \in [Jobs -> {"new", "chained", "acquiring", "running", "releasing",
                      "unwinding"} \cup Settled]
  /\ prev \in [Jobs -> Jobs \cup {None}]
  /\ tail \in [Machines -> Jobs \cup {None}]
  /\ held \in [Jobs -> BOOLEAN]
  /\ age \in [Jobs -> Nat]
  /\ owner \in Jobs \cup {None}
  /\ left \in 0 .. TTL
  /\ faults \in Nat

Running(j) == st[j] = "running"

\* "turns for the same account never overlap" on one machine, however they
\* settle and whenever the chain's entry is collected (withAccountLock).
OneTurnPerMachine ==
  \A j, k \in Jobs : Running(j) /\ Running(k) /\ Home[j] = Home[k] => j = k

\* Of two jobs that run at once and both took the lease, one has outlasted the
\* TTL it took it for: nobody steals from a holder within its time, and a holder
\* that comes back late gives up its own row only, never its successor's
\* (acquireLease, releaseLease).
LeaseExclusion ==
  \A j, k \in Jobs : Running(j) /\ held[j] /\ Running(k) /\ held[k] =>
    j = k \/ age[j] >= TTL \/ age[k] >= TTL

\* The two layers together: turns of one account overlap only between machines,
\* and only when one of them runs without the lease, as the code's best effort
\* has it after a failed query or a wait that was too long, or has outlasted it,
\* which nothing in the code prevents (withAccountLock, withAccountLease).
TurnsExclude == OneTurnPerMachine /\ LeaseExclusion

\* "Don't drop the turn": every submitted job runs to its end or dies with its
\* machine, whatever became of the lease; again and again none is left over.
EveryTurnEnds == []<>(\A j \in Jobs : st[j] \in {"new"} \cup Settled)

-----------------------------------------------------------------------------
(* What the code's comments have and the code does not.  No run checks it. *)

\* "turns are short ..., so they finish far inside the TTL": then two holders of
\* the lease would never run together (db/account-lock.ts).
HoldersNeverOverlap ==
  \A j, k \in Jobs : Running(j) /\ held[j] /\ Running(k) /\ held[k] => j = k
=============================================================================
