------------------------ MODULE PermissionWait_proofs ------------------------
(***************************************************************************)
(* The safety of approve-and-resume for any number of requests and faults  *)
(* and any times that respect Deadline < PollTimeout, HookTimeout.         *)
(***************************************************************************)
EXTENDS PermissionWait, TLAPS

\* A handler that is still at work, and so keeps time from passing its deadline.
AtWork(r) == pc[r] \notin {"idle", "done"}

OnTime ==
  \A r \in Requests :
    /\ startedAt[r] <= clock
    /\ AtWork(r) => clock <= startedAt[r] + Deadline

\* A hook blocks on a handler, and until it is answered the handler is at work.
Served ==
  \A r \in Requests :
    /\ pc[r] = "idle" <=> hook[r] = "none"
    /\ hook[r] = "blocked" /\ r \notin cut => AtWork(r)

\* One row at most, and none before the attention is resolved.
RowPerResolve ==
  \A r \in Requests :
    rows[r] = <<>> \/ (r \in resolved /\ \E b \in Behaviors : rows[r] = <<b>>)

ToldIsOnRecord ==
  \A r \in Requests : told[r] \in Behaviors => rows[r] = <<told[r]>>

\* The request is closed before the hook is answered.
ClosedFirst ==
  \A r \in Requests \ orphaned :
    hook[r] \notin {"none", "blocked"} \/ pc[r] \in {"deny", "done"} => r \in resolved

\* NoLostWakeup from the moment that the first look-up found nothing.
Wakes ==
  /\ ~missed => listening
  /\ \A r \in Requests :
       pc[r] \in {"empty", "await"} /\ rows[r] # <<>> /\ ~missed => notify \/ woken[r]

WaitInv ==
  /\ TypeOK /\ OnTime /\ Served /\ RowPerResolve /\ AllowIsOnRecord
  /\ ToldIsOnRecord /\ ClosedFirst /\ Wakes

-----------------------------------------------------------------------------

\* The three parts of TypeOK: the database, the clock, and the rest.
DbTyped == resolved \subseteq Requests /\ rows \in [Requests -> Seq(Behaviors)]

ClockTyped ==
  /\ clock \in Nat
  /\ startedAt \in [Requests -> Nat]
  /\ wakeAt \in [Requests -> Nat]
  /\ \A r \in Requests : wakeAt[r] <= startedAt[r] + Deadline

StatusTyped ==
  /\ listening \in BOOLEAN /\ notify \in BOOLEAN /\ missed \in BOOLEAN
  /\ pc \in [Requests -> {"idle", "loop", "query", "empty", "await", "after",
                          "cleanup", "deny", "done"}]
  /\ woken \in [Requests -> BOOLEAN]
  /\ aborted \in [Requests -> BOOLEAN]
  /\ hook \in [Requests -> {"none", "blocked", "allow", "deny", "timeout"}]
  /\ snapshot \subseteq Requests
  /\ told \in [Requests -> Behaviors \cup {"nothing"}]
  /\ orphaned \subseteq Requests /\ cut \subseteq Requests
  /\ faults \in Nat

LEMMA TypeParts == TypeOK <=> DbTyped /\ ClockTyped /\ StatusTyped
  BY DEF TypeOK, DbTyped, ClockTyped, StatusTyped

LEMMA TypeInit == Init => TypeOK
<1> SUFFICES ASSUME Init PROVE TypeOK
  OBVIOUS
<1>1. DbTyped
  BY DEF Init, DbTyped
<1>2. ClockTyped
  BY DeadlineAssumption DEF Init, ClockTyped
<1>3. StatusTyped
  BY DEF Init, StatusTyped
<1> QED
  BY <1>1, <1>2, <1>3, TypeParts

\* Only the two callers of resolveAttention write to the database.
LEMMA OtherSteps ==
  ASSUME [Next]_vars
  PROVE  \/ UNCHANGED dbVars
         \/ \E r \in Requests, b \in Behaviors : Decide(r, b)
         \/ \E r \in Requests : Cleanup(r)
<1> USE DEF dbVars
<1>1. ASSUME NEW r \in Requests, Ask(r) \/ Loop(r) \/ Query(r) \/ NoVerdict(r)
             \/ WaitEnds(r) \/ After(r) \/ DeadlineDeny(r)
      PROVE UNCHANGED dbVars
  BY <1>1 DEF Ask, HookAsks, Loop, Parks, Query, NoVerdict, WaitEnds, After, LookUp, DeadlineDeny
<1>2. ASSUME NEW r \in Requests, CleanupFails(r) \/ Disconnects(r) \/ GoesSilent(r)
             \/ PollTimesOut(r) \/ HookTimesOut(r)
      PROVE UNCHANGED dbVars
  BY <1>2 DEF CleanupFails, Disconnects, GoesSilent, PollTimesOut, HookTimesOut
<1>5. ASSUME NEW r \in Requests, AskFails(r) \/ LookUpFails(r) PROVE UNCHANGED dbVars
  BY <1>5 DEF AskFails, LookUpFails
<1>3. ASSUME StartTurn \/ NotifyArrives \/ ListenerDrops \/ ListenerReconnects
             \/ Crash \/ Tick
      PROVE UNCHANGED dbVars
  BY <1>3 DEF StartTurn, NotifyArrives, ListenerDrops, ListenerReconnects, Crash, Tick
<1>4. ASSUME UNCHANGED vars PROVE UNCHANGED dbVars
  BY <1>4 DEF vars
<1> QED
  BY <1>1, <1>2, <1>3, <1>4, <1>5 DEF Next, Handler

\* What they do to it: the first resolve of a request appends its row.
LEMMA DbEffect ==
  ASSUME [Next]_vars
  PROVE  \/ UNCHANGED dbVars
         \/ \E r \in Requests \ resolved, b \in Behaviors :
              /\ resolved' = resolved \cup {r}
              /\ rows' = [rows EXCEPT ![r] = Append(@, b)]
              /\ notify' = listening
              /\ Decide(r, b) \/ Cleanup(r)
<1>1. ASSUME NEW r \in Requests, NEW b \in Behaviors, ResolveAttention(r, b),
             Decide(r, b) \/ Cleanup(r)
      PROVE  \/ UNCHANGED dbVars
             \/ /\ r \notin resolved
                /\ resolved' = resolved \cup {r}
                /\ rows' = [rows EXCEPT ![r] = Append(@, b)]
                /\ notify' = listening
  BY <1>1 DEF ResolveAttention, dbVars
<1>2. ASSUME NEW r \in Requests, Cleanup(r)
      PROVE  "deny" \in Behaviors /\ ResolveAttention(r, "deny")
  BY <1>2 DEF Cleanup, Behaviors
<1>3. ASSUME NEW r \in Requests, NEW b \in Behaviors, Decide(r, b)
      PROVE  ResolveAttention(r, b)
  BY <1>3 DEF Decide
<1> QED
  BY <1>1, <1>2, <1>3, OtherSteps

LEMMA DbStep == ASSUME DbTyped, [Next]_vars PROVE DbTyped'
<1>1. CASE UNCHANGED dbVars
  BY <1>1 DEF DbTyped, dbVars
<1>2. ASSUME NEW r \in Requests, NEW b \in Behaviors,
             resolved' = resolved \cup {r}, rows' = [rows EXCEPT ![r] = Append(@, b)]
      PROVE  DbTyped'
  <2>1. rows[r] \in Seq(Behaviors)
    BY DEF DbTyped
  <2>2. Append(rows[r], b) \in Seq(Behaviors)
    BY <2>1
  <2>3. rows' = [rows EXCEPT ![r] = Append(rows[r], b)]
    BY <1>2
  <2> HIDE DEF Behaviors
  <2>4. rows' \in [Requests -> Seq(Behaviors)]
    BY <2>2, <2>3, Zenon DEF DbTyped
  <2> QED
    BY <1>2, <2>4 DEF DbTyped
<1> QED
  BY <1>1, <1>2, DbEffect

\* startedAt is set from the clock, and wakeAt by what is left of the deadline.
LEMMA ClockStep ==
  ASSUME ClockTyped, StatusTyped, OnTime, Served, [Next]_vars
  PROVE  ClockTyped'
<1> USE DeadlineAssumption DEF ClockTyped
<1>1. ASSUME NEW r \in Requests, Ask(r) PROVE ClockTyped'
  BY <1>1 DEF Ask, HookAsks, OnTime
<1>2. ASSUME NEW r \in Requests, Loop(r) PROVE ClockTyped'
  <2>1. CASE wakeAt' = [wakeAt EXCEPT ![r] = clock + Remaining(r)] /\ Remaining(r) # 0
    <3>1. clock + Remaining(r) = startedAt[r] + Deadline
      BY <2>1 DEF Remaining
    <3>2. UNCHANGED <<clock, startedAt>>
      BY <1>2 DEF Loop, Parks
    <3> QED
      BY <2>1, <3>1, <3>2
  <2>2. CASE wakeAt' = wakeAt
    BY <1>2, <2>2 DEF Loop, Parks
  <2> QED
    BY <1>2, <2>1, <2>2 DEF Loop, Parks
<1>3. ASSUME NEW r \in Requests, Query(r) \/ After(r) \/ WaitEnds(r) PROVE ClockTyped'
  <2>1. wakeAt' = wakeAt \/ wakeAt' = [wakeAt EXCEPT ![r] = 0]
    BY <1>3 DEF Query, After, LookUp, WaitEnds, Unparks
  <2>2. UNCHANGED <<clock, startedAt>>
    BY <1>3 DEF Query, After, LookUp, WaitEnds
  <2> QED
    BY <2>1, <2>2
<1>4. ASSUME NEW r \in Requests, NoVerdict(r) \/ Cleanup(r) \/ DeadlineDeny(r)
             \/ CleanupFails(r) \/ Disconnects(r) \/ GoesSilent(r)
             \/ PollTimesOut(r) \/ HookTimesOut(r)
      PROVE ClockTyped'
  BY <1>4 DEF NoVerdict, Cleanup, DeadlineDeny, CleanupFails, Disconnects, GoesSilent,
     PollTimesOut, HookTimesOut, handlerVars
<1>9. ASSUME NEW r \in Requests, AskFails(r) \/ LookUpFails(r) PROVE ClockTyped'
  <2>1. wakeAt' = wakeAt \/ wakeAt' = [wakeAt EXCEPT ![r] = 0]
    BY <1>9 DEF AskFails, LookUpFails, Unparks
  <2>2. UNCHANGED <<clock, startedAt>>
    BY <1>9 DEF AskFails, LookUpFails
  <2> QED
    BY <2>1, <2>2
<1>5. ASSUME NEW r \in Requests, NEW b \in Behaviors, Decide(r, b) PROVE ClockTyped'
  BY <1>5 DEF Decide, handlerVars
<1>6. ASSUME StartTurn \/ NotifyArrives \/ ListenerDrops \/ ListenerReconnects \/ Crash
      PROVE ClockTyped'
  BY <1>6 DEF StartTurn, NotifyArrives, ListenerDrops, ListenerReconnects, Crash,
     handlerVars
<1>7. CASE Tick
  BY <1>7 DEF Tick, handlerVars
<1>8. CASE UNCHANGED vars
  BY <1>8 DEF vars, handlerVars
<1> QED
  BY <1>1, <1>2, <1>3, <1>4, <1>5, <1>6, <1>7, <1>8, <1>9 DEF Next, Handler

LEMMA StatusStep == ASSUME StatusTyped, DbTyped, [Next]_vars PROVE StatusTyped'
<1>0. Fault => faults' \in Nat
  BY DEF Fault, StatusTyped
<1> USE DEF StatusTyped, dbVars, notifyVars, handlerVars, userVars, faultVars
<1>1. ASSUME NEW r \in Requests, Ask(r) PROVE StatusTyped'
  BY <1>1 DEF Ask, HookAsks
<1>2. ASSUME NEW r \in Requests, Loop(r) PROVE StatusTyped'
  BY <1>2 DEF Loop, Parks
<1>3. ASSUME NEW r \in Requests, Query(r) \/ After(r) PROVE StatusTyped'
  <2>1. FindVerdict(r) \in {"none", "allow", "deny"}
    BY DEF FindVerdict
  <2>2. hook' \in [Requests -> {"none", "blocked", "allow", "deny", "timeout"}]
    BY <1>3, <2>1 DEF Query, After, LookUp, Answer, DecisionFromVerdict
  <2>3. pc' \in [Requests -> {"idle", "loop", "query", "empty", "await", "after",
                              "cleanup", "deny", "done"}]
    BY <1>3 DEF Query, After, LookUp
  <2>4. woken' \in [Requests -> BOOLEAN]
    BY <1>3 DEF Query, After, LookUp, Unparks
  <2> QED
    BY <1>3, <2>2, <2>3, <2>4 DEF Query, After, LookUp
<1>4. ASSUME NEW r \in Requests, WaitEnds(r) \/ NoVerdict(r) PROVE StatusTyped'
  BY <1>4 DEF WaitEnds, Unparks, NoVerdict
<1>5. ASSUME NEW r \in Requests, CleanupFails(r) PROVE StatusTyped'
  BY <1>0, <1>5 DEF CleanupFails
<1>6. ASSUME NEW r \in Requests, DeadlineDeny(r) PROVE StatusTyped'
  BY <1>6 DEF DeadlineDeny, Answer, DecisionFromVerdict
<1>7. ASSUME NEW r \in Requests, Cleanup(r) PROVE StatusTyped'
  BY <1>7 DEF Cleanup, ResolveAttention
<1>8. ASSUME NEW r \in Requests, PollTimesOut(r) \/ HookTimesOut(r) PROVE StatusTyped'
  BY <1>8 DEF PollTimesOut, HookTimesOut
<1>9. ASSUME NEW r \in Requests, Disconnects(r) \/ GoesSilent(r) PROVE StatusTyped'
  <2>1. faults' \in Nat
    BY <1>0, <1>9 DEF Disconnects, GoesSilent
  <2>2. /\ aborted' \in [Requests -> BOOLEAN]
        /\ orphaned' \subseteq Requests /\ cut' \subseteq Requests
    BY <1>9 DEF Disconnects, GoesSilent
  <2>3. hook' \in [Requests -> {"none", "blocked", "allow", "deny", "timeout"}]
    BY <1>9 DEF Disconnects, GoesSilent
  <2> QED
    BY <1>9, <2>1, <2>2, <2>3 DEF Disconnects, GoesSilent
<1>10. ASSUME NEW r \in Requests, NEW b \in Behaviors, Decide(r, b)
       PROVE StatusTyped'
  BY <1>10 DEF Decide, ResolveAttention
<1>11. CASE StartTurn \/ Tick
  BY <1>11 DEF StartTurn, Pending, Tick
<1>12. CASE NotifyArrives
  <2>1. woken' \in [Requests -> BOOLEAN]
    BY <1>12, Zenon DEF NotifyArrives
  <2> QED
    BY <1>12, <2>1 DEF NotifyArrives
<1>13. CASE ListenerDrops \/ ListenerReconnects
  <2>1. faults' \in Nat
    BY <1>0, <1>13 DEF ListenerDrops, ListenerReconnects
  <2> QED
    BY <1>13, <2>1 DEF ListenerDrops, ListenerReconnects
<1>14. CASE Crash
  <2>1. faults' \in Nat
    BY <1>0, <1>14 DEF Crash
  <2>2. pc' \in [Requests -> {"idle", "loop", "query", "empty", "await", "after",
                              "cleanup", "deny", "done"}]
    BY <1>14, Zenon DEF Crash
  <2>3. hook' \in [Requests -> {"none", "blocked", "allow", "deny", "timeout"}]
    BY <1>14 DEF Crash
  <2>4. orphaned' \subseteq Requests
    BY <1>14 DEF Crash
  <2> QED
    BY <1>14, <2>1, <2>2, <2>3, <2>4 DEF Crash
<1>16. ASSUME NEW r \in Requests, AskFails(r) \/ LookUpFails(r) PROVE StatusTyped'
  <2>1. faults' \in Nat /\ orphaned' \subseteq Requests
    BY <1>0, <1>16 DEF AskFails, LookUpFails
  <2>2. hook' \in [Requests -> {"none", "blocked", "allow", "deny", "timeout"}]
    BY <1>16 DEF AskFails, LookUpFails, Answer, DecisionFromVerdict
  <2>3. pc' \in [Requests -> {"idle", "loop", "query", "empty", "await", "after",
                              "cleanup", "deny", "done"}]
    BY <1>16 DEF AskFails, LookUpFails
  <2>4. woken' \in [Requests -> BOOLEAN]
    BY <1>16 DEF AskFails, LookUpFails, Unparks
  <2> QED
    BY <1>16, <2>1, <2>2, <2>3, <2>4 DEF AskFails, LookUpFails
<1>15. CASE UNCHANGED vars
  BY <1>15 DEF vars
<1> QED
  BY <1>1, <1>2, <1>3, <1>4, <1>5, <1>6, <1>7, <1>8, <1>9, <1>10, <1>11, <1>12, <1>13,
     <1>14, <1>15, <1>16 DEF Next, Handler

-----------------------------------------------------------------------------

LEMMA TypesKept ==
  ASSUME TypeOK, OnTime, Served, [Next]_vars PROVE TypeOK'
<1>1. DbTyped /\ ClockTyped /\ StatusTyped
  BY TypeParts
<1>2. DbTyped'
  BY <1>1, DbStep
<1>3. ClockTyped'
  BY <1>1, ClockStep
<1>4. StatusTyped'
  BY <1>1, StatusStep
<1> QED
  BY <1>2, <1>3, <1>4 DEF TypeOK, DbTyped, ClockTyped, StatusTyped

\* Time waits for the handlers: a tick finds each of them parked, and nobody is
\* parked beyond the deadline.
LEMMA OnTimeKept ==
  ASSUME TypeOK, OnTime, Served, [Next]_vars PROVE OnTime'
<1>0. ClockTyped /\ StatusTyped
  BY TypeParts
<1> USE DeadlineAssumption DEF OnTime, AtWork
<1>1. ASSUME NEW r \in Requests, Ask(r) PROVE OnTime'
  BY <1>0, <1>1 DEF Ask, HookAsks, ClockTyped, StatusTyped
<1>2. CASE Tick
  <2> SUFFICES ASSUME NEW r \in Requests
               PROVE  startedAt'[r] <= clock' /\ (AtWork(r)' => clock' <= startedAt'[r] + Deadline)
    OBVIOUS
  <2>1. clock' = clock + 1 /\ startedAt' = startedAt /\ pc' = pc /\ Idle(r)
    BY <1>2 DEF Tick, handlerVars
  <2>2. startedAt[r] \in Nat /\ wakeAt[r] \in Nat /\ clock \in Nat
        /\ wakeAt[r] <= startedAt[r] + Deadline
    BY <1>0 DEF ClockTyped
  <2>3. AtWork(r) => clock < wakeAt[r]
    BY <2>1 DEF Idle
  <2> QED
    BY <2>1, <2>2, <2>3
<1>3. ASSUME UNCHANGED <<clock, startedAt>>,
             \A r \in Requests : AtWork(r)' => AtWork(r)
      PROVE  OnTime'
  BY <1>3
<1>4. ASSUME NEW r \in Requests, Handler(r) \/ CleanupFails(r) PROVE OnTime'
  <2>1. UNCHANGED <<clock, startedAt>>
    BY <1>4 DEF Handler, Loop, Parks, Query, NoVerdict, WaitEnds, After, LookUp, Cleanup,
       DeadlineDeny, CleanupFails, handlerVars
  <2>2. AtWork(r) /\ \A q \in Requests \ {r} : pc'[q] = pc[q]
    BY <1>0, <1>4 DEF Handler, Loop, Parks, Query, NoVerdict, WaitEnds, After, LookUp, Cleanup,
       DeadlineDeny, CleanupFails, StatusTyped
  <2> QED
    BY <1>3, <2>1, <2>2
<1>9. ASSUME NEW r \in Requests, AskFails(r) \/ LookUpFails(r) PROVE OnTime'
  <2>1. UNCHANGED <<clock, startedAt>>
    BY <1>9 DEF AskFails, LookUpFails
  <2>2. ~AtWork(r)' /\ \A q \in Requests \ {r} : pc'[q] = pc[q]
    BY <1>0, <1>9 DEF AskFails, LookUpFails, StatusTyped
  <2> QED
    BY <1>3, <2>1, <2>2
<1>5. ASSUME NEW r \in Requests, Disconnects(r) \/ GoesSilent(r) \/ PollTimesOut(r)
             \/ HookTimesOut(r) \/ \E b \in Behaviors : Decide(r, b)
      PROVE OnTime'
  BY <1>3, <1>5 DEF Disconnects, GoesSilent, PollTimesOut, HookTimesOut, Decide, handlerVars
<1>6. ASSUME StartTurn \/ NotifyArrives \/ ListenerDrops \/ ListenerReconnects
      PROVE OnTime'
  BY <1>3, <1>6 DEF StartTurn, NotifyArrives, ListenerDrops, ListenerReconnects, handlerVars
<1>7. CASE Crash
  <2>1. \A r \in Requests : ~AtWork(r)'
    BY <1>7 DEF Crash
  <2> QED
    BY <1>3, <1>7, <2>1 DEF Crash
<1>8. CASE UNCHANGED vars
  BY <1>8 DEF vars, handlerVars
<1> QED
  BY <1>1, <1>2, <1>4, <1>5, <1>6, <1>7, <1>8, <1>9 DEF Next

\* A hook that waits on a working connection has its handler at work: whoever
\* ends a handler answers the hook in the same step.
LEMMA ServedKept ==
  ASSUME TypeOK, Served, [Next]_vars PROVE Served'
<1>0. StatusTyped
  BY TypeParts
<1> USE DEF Served, AtWork
<1>1. ASSUME NEW r \in Requests, Ask(r) PROVE Served'
  BY <1>0, <1>1 DEF Ask, HookAsks, StatusTyped, faultVars
<1>2. ASSUME NEW r \in Requests, Loop(r) \/ NoVerdict(r) \/ WaitEnds(r)
             \/ Cleanup(r) \/ CleanupFails(r)
      PROVE Served'
  <2>1. UNCHANGED <<hook, cut>>
    BY <1>2 DEF Loop, Parks, NoVerdict, WaitEnds, Cleanup, CleanupFails, faultVars
  <2>2. AtWork(r) /\ AtWork(r)' /\ \A q \in Requests \ {r} : pc'[q] = pc[q]
    BY <1>0, <1>2 DEF Loop, Parks, NoVerdict, WaitEnds, Cleanup, CleanupFails, StatusTyped
  <2> QED
    BY <2>1, <2>2
<1>3. ASSUME NEW r \in Requests, Query(r) \/ After(r) \/ DeadlineDeny(r) PROVE Served'
  <2>1. cut' = cut /\ AtWork(r) /\ \A q \in Requests \ {r} : pc'[q] = pc[q] /\ hook'[q] = hook[q]
    BY <1>0, <1>3 DEF Query, After, LookUp, DeadlineDeny, Answer, DecisionFromVerdict, StatusTyped, faultVars
  <2>2. pc'[r] # "idle" /\ (pc'[r] = "done" => \E b \in Behaviors : Answer(r, b))
    BY <1>0, <1>3 DEF Query, After, LookUp, DeadlineDeny, FindVerdict, Behaviors, StatusTyped
  <2>3. pc'[r] # "done" => hook' = hook
    BY <1>0, <1>3 DEF Query, After, LookUp, DeadlineDeny, StatusTyped
  <2>4. \A b \in Behaviors : Answer(r, b) =>
          hook'[r] # "none" /\ (hook'[r] = "blocked" => r \in cut)
    BY <1>0, <2>1 DEF Answer, DecisionFromVerdict, Reachable, Behaviors, StatusTyped
  <2> QED
    BY <2>1, <2>2, <2>3, <2>4
<1>10. ASSUME NEW r \in Requests, AskFails(r) PROVE Served'
  BY <1>0, <1>10 DEF AskFails, StatusTyped
<1>11. ASSUME NEW r \in Requests, LookUpFails(r) PROVE Served'
  <2>1. /\ cut' = cut /\ AtWork(r) /\ pc'[r] = "done" /\ Answer(r, "deny")
        /\ \A q \in Requests \ {r} : pc'[q] = pc[q] /\ hook'[q] = hook[q]
    BY <1>0, <1>11 DEF LookUpFails, Answer, StatusTyped
  <2>2. hook'[r] # "none" /\ (hook'[r] = "blocked" => r \in cut)
    BY <1>0, <2>1 DEF Answer, DecisionFromVerdict, Reachable, StatusTyped
  <2> QED
    BY <2>1, <2>2
<1>4. ASSUME NEW r \in Requests, Disconnects(r) \/ PollTimesOut(r) \/ HookTimesOut(r)
      PROVE Served'
  <2>1. UNCHANGED <<pc, cut>>
    BY <1>4 DEF Disconnects, PollTimesOut, HookTimesOut, handlerVars, faultVars
  <2>2. hook[r] = "blocked" /\ hook'[r] \notin {"none", "blocked"}
        /\ \A q \in Requests \ {r} : hook'[q] = hook[q]
    BY <1>0, <1>4 DEF Disconnects, Reachable, PollTimesOut, HookTimesOut, Overdue, StatusTyped
  <2> QED
    BY <2>1, <2>2
<1>5. ASSUME NEW r \in Requests, GoesSilent(r) PROVE Served'
  BY <1>5 DEF GoesSilent, handlerVars
<1>6. ASSUME NEW r \in Requests, NEW b \in Behaviors, Decide(r, b) PROVE Served'
  BY <1>6 DEF Decide, handlerVars, faultVars
<1>7. ASSUME StartTurn \/ NotifyArrives \/ ListenerDrops \/ ListenerReconnects \/ Tick
      PROVE Served'
  BY <1>7 DEF StartTurn, NotifyArrives, ListenerDrops, ListenerReconnects, Tick,
     handlerVars, faultVars
<1>8. CASE Crash
  BY <1>0, <1>8 DEF Crash, Reachable, StatusTyped
<1>9. CASE UNCHANGED vars
  BY <1>9 DEF vars, handlerVars, faultVars
<1> QED
  BY <1>1, <1>2, <1>3, <1>4, <1>5, <1>6, <1>7, <1>8, <1>9, <1>10, <1>11 DEF Next, Handler

\* The timers of the hook find a request that was not cut already answered.
LEMMA TimersLate ==
  ASSUME TypeOK, OnTime, NEW r \in Requests, PollTimesOut(r) \/ HookTimesOut(r)
  PROVE  ~AtWork(r) /\ hook[r] = "blocked"
<1>1. hook[r] = "blocked" /\ (clock >= startedAt[r] + PollTimeout \/ clock >= startedAt[r] + HookTimeout)
  BY DEF PollTimesOut, HookTimesOut, Overdue
<1>2. clock \in Nat /\ startedAt[r] \in Nat
  BY DEF TypeOK
<1> QED
  BY <1>1, <1>2, DeadlineAssumption DEF OnTime

-----------------------------------------------------------------------------
(* The verdict.                                                            *)

Verdicts == RowPerResolve /\ AllowIsOnRecord /\ ToldIsOnRecord

\* Only a row that reads "allow" makes an answer an allow.
LEMMA HookEffect ==
  ASSUME TypeOK, [Next]_vars, NEW q \in Requests, hook'[q] = "allow", hook[q] # "allow"
  PROVE  FindVerdict(q) = "allow" /\ UNCHANGED dbVars
<1>0. StatusTyped
  BY TypeParts
<1>1. ASSUME NEW r \in Requests, Query(r) \/ After(r)
      PROVE  FindVerdict(q) = "allow" /\ UNCHANGED dbVars
  BY <1>0, <1>1 DEF Query, After, LookUp, Answer, DecisionFromVerdict, StatusTyped
<1>2. ASSUME NEW r \in Requests, Ask(r) \/ DeadlineDeny(r) \/ Disconnects(r)
             \/ PollTimesOut(r) \/ HookTimesOut(r) \/ AskFails(r) \/ LookUpFails(r)
      PROVE  FALSE
  BY <1>0, <1>2 DEF Ask, HookAsks, DeadlineDeny, Answer, DecisionFromVerdict, Disconnects, PollTimesOut, HookTimesOut,
     AskFails, LookUpFails,
     StatusTyped
<1>3. ASSUME NEW r \in Requests, Loop(r) \/ NoVerdict(r) \/ WaitEnds(r) \/ Cleanup(r)
             \/ CleanupFails(r) \/ GoesSilent(r) \/ \E b \in Behaviors : Decide(r, b)
      PROVE  FALSE
  BY <1>3 DEF Loop, Parks, NoVerdict, WaitEnds, Cleanup, CleanupFails, GoesSilent, Decide
<1>4. CASE StartTurn \/ NotifyArrives \/ ListenerDrops \/ ListenerReconnects \/ Tick
  BY <1>4 DEF StartTurn, NotifyArrives, ListenerDrops, ListenerReconnects, Tick
<1>5. CASE Crash
  BY <1>0, <1>5 DEF Crash, StatusTyped
<1>6. CASE UNCHANGED vars
  BY <1>6 DEF vars
<1> QED
  BY <1>1, <1>2, <1>3, <1>4, <1>5, <1>6 DEF Next, Handler

\* A turn claims what it wrote; nothing else touches the claim.
LEMMA ToldEffect ==
  ASSUME TypeOK, [Next]_vars, NEW q \in Requests, told'[q] # told[q]
  PROVE  q \notin resolved /\ rows' = [rows EXCEPT ![q] = Append(@, told'[q])]
<1>0. StatusTyped
  BY TypeParts
<1>1. ASSUME NEW r \in Requests, NEW b \in Behaviors, Decide(r, b)
      PROVE  q \notin resolved /\ rows' = [rows EXCEPT ![q] = Append(@, told'[q])]
  <2>1. r \notin resolved /\ r = q /\ told'[q] = b
    BY <1>0, <1>1 DEF Decide, StatusTyped
  <2>2. ResolveAttention(r, b)
    BY <1>1 DEF Decide
  <2> QED
    BY <2>1, <2>2 DEF ResolveAttention
<1>2. ASSUME NEW r \in Requests, Ask(r) \/ Loop(r) \/ Query(r) \/ NoVerdict(r)
             \/ WaitEnds(r) \/ After(r) \/ Cleanup(r) \/ DeadlineDeny(r)
      PROVE  FALSE
  BY <1>2 DEF Ask, HookAsks, Loop, Parks, Query, NoVerdict, WaitEnds, After, LookUp, Cleanup,
     DeadlineDeny, userVars
<1>3. ASSUME NEW r \in Requests, CleanupFails(r) \/ Disconnects(r) \/ GoesSilent(r)
             \/ PollTimesOut(r) \/ HookTimesOut(r) \/ AskFails(r) \/ LookUpFails(r)
      PROVE  FALSE
  BY <1>3 DEF AskFails, LookUpFails, CleanupFails, Disconnects, GoesSilent, PollTimesOut, HookTimesOut, userVars
<1>4. CASE StartTurn \/ NotifyArrives \/ ListenerDrops \/ ListenerReconnects \/ Crash \/ Tick
  BY <1>4 DEF StartTurn, NotifyArrives, ListenerDrops, ListenerReconnects, Crash, Tick,
     userVars
<1>5. CASE UNCHANGED vars
  BY <1>5 DEF vars, userVars
<1> QED
  BY <1>1, <1>2, <1>3, <1>4, <1>5 DEF Next, Handler

\* The first resolve appends to an empty sequence.
LEMMA FirstRow ==
  ASSUME TypeOK, RowPerResolve, NEW r \in Requests \ resolved, NEW b \in Behaviors,
         rows' = [rows EXCEPT ![r] = Append(@, b)]
  PROVE  rows[r] = <<>> /\ rows' = [rows EXCEPT ![r] = <<b>>]
<1>1. rows[r] = <<>>
  BY DEF RowPerResolve
<1>2. Append(rows[r], b) = <<b>>
  BY <1>1
<1> QED
  BY <1>1, <1>2

LEMMA VerdictsKept ==
  ASSUME TypeOK, Verdicts, [Next]_vars PROVE Verdicts'
<1> USE DEF Verdicts
<1>0. DbTyped /\ StatusTyped
  BY TypeParts
<1>1. CASE UNCHANGED dbVars
  <2>1. RowPerResolve'
    BY <1>1 DEF RowPerResolve, dbVars
  <2>2. ASSUME NEW q \in Requests, hook'[q] = "allow" PROVE rows'[q] = <<"allow">>
    <3>1. CASE hook[q] = "allow"
      BY <1>1, <3>1 DEF AllowIsOnRecord, dbVars
    <3>2. CASE hook[q] # "allow"
      <4>1. FindVerdict(q) = "allow"
        BY <2>2, <3>2, HookEffect
      <4>2. rows[q] # <<>> /\ rows[q][1] = "allow"
        BY <4>1 DEF FindVerdict
      <4>3. PICK b \in Behaviors : rows[q] = <<b>>
        BY <4>2 DEF RowPerResolve
      <4> QED
        BY <1>1, <4>2, <4>3 DEF dbVars
    <3> QED
      BY <3>1, <3>2
  <2>4. ASSUME NEW q \in Requests, told'[q] \in Behaviors PROVE rows'[q] = <<told'[q]>>
    <3>1. CASE told'[q] = told[q]
      BY <1>1, <2>4, <3>1 DEF ToldIsOnRecord, dbVars
    <3>2. CASE told'[q] # told[q]
      <4>1. q \notin resolved /\ rows' = [rows EXCEPT ![q] = Append(@, told'[q])]
        BY <3>2, ToldEffect
      <4>2. rows' = [rows EXCEPT ![q] = <<told'[q]>>]
        BY <2>4, <4>1, FirstRow
      <4> QED
        BY <1>0, <4>2 DEF DbTyped
    <3> QED
      BY <3>1, <3>2
  <2> QED
    BY <2>1, <2>2, <2>4 DEF AllowIsOnRecord, ToldIsOnRecord
<1>2. ASSUME NEW r \in Requests \ resolved, NEW b \in Behaviors,
             resolved' = resolved \cup {r},
             rows' = [rows EXCEPT ![r] = Append(@, b)],
             ~UNCHANGED dbVars
      PROVE Verdicts'
  <2>1. rows[r] = <<>> /\ rows' = [rows EXCEPT ![r] = <<b>>]
    BY <1>2, FirstRow
  <2>2. rows'[r] = <<b>> /\ \A q \in Requests \ {r} : rows'[q] = rows[q]
    BY <1>0, <2>1 DEF DbTyped
  <2>3. RowPerResolve'
    BY <1>2, <2>2 DEF RowPerResolve
  <2>4. AllowIsOnRecord'
    <3> SUFFICES ASSUME NEW q \in Requests, hook'[q] = "allow" PROVE rows'[q] = <<"allow">>
      BY DEF AllowIsOnRecord
    <3>1. hook[q] = "allow"
      BY <1>2, HookEffect
    <3>2. rows[q] = <<"allow">>
      BY <3>1 DEF AllowIsOnRecord
    <3>3. q # r
      BY <2>1, <3>2
    <3> QED
      BY <2>2, <3>2, <3>3
  <2>5. ToldIsOnRecord'
    <3> SUFFICES ASSUME NEW q \in Requests, told'[q] \in Behaviors
                 PROVE  rows'[q] = <<told'[q]>>
      BY DEF ToldIsOnRecord
    <3>1. CASE told'[q] = told[q]
      <4>1. rows[q] = <<told[q]>>
        BY <3>1 DEF ToldIsOnRecord
      <4>2. q # r
        BY <2>1, <4>1
      <4> QED
        BY <2>2, <3>1, <4>1, <4>2
    <3>2. CASE told'[q] # told[q]
      <4>1. q \notin resolved /\ rows' = [rows EXCEPT ![q] = Append(@, told'[q])]
        BY <3>2, ToldEffect
      <4>2. rows' = [rows EXCEPT ![q] = <<told'[q]>>]
        BY <4>1, FirstRow
      <4> QED
        BY <1>0, <4>2 DEF DbTyped
    <3> QED
      BY <3>1, <3>2
  <2> QED
    BY <2>3, <2>4, <2>5
<1> QED
  BY <1>1, <1>2, DbEffect

-----------------------------------------------------------------------------
(* Closing before answering.                                               *)

LEMMA ClosedFirstKept ==
  ASSUME TypeOK, OnTime, Served, RowPerResolve, ClosedFirst, [Next]_vars
  PROVE  ClosedFirst'
<1>0. StatusTyped /\ resolved \subseteq resolved'
  BY TypeParts, DbEffect DEF dbVars
<1> USE DEF ClosedFirst
<1>1. ASSUME UNCHANGED <<hook, pc>>, orphaned \subseteq orphaned' PROVE ClosedFirst'
  BY <1>0, <1>1
<1>2. ASSUME NEW r \in Requests, UNCHANGED orphaned,
             r \in resolved' \/ r \in orphaned
               \/ (hook'[r] \in {"none", "blocked"} /\ pc'[r] \notin {"deny", "done"}),
             \A q \in Requests \ {r} : pc'[q] = pc[q] /\ hook'[q] = hook[q]
      PROVE ClosedFirst'
  BY <1>0, <1>2
<1>3. ASSUME NEW r \in Requests, Ask(r) PROVE ClosedFirst'
  BY <1>0, <1>3 DEF Ask, HookAsks, StatusTyped, faultVars
<1>4. ASSUME NEW r \in Requests, Loop(r) \/ NoVerdict(r) \/ WaitEnds(r) PROVE ClosedFirst'
  BY <1>0, <1>4 DEF Loop, Parks, NoVerdict, WaitEnds, StatusTyped, faultVars
<1>5. ASSUME NEW r \in Requests, Query(r) \/ After(r) PROVE ClosedFirst'
  <2>1. orphaned' = orphaned
        /\ \A q \in Requests \ {r} : pc'[q] = pc[q] /\ hook'[q] = hook[q]
    BY <1>0, <1>5 DEF Query, After, LookUp, Answer, DecisionFromVerdict, StatusTyped, faultVars
  <2>2. CASE FindVerdict(r) = "none"
    <3>1. hook' = hook /\ pc'[r] \notin {"deny", "done"}
      BY <1>0, <1>5, <2>2 DEF Query, After, LookUp, StatusTyped
    <3> QED
      BY <1>0, <1>2, <2>1, <3>1
  <2>3. CASE FindVerdict(r) # "none"
    <3>1. r \in resolved
      BY <2>3 DEF FindVerdict, RowPerResolve
    <3> QED
      BY <1>0, <1>2, <2>1, <3>1
  <2> QED
    BY <2>2, <2>3
<1>6. ASSUME NEW r \in Requests, Cleanup(r) PROVE ClosedFirst'
  <2>1. r \in resolved'
    BY <1>6 DEF Cleanup, ResolveAttention
  <2> QED
    BY <1>0, <1>2, <1>6, <2>1 DEF Cleanup, StatusTyped, faultVars
<1>7. ASSUME NEW r \in Requests, DeadlineDeny(r) PROVE ClosedFirst'
  <2>1. r \in resolved \/ r \in orphaned
    BY <1>7 DEF DeadlineDeny
  <2> QED
    BY <1>0, <1>2, <1>7, <2>1 DEF DeadlineDeny, Answer, DecisionFromVerdict, StatusTyped, faultVars
<1>8. ASSUME NEW r \in Requests, CleanupFails(r) \/ Disconnects(r) PROVE ClosedFirst'
  <2>1. orphaned' = orphaned \cup {r}
    BY <1>8 DEF CleanupFails, Disconnects
  <2>2. \A q \in Requests \ {r} : pc'[q] = pc[q] /\ hook'[q] = hook[q]
    BY <1>0, <1>8 DEF CleanupFails, Disconnects, StatusTyped, handlerVars
  <2> QED
    BY <1>0, <2>1, <2>2
<1>14. ASSUME NEW r \in Requests, AskFails(r) \/ LookUpFails(r) PROVE ClosedFirst'
  <2>1. orphaned' = orphaned \cup {r}
    BY <1>14 DEF AskFails, LookUpFails
  <2>2. \A q \in Requests \ {r} : pc'[q] = pc[q] /\ hook'[q] = hook[q]
    BY <1>0, <1>14 DEF AskFails, LookUpFails, Answer, StatusTyped
  <2> QED
    BY <1>0, <2>1, <2>2
<1>9. ASSUME NEW r \in Requests, PollTimesOut(r) \/ HookTimesOut(r) PROVE ClosedFirst'
  <2>1. pc[r] = "done"
    BY <1>9, TimersLate DEF AtWork, Served
  <2>2. r \in resolved \/ r \in orphaned
    BY <2>1
  <2>3. UNCHANGED <<pc, orphaned>> /\ \A q \in Requests \ {r} : hook'[q] = hook[q]
    BY <1>0, <1>9 DEF PollTimesOut, HookTimesOut, handlerVars, faultVars, StatusTyped
  <2> QED
    BY <1>0, <1>2, <2>2, <2>3
<1>10. ASSUME NEW r \in Requests, GoesSilent(r) \/ \E b \in Behaviors : Decide(r, b)
       PROVE ClosedFirst'
  BY <1>1, <1>10 DEF GoesSilent, Decide, handlerVars, faultVars
<1>11. CASE StartTurn \/ NotifyArrives \/ ListenerDrops \/ ListenerReconnects \/ Tick
  BY <1>1, <1>11 DEF StartTurn, NotifyArrives, ListenerDrops, ListenerReconnects, Tick,
     handlerVars, faultVars
<1>12. CASE Crash
  <2> SUFFICES ASSUME NEW q \in Requests \ orphaned',
                      hook'[q] \notin {"none", "blocked"} \/ pc'[q] \in {"deny", "done"}
               PROVE  q \in resolved
    BY <1>0
  <2>1. q \notin orphaned /\ hook[q] # "blocked"
    BY <1>12 DEF Crash
  <2>2. hook[q] # "none"
    BY <1>12, <2>1 DEF Crash, Reachable
  <2> QED
    BY <2>1, <2>2
<1>13. CASE UNCHANGED vars
  BY <1>1, <1>13 DEF vars, handlerVars, faultVars
<1> QED
  BY <1>3, <1>4, <1>5, <1>6, <1>7, <1>8, <1>9, <1>10, <1>11, <1>12, <1>13, <1>14 DEF Next, Handler

-----------------------------------------------------------------------------
(* Wake-ups.                                                               *)

LEMMA WakesKept ==
  ASSUME TypeOK, Wakes, [Next]_vars PROVE Wakes'
<1>0. DbTyped /\ StatusTyped
  BY TypeParts
<1> USE DEF Wakes
<1>1. ASSUME UNCHANGED <<listening, notify, missed, rows>>,
             \A r \in Requests : pc'[r] \in {"empty", "await"} =>
               \/ pc[r] \in {"empty", "await"} /\ woken'[r] = woken[r]
               \/ rows[r] = <<>>
      PROVE Wakes'
  BY <1>1
<1>2. ASSUME NEW r \in Requests, Ask(r) PROVE Wakes'
  BY <1>0, <1>2 DEF Ask, HookAsks, StatusTyped, dbVars
<1>3. ASSUME NEW r \in Requests, Loop(r) \/ WaitEnds(r) \/ NoVerdict(r)
             \/ CleanupFails(r) \/ DeadlineDeny(r)
      PROVE Wakes'
  <2>1. UNCHANGED <<listening, notify, missed, rows>>
    BY <1>3 DEF Loop, Parks, WaitEnds, NoVerdict, CleanupFails, DeadlineDeny, notifyVars, dbVars
  <2>2. \A q \in Requests : pc'[q] \in {"empty", "await"} =>
          pc[q] \in {"empty", "await"} /\ woken'[q] = woken[q]
    BY <1>0, <1>3 DEF Loop, Parks, WaitEnds, Unparks, NoVerdict, CleanupFails, DeadlineDeny,
       StatusTyped
  <2> QED
    BY <1>1, <2>1, <2>2
<1>13. ASSUME NEW r \in Requests, AskFails(r) \/ LookUpFails(r) PROVE Wakes'
  <2>1. UNCHANGED <<listening, notify, missed, rows>>
    BY <1>13 DEF AskFails, LookUpFails, notifyVars, dbVars
  <2>2. \A q \in Requests : pc'[q] \in {"empty", "await"} =>
          pc[q] \in {"empty", "await"} /\ woken'[q] = woken[q]
    BY <1>0, <1>13 DEF AskFails, LookUpFails, Unparks, StatusTyped
  <2> QED
    BY <1>1, <2>1, <2>2
<1>4. ASSUME NEW r \in Requests, Query(r) \/ After(r) PROVE Wakes'
  <2>1. UNCHANGED <<listening, notify, missed, rows>>
    BY <1>4 DEF Query, After, LookUp, notifyVars, dbVars
  <2>2. pc'[r] \in {"empty", "await"} => FindVerdict(r) = "none"
    BY <1>0, <1>4 DEF Query, After, LookUp, StatusTyped
  <2>3. FindVerdict(r) = "none" => rows[r] = <<>>
    BY DEF FindVerdict
  <2>4. \A q \in Requests \ {r} : pc'[q] = pc[q] /\ woken'[q] = woken[q]
    BY <1>0, <1>4 DEF Query, After, LookUp, Unparks, StatusTyped
  <2> QED
    BY <1>1, <2>1, <2>2, <2>3, <2>4
<1>5. ASSUME NEW r \in Requests, NEW b \in Behaviors, Decide(r, b) \/ Cleanup(r)
      PROVE Wakes'
  <2>1. UNCHANGED <<listening, missed, woken>>
        /\ \A q \in Requests : pc'[q] \in {"empty", "await"} => pc[q] \in {"empty", "await"}
    BY <1>0, <1>5 DEF Decide, Cleanup, handlerVars, StatusTyped
  <2>2. UNCHANGED <<rows, notify>> \/ notify' = listening
    BY <1>5 DEF Decide, Cleanup, ResolveAttention
  <2>3. CASE UNCHANGED <<rows, notify>>
    BY <2>1, <2>3
  <2>4. CASE notify' = listening
    BY <2>1, <2>4
  <2> QED
    BY <2>2, <2>3, <2>4
<1>6. ASSUME NEW r \in Requests, Disconnects(r) \/ GoesSilent(r) \/ PollTimesOut(r)
             \/ HookTimesOut(r)
      PROVE Wakes'
  BY <1>6 DEF Disconnects, GoesSilent, PollTimesOut, HookTimesOut, handlerVars, notifyVars,
     dbVars
<1>7. CASE StartTurn \/ Tick
  BY <1>7 DEF StartTurn, Tick, handlerVars, notifyVars, dbVars
<1>8. CASE NotifyArrives
  <2>1. \A q \in Requests : pc[q] \in {"empty", "await"} => woken'[q]
    BY <1>8 DEF NotifyArrives, Parked
  <2>2. UNCHANGED <<listening, missed, pc>>
    BY <1>8 DEF NotifyArrives
  <2> QED
    BY <2>1, <2>2
<1>9. CASE ListenerDrops
  BY <1>9 DEF ListenerDrops
<1>10. CASE ListenerReconnects
  BY <1>10 DEF ListenerReconnects, handlerVars, dbVars
<1>11. CASE Crash
  BY <1>11 DEF Crash
<1>12. CASE UNCHANGED vars
  BY <1>12 DEF vars, handlerVars, notifyVars, dbVars
<1> QED
  BY <1>2, <1>3, <1>4, <1>5, <1>6, <1>7, <1>8, <1>9, <1>10, <1>11, <1>12, <1>13
  DEF Next, Handler, Behaviors

-----------------------------------------------------------------------------
(* The theorems.                                                           *)

LEMMA WaitInit == Init => WaitInv
<1> SUFFICES ASSUME Init PROVE WaitInv
  OBVIOUS
<1>1. TypeOK
  BY TypeInit
<1>2. OnTime /\ Served
  BY DeadlineAssumption DEF Init, OnTime, Served, AtWork
<1>3. RowPerResolve /\ AllowIsOnRecord /\ ToldIsOnRecord
  BY DEF Init, RowPerResolve, AllowIsOnRecord, ToldIsOnRecord, Behaviors
<1>4. ClosedFirst /\ Wakes
  BY DEF Init, ClosedFirst, Wakes
<1> QED
  BY <1>1, <1>2, <1>3, <1>4 DEF WaitInv

LEMMA WaitStep == WaitInv /\ [Next]_vars => WaitInv'
<1> SUFFICES ASSUME WaitInv, [Next]_vars PROVE WaitInv'
  OBVIOUS
<1> USE DEF WaitInv
<1>1. TypeOK'
  BY TypesKept
<1>2. OnTime' /\ Served'
  BY OnTimeKept, ServedKept
<1>3. (RowPerResolve /\ AllowIsOnRecord /\ ToldIsOnRecord)'
  BY VerdictsKept DEF Verdicts
<1>4. ClosedFirst' /\ Wakes'
  BY ClosedFirstKept, WakesKept
<1> QED
  BY <1>1, <1>2, <1>3, <1>4

LEMMA Invariance == Spec => []WaitInv
  BY WaitInit, WaitStep, PTL DEF Spec

\* Type correctness: in particular a wait never reaches beyond the deadline,
\* however often it is interrupted (the PERMISSION handler's remaining).
THEOREM TypeCorrect == Spec => []TypeOK
<1>1. WaitInv => TypeOK
  BY DEF WaitInv
<1> QED
  BY <1>1, Invariance, PTL

\* The approval path is fail-closed: a hook is told "allow" only if that is the
\* verdict on record for its own request.
THEOREM FailClosed == Spec => []AllowIsOnRecord
<1>1. WaitInv => AllowIsOnRecord
  BY DEF WaitInv
<1> QED
  BY <1>1, Invariance, PTL

\* One verdict per request, and the user was told no other (resolveAttention).
THEOREM VerdictOnce == Spec => []OneVerdict
<1>1. ASSUME WaitInv, NEW r \in Requests PROVE Len(rows[r]) <= 1
  <2>1. CASE rows[r] = <<>>
    BY <2>1
  <2>2. ASSUME NEW b \in Behaviors, rows[r] = <<b>> PROVE Len(rows[r]) <= 1
    BY <2>2
  <2> QED
    BY <1>1, <2>1, <2>2 DEF WaitInv, RowPerResolve
<1>2. WaitInv => OneVerdict
  BY <1>1 DEF WaitInv, OneVerdict, ToldIsOnRecord
<1> QED
  BY <1>2, Invariance, PTL

\* No handler sleeps on a verdict that is there (park before query).
THEOREM WakeupKept == Spec => []NoLostWakeup
<1>1. WaitInv => NoLostWakeup
  BY DEF WaitInv, NoLostWakeup, Wakes
<1> QED
  BY <1>1, Invariance, PTL

\* A hook gives up without a decision only if its connection went silent: the
\* server's deadline is below both timeouts, and the handler keeps it.
THEOREM DeadlineFirst == Spec => []DeadlineBeatsHook
<1> DEFINE Inv == WaitInv /\ DeadlineBeatsHook
<1>1. Init => Inv
  BY WaitInit DEF Init, DeadlineBeatsHook
<1>2. Inv /\ [Next]_vars => Inv'
  <2> SUFFICES ASSUME Inv, [Next]_vars PROVE DeadlineBeatsHook'
    BY WaitStep
  <2> SUFFICES ASSUME NEW q \in Requests \ cut', hook'[q] = "timeout" PROVE FALSE
    BY DEF DeadlineBeatsHook
  <2>0. StatusTyped /\ OnTime /\ Served
    BY TypeParts DEF WaitInv
  <2>1. cut \subseteq cut'
    BY DEF Next, Handler, Ask, AskFails, LookUpFails, HookAsks, Loop, Parks, Query, NoVerdict, WaitEnds, After, LookUp,
       Cleanup, DeadlineDeny, CleanupFails, Disconnects, GoesSilent, PollTimesOut,
       HookTimesOut, Decide, StartTurn, NotifyArrives, ListenerDrops,
       ListenerReconnects, Crash, Tick, vars, faultVars
  <2>2. hook[q] # "timeout"
    BY <2>1 DEF DeadlineBeatsHook
  <2>3. HookTimesOut(q)
    BY <2>0, <2>2 DEF Next, Handler, Ask, AskFails, LookUpFails, HookAsks, Loop, Parks, Query, NoVerdict, WaitEnds, After,
       LookUp, Answer, DecisionFromVerdict, FindVerdict, Cleanup, DeadlineDeny, CleanupFails, Disconnects,
       GoesSilent, PollTimesOut, HookTimesOut, Decide, StartTurn, NotifyArrives,
       ListenerDrops, ListenerReconnects, Crash, Tick, vars, StatusTyped
  <2>4. ~AtWork(q) /\ hook[q] = "blocked"
    BY <2>3, TimersLate DEF WaitInv
  <2> QED
    BY <2>0, <2>1, <2>4 DEF Served
<1>3. Inv => DeadlineBeatsHook
  OBVIOUS
<1> QED
  BY <1>1, <1>2, <1>3, PTL DEF Spec

\* A late tap-back cannot approve a command that already returned: the verdict
\* of an answered request is final, unless its handler could not close it.
THEOREM AnsweredIsClosed == Spec => ClosedIsFinal
<1>1. ASSUME WaitInv, [Next]_vars, NEW r \in Requests \ orphaned,
             hook[r] \in {"allow", "deny"}
      PROVE  rows'[r] = rows[r]
  <2>1. r \in resolved
    BY <1>1 DEF WaitInv, ClosedFirst
  <2>2. DbTyped
    BY <1>1, TypeParts DEF WaitInv
  <2> QED
    BY <1>1, <2>1, <2>2, DbEffect DEF DbTyped, dbVars
<1>2. WaitInv /\ [Next]_vars =>
        [\A r \in Requests \ orphaned :
           hook[r] \in {"allow", "deny"} => rows'[r] = rows[r]]_vars
  BY <1>1
<1> QED
  BY <1>2, Invariance, PTL DEF Spec, ClosedIsFinal
=============================================================================
