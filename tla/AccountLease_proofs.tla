------------------------- MODULE AccountLease_proofs -------------------------
(***************************************************************************)
(* The two layers exclude, for any number of machines and jobs, any        *)
(* crashes and any failed queries: the chain lets one job of a machine run *)
(* at a time, and of two jobs that both took the lease and run together one *)
(* has outlasted the TTL.                                                  *)
(***************************************************************************)
EXTENDS AccountLease, TLAPS

\* The lease protects a job as long as it runs and has not outlasted it.
Protected(j) == Running(j) /\ held[j] /\ age[j] < TTL

\* A protected job owns the row, and the row's time left and the job's age add up
\* to the TTL: this is what keeps anybody else from taking it.
OwnsTheRow == \A j \in Jobs : Protected(j) => owner = j /\ left + age[j] = TTL

\* held is the result of acquireLease, so it is FALSE until then.
HeldComesLate ==
  \A j \in Jobs : st[j] \in {"new", "chained", "acquiring"} => ~held[j]

RowInv == TypeOK /\ OwnsTheRow /\ HeldComesLate

-----------------------------------------------------------------------------

LEMMA TypeInit == Init => TypeOK
  BY JobsAssumption, TimesAssumption DEF Init, TypeOK

\* Every step of the two layers keeps the types.
LEMMA TypeStep == TypeOK /\ [Next]_vars => TypeOK'
<1> SUFFICES ASSUME TypeOK, [Next]_vars PROVE TypeOK'
  OBVIOUS
<1> USE JobsAssumption, TimesAssumption DEF TypeOK, Settled, Becomes, Fault, Takes,
        Ends, chainVars, leaseVars
<1>1. ASSUME NEW j \in Jobs, Submit(j) \/ Start(j) \/ Collect(j) PROVE TypeOK'
  BY <1>1 DEF Submit, Start, Collect
<1>2. ASSUME NEW j \in Jobs, Acquire(j) \/ GiveUp(j) \/ AcquireFails(j)
      PROVE TypeOK'
  <2>1. st' \in [Jobs -> {"new", "chained", "acquiring", "running", "releasing",
                       "unwinding"} \cup Settled] /\ age' \in [Jobs -> Nat]
    BY <1>2 DEF Acquire, GiveUp, AcquireFails
  <2>2. held' \in [Jobs -> BOOLEAN]
    BY <1>2 DEF Acquire, GiveUp, AcquireFails
  <2>3. owner' \in Jobs \cup {None} /\ left' \in 0 .. TTL
        /\ faults' \in Nat
    BY <1>2 DEF Acquire, GiveUp, AcquireFails
  <2>4. UNCHANGED chainVars
    BY <1>2 DEF Acquire, GiveUp, AcquireFails
  <2> QED
    BY <2>1, <2>2, <2>3, <2>4
<1>3. ASSUME NEW j \in Jobs, Finish(j) \/ Release(j) \/ ReleaseFails(j)
      PROVE TypeOK'
  BY <1>3 DEF Finish, Release, ReleaseFails
<1>4. ASSUME NEW m \in Machines, Crash(m) PROVE TypeOK'
  BY <1>4 DEF Crash
<1>5. CASE Tick
  BY <1>5 DEF Tick
<1>6. CASE UNCHANGED vars
  BY <1>6 DEF vars
<1> QED
  BY <1>1, <1>2, <1>3, <1>4, <1>5, <1>6 DEF Next, Job

\* Type correctness of the two layers, for every number of jobs and machines.
THEOREM TypeCorrect == Spec => []TypeOK
  BY TypeInit, TypeStep, PTL DEF Spec

-----------------------------------------------------------------------------

\* While a job is protected nobody finds the row free: the row's time has not run
\* out, because the job's has not.
LEMMA HolderBlocks ==
  ASSUME RowInv, NEW k \in Jobs, Protected(k)
  PROVE  ~Free
<1>1. owner = k /\ left + age[k] = TTL /\ age[k] < TTL /\ age[k] \in Nat
  BY DEF RowInv, OwnsTheRow, Protected, TypeOK
<1>2. left # 0
  BY <1>1, TimesAssumption DEF RowInv, TypeOK
<1> QED
  BY <1>1, <1>2, JobsAssumption DEF Free

LEMMA RowInit == Init => RowInv
<1> SUFFICES ASSUME Init PROVE RowInv
  OBVIOUS
<1>1. TypeOK
  BY TypeInit
<1> QED
  BY <1>1 DEF Init, RowInv, OwnsTheRow, HeldComesLate, Protected, Running

\* Each step keeps the row with the job that runs under it.
LEMMA RowStep == RowInv /\ [Next]_vars => RowInv'
<1> SUFFICES ASSUME RowInv, [Next]_vars PROVE RowInv'
  OBVIOUS
<1> USE JobsAssumption, TimesAssumption
<1>0. TypeOK' /\ TypeOK
  BY TypeStep DEF RowInv
<1>h. ASSUME NEW k \in Jobs, Protected(k) PROVE ~Free
  BY <1>h, HolderBlocks
<1> USE DEF OwnsTheRow, HeldComesLate, Protected, Running, RowInv
<1>1. ASSUME NEW j \in Jobs, Submit(j) \/ Start(j) \/ Collect(j) PROVE RowInv'
  BY <1>0, <1>1 DEF Submit, Start, Collect, Becomes, leaseVars, TypeOK
<1>2. ASSUME NEW j \in Jobs, Acquire(j) PROVE RowInv'
  <2>1. \A k \in Jobs : ~Protected(k)
    <3>1. Free
      BY <1>2 DEF Acquire
    <3> QED
      BY ONLY <3>1, <1>h
  <2>2. st' = [st EXCEPT ![j] = "running"] /\ age' = [age EXCEPT ![j] = 0]
        /\ held' = [held EXCEPT ![j] = TRUE] /\ owner' = j /\ left' = TTL
    BY <1>2 DEF Acquire, Becomes, Takes
  <2>3. OwnsTheRow'
    BY <1>0, <2>1, <2>2 DEF TypeOK
  <2>4. HeldComesLate'
    BY <1>0, <2>2 DEF TypeOK
  <2> QED
    BY <1>0, <2>3, <2>4
<1>3. ASSUME NEW j \in Jobs, GiveUp(j) PROVE RowInv'
  BY <1>0, <1>3 DEF GiveUp, Becomes, leaseVars, TypeOK
<1>4. ASSUME NEW j \in Jobs, AcquireFails(j) PROVE RowInv'
  <2>1. st[j] = "acquiring" /\ held' = held
        /\ st' = [st EXCEPT ![j] = "running"] /\ age' = [age EXCEPT ![j] = 0]
    BY <1>4 DEF AcquireFails, Becomes
  <2>2. CASE Free /\ Takes(j)
    <3>1. \A k \in Jobs : ~Protected(k)
      BY ONLY <2>2, <1>h
    <3>2. \A k \in Jobs : ~Protected(k)'
      <4>1. ~held[j]
        BY <2>1
      <4>2. \A k \in Jobs \ {j} : st'[k] = st[k] /\ age'[k] = age[k]
        BY <1>0, <2>1 DEF TypeOK
      <4> QED
        BY <2>1, <3>1, <4>1, <4>2
    <3>3. OwnsTheRow'
      BY <3>2
    <3>4. HeldComesLate'
      BY <1>0, <2>1 DEF TypeOK
    <3> QED
      BY <1>0, <3>3, <3>4
  <2>3. CASE UNCHANGED leaseVars
    BY <1>0, <2>1, <2>3 DEF leaseVars, TypeOK
  <2> QED
    BY <1>4, <2>2, <2>3 DEF AcquireFails
<1>5. ASSUME NEW j \in Jobs, Finish(j) PROVE RowInv'
  BY <1>0, <1>5 DEF Finish, Becomes, leaseVars, TypeOK
<1>6. ASSUME NEW j \in Jobs, Release(j) \/ ReleaseFails(j) PROVE RowInv'
  <2>1. ~Running(j) /\ held' = held
        /\ age' = [age EXCEPT ![j] = 0]
        /\ (st' = [st EXCEPT ![j] = "fulfilled"] \/ st' = [st EXCEPT ![j] = "rejected"])
    BY <1>6 DEF Release, ReleaseFails, Ends, Becomes
  <2>2. owner # j => UNCHANGED <<owner, left>>
    BY <1>6 DEF Release, ReleaseFails, leaseVars
  <2>3. CASE owner = j
    <3>1. \A k \in Jobs : ~Protected(k)
      BY <2>1, <2>3
    <3>2. \A k \in Jobs : st'[k] = "running" => st[k] = "running" /\ age'[k] = age[k]
      BY <1>0, <2>1 DEF TypeOK
    <3>3. OwnsTheRow'
      BY <2>1, <3>1, <3>2
    <3>4. HeldComesLate'
      BY <1>0, <2>1 DEF TypeOK
    <3> QED
      BY <1>0, <3>3, <3>4
  <2>4. CASE owner # j
    BY <1>0, <2>1, <2>2, <2>4 DEF TypeOK
  <2> QED
    BY <2>3, <2>4
<1>7. ASSUME NEW m \in Machines, Crash(m) PROVE RowInv'
  <2>1. UNCHANGED <<held, owner, left>>
    BY <1>7 DEF Crash, leaseVars
  <2>2. \A k \in Jobs : st'[k] # "gone" => st'[k] = st[k]
    BY <1>0, <1>7 DEF Crash, TypeOK
  <2>3. \A k \in Jobs : st'[k] = "running" => age'[k] = age[k]
    <3> SUFFICES ASSUME NEW k \in Jobs, st'[k] = "running" PROVE age'[k] = age[k]
      OBVIOUS
    <3>1. st[k] = "running" /\ Home[k] # m
      BY <1>0, <1>7 DEF Crash, TypeOK
    <3> QED
      BY <1>7, <3>1 DEF Crash
  <2> QED
    BY <1>0, <2>1, <2>2, <2>3
<1>8. CASE Tick
  <2>1. UNCHANGED <<st, held, owner>>
    BY <1>8 DEF Tick
  <2>2. \A k \in Jobs : Running(k) => age'[k] = age[k] + 1
    BY <1>0, <1>8 DEF Tick, TypeOK
  <2>3. \A k \in Jobs : Protected(k)' => Protected(k) /\ left' + age'[k] = TTL
    <3> SUFFICES ASSUME NEW k \in Jobs, Protected(k)'
                 PROVE Protected(k) /\ left' + age'[k] = TTL
      OBVIOUS
    <3>1. age'[k] = age[k] + 1 /\ age[k] \in Nat /\ Protected(k)
      BY <1>0, <2>1, <2>2 DEF TypeOK
    <3>2. left + age[k] = TTL /\ left # 0
      BY <1>0, <3>1 DEF TypeOK
    <3>3. left' = left - 1
      BY <1>8, <3>2 DEF Tick
    <3> QED
      BY <1>0, <3>1, <3>2, <3>3 DEF TypeOK
  <2> QED
    BY <1>0, <2>1, <2>3
<1>9. CASE UNCHANGED vars
  BY <1>0, <1>9 DEF vars, chainVars, leaseVars, TypeOK
<1> QED
  BY <1>1, <1>2, <1>3, <1>4, <1>5, <1>6, <1>7, <1>8, <1>9 DEF Next, Job

\* acquireLease and releaseLease exclude: of two jobs that both took the lease and
\* run together one has run for LEASE_TTL_SECONDS or more, whatever crashes,
\* failed queries and late releases there are and however long jobs run.
THEOREM LeaseCorrect == Spec => []LeaseExclusion
<1>1. RowInv => LeaseExclusion
  <2> SUFFICES ASSUME RowInv, NEW j \in Jobs, NEW k \in Jobs,
                      Running(j), held[j], Running(k), held[k], j # k
               PROVE age[j] >= TTL \/ age[k] >= TTL
    BY DEF LeaseExclusion
  <2>1. age[j] \in Nat /\ age[k] \in Nat
    BY DEF RowInv, TypeOK
  <2>2. Protected(j) => owner = j
    BY DEF RowInv, OwnsTheRow
  <2>3. Protected(k) => owner = k
    BY DEF RowInv, OwnsTheRow
  <2>4. ~Protected(j) \/ ~Protected(k)
    BY <2>2, <2>3
  <2> QED
    BY <2>1, <2>4, TimesAssumption DEF Protected
<1> QED
  BY RowInit, RowStep, <1>1, PTL DEF Spec

-----------------------------------------------------------------------------
(* The chain.  Its order is not in the state, so the invariant says that   *)
(* there is a numbering of the jobs in which each waits for the one before *)
(* it: the first of a machine is the only one that may work.               *)

Working(j) == st[j] \in {"acquiring", "running", "releasing", "unwinding"}
Live(j) == st[j] = "chained" \/ Working(j)

\* The next to start: nobody it waits for is still there.
Head(j) == st[j] = "chained" /\ (prev[j] # None => st[prev[j]] \in Settled)

Waits(pos) ==
  \A j \in Jobs : st[j] = "chained" /\ prev[j] # None =>
    /\ Home[prev[j]] = Home[j] /\ st[prev[j]] # "new"
    /\ Live(prev[j]) => pos[j] = pos[prev[j]] + 1
Distinct(pos) ==
  \A j, k \in Jobs : Live(j) /\ Live(k) /\ Home[j] = Home[k] /\ pos[j] = pos[k] => j = k
FirstWorks(pos) ==
  \A j, k \in Jobs :
    (Working(j) \/ Head(j)) /\ Live(k) /\ Home[j] = Home[k] => pos[j] <= pos[k]
TailIsLast(pos) ==
  \A k \in Jobs : Live(k) =>
    /\ tail[Home[k]] # None /\ Live(tail[Home[k]]) /\ Home[tail[Home[k]]] = Home[k]
    /\ pos[k] <= pos[tail[Home[k]]]
TailIsHome ==
  \A m \in Machines : tail[m] # None => Home[tail[m]] = m /\ st[tail[m]] # "new"

Numbered(pos) ==
  pos \in [Jobs -> Nat] /\ Waits(pos) /\ Distinct(pos) /\ FirstWorks(pos) /\ TailIsLast(pos)
ChainInv == TypeOK /\ TailIsHome /\ \E pos : Numbered(pos)

LEMMA ChainInit == Init => ChainInv
<1> SUFFICES ASSUME Init PROVE ChainInv
  OBVIOUS
<1> DEFINE zero == [j \in Jobs |-> 0]
<1>1. TypeOK
  BY TypeInit
<1>2. \A j \in Jobs : ~Live(j) /\ st[j] # "chained"
  BY DEF Init, Live, Working
<1>3. Numbered(zero)
  BY <1>2 DEF Numbered, Waits, Distinct, FirstWorks, TailIsLast, Head, Working, Live
<1>4. TailIsHome
  BY DEF Init, TailIsHome
<1> QED
  BY <1>1, <1>3, <1>4 DEF ChainInv

\* A job that joins the chain is numbered after its last one.
LEMMA SubmitKeepsChain ==
  ASSUME ChainInv, TypeOK', NEW j \in Jobs, Submit(j)
  PROVE  ChainInv'
<1> USE JobsAssumption
<1>0. PICK t : t = tail[Home[j]]
  OBVIOUS
<1>1. PICK pos : Numbered(pos)
  BY DEF ChainInv
<1>2. pos \in [Jobs -> Nat] /\ TypeOK /\ TailIsHome
  BY <1>1 DEF Numbered, ChainInv
<1>3. /\ st[j] = "new" /\ st' = [st EXCEPT ![j] = "chained"]
      /\ prev' = [prev EXCEPT ![j] = t] /\ tail' = [tail EXCEPT ![Home[j]] = j]
  BY <1>0 DEF Submit, Becomes
<1>4. /\ Home[j] \in Machines /\ t \in Jobs \cup {None} /\ t # j
      /\ t # None => Home[t] = Home[j] /\ st[t] # "new"
  BY <1>0, <1>2, <1>3 DEF TypeOK, TailIsHome
<1> DEFINE last == t # None /\ Live(t)
<1>5. PICK new \in [Jobs -> Nat] : /\ new[j] = IF last THEN pos[t] + 1 ELSE 0
                                  /\ \A k \in Jobs \ {j} : new[k] = pos[k]
  <2> DEFINE n == [k \in Jobs |-> IF k # j THEN pos[k] ELSE IF last THEN pos[t] + 1 ELSE 0]
  <2>1. n \in [Jobs -> Nat]
    BY <1>2, <1>4
  <2> QED
    BY <2>1
<1>6. \A k \in Jobs \ {j} : /\ st'[k] = st[k] /\ prev'[k] = prev[k]
                            /\ Live(k)' <=> Live(k)
                            /\ Working(k)' <=> Working(k)
  BY <1>2, <1>3 DEF TypeOK, Live, Working
<1>7. st'[j] = "chained" /\ prev'[j] = t /\ Live(j)' /\ ~Working(j)' /\ ~Live(j)
  BY <1>2, <1>3 DEF TypeOK, Live, Working
<1>8. \A k \in Jobs : st[k] = "chained" /\ prev[k] # None => prev[k] \in Jobs \ {j}
  BY <1>1, <1>2, <1>3 DEF Numbered, Waits, TypeOK
<1>9. \A k \in Jobs \ {j} : Live(k) /\ Home[k] = Home[j] => last /\ pos[k] < new[j]
  <2> SUFFICES ASSUME NEW k \in Jobs \ {j}, Live(k), Home[k] = Home[j]
               PROVE last /\ pos[k] < new[j]
    OBVIOUS
  <2>1. t # None /\ Live(t) /\ pos[k] <= pos[t]
    BY <1>0, <1>1 DEF Numbered, TailIsLast
  <2>2. pos[k] \in Nat /\ pos[t] \in Nat
    BY <1>2, <1>4, <2>1
  <2> QED
    BY <1>5, <2>1, <2>2
<1>10. \A k \in Jobs \ {j} : Head(k)' => Head(k)
  BY <1>6, <1>8, <1>2 DEF Head, TypeOK
<1> HIDE DEF last
<1>11. Waits(new)'
  <2> SUFFICES ASSUME NEW k \in Jobs, st'[k] = "chained", prev'[k] # None
               PROVE /\ Home[prev'[k]] = Home[k] /\ st'[prev'[k]] # "new"
                     /\ Live(prev[k])' => new[k] = new[prev'[k]] + 1
    BY DEF Waits
  <2>1. CASE k = j
    BY <1>4, <1>5, <1>6, <1>7, <2>1 DEF last
  <2>2. CASE k # j
    BY <1>1, <1>5, <1>6, <1>8, <2>2 DEF Numbered, Waits
  <2> QED
    BY <2>1, <2>2
<1>12. Distinct(new)'
  <2> SUFFICES ASSUME NEW k \in Jobs, NEW l \in Jobs, Live(k)', Live(l)',
                      Home[k] = Home[l], new[k] = new[l]
               PROVE k = l
    BY DEF Distinct
  <2>1. pos[k] \in Nat /\ pos[l] \in Nat
    BY <1>2
  <2>2. CASE k = j /\ l # j
    BY <1>5, <1>6, <1>9, <2>1, <2>2
  <2>3. CASE k # j /\ l = j
    BY <1>5, <1>6, <1>9, <2>1, <2>3
  <2>4. CASE k # j /\ l # j
    BY <1>1, <1>5, <1>6, <2>4 DEF Numbered, Distinct
  <2> QED
    BY <2>2, <2>3, <2>4
<1>13. FirstWorks(new)'
  <2> SUFFICES ASSUME NEW k \in Jobs, NEW l \in Jobs, Working(k)' \/ Head(k)', Live(l)',
                      Home[k] = Home[l]
               PROVE new[k] <= new[l]
    BY DEF FirstWorks
  <2>1. pos[k] \in Nat /\ pos[l] \in Nat /\ new[k] \in Nat
    BY <1>2, <1>5
  <2>2. CASE k = j
    <3>1. ~last
      BY <1>3, <1>4, <1>6, <1>7, <2>2 DEF Head, Live, Working, Settled, last
    <3>2. l = j
      BY <1>6, <1>9, <2>2, <3>1
    <3> QED
      BY <2>1, <2>2, <3>2
  <2>3. CASE k # j /\ l = j
    <3>1. Live(k)
      BY <1>6, <2>3 DEF Head, Live, Working
    <3> QED
      BY <1>5, <1>9, <2>1, <2>3, <3>1
  <2>4. CASE k # j /\ l # j
    <3>1. (Working(k) \/ Head(k)) /\ Live(l)
      BY <1>6, <1>10, <2>4
    <3> QED
      BY <1>1, <1>5, <2>4, <3>1 DEF Numbered, FirstWorks
  <2> QED
    BY <2>2, <2>3, <2>4
<1>14. TailIsLast(new)'
  <2> SUFFICES ASSUME NEW k \in Jobs, Live(k)'
               PROVE /\ tail'[Home[k]] # None /\ Live(tail[Home[k]])'
                     /\ Home[tail'[Home[k]]] = Home[k] /\ new[k] <= new[tail'[Home[k]]]
    BY DEF TailIsLast
  <2>1. pos[k] \in Nat /\ new[k] \in Nat /\ Home[k] \in Machines
    BY <1>2, <1>5
  <2>2. CASE Home[k] = Home[j]
    <3>1. tail'[Home[k]] = j
      BY <1>2, <1>3, <2>1, <2>2 DEF TypeOK
    <3>2. new[k] <= new[j]
      BY <1>5, <1>6, <1>9, <2>1, <2>2
    <3>3. Live(tail[Home[k]])' <=> Live(j)'
      BY <3>1 DEF Live, Working
    <3>4. j # None
      BY JobsAssumption
    <3> QED
      BY <1>7, <2>2, <3>1, <3>2, <3>3, <3>4
  <2>3. CASE Home[k] # Home[j]
    <3>1. k # j /\ Live(k) /\ tail'[Home[k]] = tail[Home[k]]
      BY <1>2, <1>3, <1>6, <2>1, <2>3 DEF TypeOK
    <3> DEFINE u == tail[Home[k]]
    <3>2. u # None /\ Live(u) /\ Home[u] = Home[k] /\ pos[k] <= pos[u]
      BY <1>1, <3>1 DEF Numbered, TailIsLast
    <3>3. u \in Jobs \ {j}
      BY <1>2, <2>1, <2>3, <3>2 DEF TypeOK
    <3>4. Live(tail[Home[k]])' <=> Live(u)
      BY <1>6, <3>1, <3>3 DEF Live, Working
    <3>5. new[k] = pos[k] /\ new[u] = pos[u]
      BY <1>5, <3>1, <3>3
    <3> QED
      BY <3>1, <3>2, <3>4, <3>5
  <2> QED
    BY <2>2, <2>3
<1>15. TailIsHome'
  BY <1>2, <1>3, <1>6, <1>7 DEF TailIsHome, TypeOK
<1>16. Numbered(new)'
  BY <1>5, <1>11, <1>12, <1>13, <1>14 DEF Numbered
<1> QED
  BY <1>15, <1>16 DEF ChainInv

\* Between joining and settling a job may start, run and release, and a machine
\* may die with all of its jobs: where a job is left, only its right to work
\* changes hands.
LEMMA WorkKeepsChain ==
  ASSUME ChainInv, TypeOK', TailIsHome',
         \A k \in Jobs : Live(k)' =>
           /\ Live(k) /\ tail'[Home[k]] = tail[Home[k]]
           /\ \A l \in Jobs : Home[l] = Home[k] => /\ Live(l)' <=> Live(l)
                                                   /\ st'[l] \in Settled <=> st[l] \in Settled,
         \A k \in Jobs : st'[k] = "chained" => st[k] = "chained" /\ prev'[k] = prev[k],
         \A k \in Jobs : st'[k] = "new" => st[k] = "new",
         \A k \in Jobs : Working(k)' => Working(k) \/ Head(k)
  PROVE  ChainInv'
<1> USE JobsAssumption
<1>1. PICK pos : Numbered(pos)
  BY DEF ChainInv
<1>2. TypeOK
  BY DEF ChainInv
<1>3. \A k \in Jobs : st'[k] = "chained" /\ prev'[k] # None =>
        /\ prev'[k] = prev[k] /\ prev[k] \in Jobs /\ Home[prev[k]] = Home[k]
        /\ st[prev[k]] # "new" /\ Live(k)' /\ st[k] = "chained"
  BY <1>1, <1>2 DEF TypeOK, Numbered, Waits, Live
<1>4. \A k \in Jobs : Head(k)' => Head(k)
  BY <1>3 DEF Head
<1>5. Waits(pos)'
  <2> SUFFICES ASSUME NEW k \in Jobs, st'[k] = "chained", prev'[k] # None
               PROVE /\ Home[prev'[k]] = Home[k] /\ st'[prev'[k]] # "new"
                     /\ Live(prev[k])' => pos[k] = pos[prev'[k]] + 1
    BY DEF Waits
  <2>1. prev'[k] = prev[k] /\ prev[k] \in Jobs /\ st[k] = "chained"
    BY <1>3
  <2>2. Live(prev[k])' => Live(prev[k])
    <3>1. Live(prev[k])' <=> st'[prev[k]] = "chained" \/
                             st'[prev[k]] \in {"acquiring", "running", "releasing", "unwinding"}
      BY <2>1 DEF Live, Working
    <3> QED
      BY <1>3, <2>1, <3>1 DEF Live, Working
  <2> QED
    BY <1>1, <1>3, <2>1, <2>2 DEF Numbered, Waits
<1>6. Distinct(pos)'
  BY <1>1 DEF Numbered, Distinct
<1>7. FirstWorks(pos)'
  BY <1>1, <1>4 DEF Numbered, FirstWorks
<1>8. TailIsLast(pos)'
  <2> SUFFICES ASSUME NEW k \in Jobs, Live(k)'
               PROVE /\ tail'[Home[k]] # None /\ Live(tail[Home[k]])'
                     /\ Home[tail'[Home[k]]] = Home[k] /\ pos[k] <= pos[tail'[Home[k]]]
    BY DEF TailIsLast
  <2> DEFINE u == tail[Home[k]]
  <2>1. tail'[Home[k]] = u /\ u # None /\ Live(u) /\ Home[u] = Home[k] /\ pos[k] <= pos[u]
    BY <1>1 DEF Numbered, TailIsLast
  <2>2. u \in Jobs
    BY <1>2, <2>1 DEF TypeOK
  <2>3. st'[u] = "chained" \/ st'[u] \in {"acquiring", "running", "releasing", "unwinding"}
    BY <2>1, <2>2 DEF Live, Working
  <2>4. Live(tail[Home[k]])'
    BY <2>1, <2>3 DEF Live, Working
  <2> QED
    BY <2>1, <2>4
<1>9. Numbered(pos)'
  BY <1>1, <1>5, <1>6, <1>7, <1>8 DEF Numbered
<1> QED
  BY <1>9 DEF ChainInv

\* When the working job settles the one behind it is the first; when the last of
\* a machine settles nobody is left.
LEMMA SettleKeepsChain ==
  ASSUME ChainInv, TypeOK', NEW j \in Jobs, Working(j),
         st' = [st EXCEPT ![j] = "fulfilled"] \/ st' = [st EXCEPT ![j] = "rejected"],
         UNCHANGED <<prev, tail>>
  PROVE  ChainInv'
<1> USE JobsAssumption
<1>1. PICK pos : Numbered(pos)
  BY DEF ChainInv
<1>2. TypeOK /\ TailIsHome /\ pos \in [Jobs -> Nat]
  BY <1>1 DEF ChainInv, Numbered
<1>3. st'[j] \in {"fulfilled", "rejected"} /\ \A k \in Jobs \ {j} : st'[k] = st[k]
  BY <1>2 DEF TypeOK
<1>4. ~Live(j)' /\ ~Working(j)' /\ ~Head(j)'
  BY <1>3 DEF Live, Working, Head
<1>5. \A k \in Jobs \ {j} : (Live(k)' <=> Live(k)) /\ (Working(k)' <=> Working(k))
  BY <1>3 DEF Live, Working
<1>6. \A k \in Jobs \ {j} : Head(k)' => Head(k) \/ (st[k] = "chained" /\ prev[k] = j)
  BY <1>2, <1>3 DEF Head, TypeOK
<1>7. \A k \in Jobs \ {j} : Live(k) /\ Home[k] = Home[j] => pos[j] + 1 <= pos[k]
  <2> SUFFICES ASSUME NEW k \in Jobs \ {j}, Live(k), Home[k] = Home[j]
               PROVE pos[j] + 1 <= pos[k]
    OBVIOUS
  <2>1. pos[j] <= pos[k]
    BY <1>1 DEF Numbered, FirstWorks
  <2>2. pos[j] # pos[k]
    BY <1>1 DEF Numbered, Distinct, Live
  <2> QED
    BY <1>2, <2>1, <2>2
<1>8. Waits(pos)'
  <2> SUFFICES ASSUME NEW k \in Jobs, st'[k] = "chained", prev[k] # None
               PROVE /\ Home[prev[k]] = Home[k] /\ st'[prev[k]] # "new"
                     /\ Live(prev[k])' => pos[k] = pos[prev[k]] + 1
    BY DEF Waits
  <2>1. k # j /\ st[k] = "chained" /\ prev[k] \in Jobs
    BY <1>2, <1>3 DEF TypeOK
  <2>2. CASE prev[k] = j
    <3>1. ~Live(prev[k])'
      BY <1>3, <2>2 DEF Live, Working
    <3> QED
      BY <1>1, <1>3, <2>1, <2>2, <3>1 DEF Numbered, Waits
  <2>3. CASE prev[k] # j
    <3>1. Live(prev[k])' => Live(prev[k])
      BY <1>3, <2>1, <2>3 DEF Live, Working
    <3> QED
      BY <1>1, <1>3, <2>1, <2>3, <3>1 DEF Numbered, Waits
  <2> QED
    BY <2>2, <2>3
<1>9. Distinct(pos)'
  BY <1>1, <1>4, <1>5 DEF Numbered, Distinct
<1>10. FirstWorks(pos)'
  <2> SUFFICES ASSUME NEW k \in Jobs, NEW l \in Jobs, Working(k)' \/ Head(k)', Live(l)',
                      Home[k] = Home[l]
               PROVE pos[k] <= pos[l]
    BY DEF FirstWorks
  <2>1. k # j /\ l # j /\ Live(l)
    BY <1>4, <1>5
  <2>2. CASE Working(k) \/ Head(k)
    BY <1>1, <2>1, <2>2 DEF Numbered, FirstWorks
  <2>3. CASE st[k] = "chained" /\ prev[k] = j
    <3>1. Home[j] = Home[k] /\ pos[k] = pos[j] + 1
      BY <1>1, <2>3 DEF Numbered, Waits, Live
    <3> QED
      BY <1>7, <2>1, <3>1
  <2> QED
    BY <1>5, <1>6, <2>1, <2>2, <2>3
<1>11. TailIsLast(pos)'
  <2> SUFFICES ASSUME NEW k \in Jobs, Live(k)'
               PROVE /\ tail[Home[k]] # None /\ Live(tail[Home[k]])'
                     /\ Home[tail[Home[k]]] = Home[k] /\ pos[k] <= pos[tail[Home[k]]]
    BY DEF TailIsLast
  <2>1. k # j /\ Live(k)
    BY <1>4, <1>5
  <2>2. /\ tail[Home[k]] # None /\ Live(tail[Home[k]])
        /\ Home[tail[Home[k]]] = Home[k] /\ pos[k] <= pos[tail[Home[k]]]
    BY <1>1, <2>1 DEF Numbered, TailIsLast
  <2>3. tail[Home[k]] \in Jobs /\ pos[k] \in Nat /\ pos[j] \in Nat
    BY <1>2, <2>2 DEF TypeOK
  <2>4. tail[Home[k]] # j
    <3> SUFFICES ASSUME tail[Home[k]] = j PROVE FALSE
      OBVIOUS
    <3>1. Home[k] = Home[j] /\ pos[k] <= pos[j]
      BY <2>2
    <3>2. pos[j] + 1 <= pos[k]
      BY <1>7, <2>1, <3>1
    <3> QED
      BY <2>3, <3>1, <3>2
  <2>5. Live(tail[Home[k]])'
    BY <1>3, <2>2, <2>3, <2>4 DEF Live, Working
  <2> QED
    BY <2>2, <2>5
<1>12. TailIsHome'
  BY <1>2, <1>3 DEF TailIsHome, TypeOK
<1>13. Numbered(pos)'
  BY <1>1, <1>8, <1>9, <1>10, <1>11 DEF Numbered
<1> QED
  BY <1>12, <1>13 DEF ChainInv

\* Each step of the two layers keeps the chain in order.
LEMMA ChainStep == ChainInv /\ [Next]_vars => ChainInv'
<1> SUFFICES ASSUME ChainInv, [Next]_vars PROVE ChainInv'
  OBVIOUS
<1> USE JobsAssumption
<1>0. TypeOK' /\ TypeOK /\ TailIsHome
  BY TypeStep DEF ChainInv
<1>t. ASSUME UNCHANGED tail, \A k \in Jobs : st'[k] = "new" => st[k] = "new"
      PROVE TailIsHome'
  BY <1>0, <1>t DEF TailIsHome, TypeOK
<1>1. ASSUME NEW j \in Jobs, Submit(j) PROVE ChainInv'
  BY <1>0, <1>1, SubmitKeepsChain
<1>w. ASSUME NEW j \in Jobs, Working(j), UNCHANGED chainVars,
             NEW s \in {"running", "releasing", "unwinding"}, st' = [st EXCEPT ![j] = s]
      PROVE ChainInv'
  <2>1. \A k \in Jobs : st'[k] = st[k] \/ (k = j /\ Working(k) /\ st'[k] = s)
    BY <1>0, <1>w DEF TypeOK
  <2>2. \A k \in Jobs : (Live(k)' <=> Live(k)) /\ (Working(k)' <=> Working(k))
                        /\ (st'[k] \in Settled <=> st[k] \in Settled)
    BY <2>1 DEF Live, Working, Settled
  <2>3. UNCHANGED <<prev, tail>>
    BY <1>w DEF chainVars
  <2> QED
    BY <1>0, <1>t, <2>1, <2>2, <2>3, WorkKeepsChain
<1>s. ASSUME NEW j \in Jobs, Working(j), UNCHANGED chainVars,
             st' = [st EXCEPT ![j] = "fulfilled"] \/ st' = [st EXCEPT ![j] = "rejected"]
      PROVE ChainInv'
  BY <1>0, <1>s, SettleKeepsChain DEF chainVars
<1>2. ASSUME NEW j \in Jobs, Start(j) PROVE ChainInv'
  <2>1. /\ Head(j) /\ st' = [st EXCEPT ![j] = "acquiring"] /\ UNCHANGED tail
        /\ prev' = [prev EXCEPT ![j] = None] /\ st[j] = "chained"
    BY <1>2 DEF Start, Becomes, Head
  <2>2. \A k \in Jobs : (st'[k] = st[k] /\ prev'[k] = prev[k]) \/ (k = j /\ st'[k] = "acquiring")
    BY <1>0, <2>1 DEF TypeOK
  <2>3. \A k \in Jobs : (Live(k)' <=> Live(k)) /\ (Working(k)' => Working(k) \/ Head(k))
                        /\ (st'[k] \in Settled <=> st[k] \in Settled)
    BY <2>1, <2>2 DEF Live, Working, Settled
  <2> QED
    BY <1>0, <1>t, <2>1, <2>2, <2>3, WorkKeepsChain
<1>3. ASSUME NEW j \in Jobs, Acquire(j) \/ GiveUp(j) \/ AcquireFails(j) PROVE ChainInv'
  <2>1. Working(j) /\ UNCHANGED chainVars /\ st' = [st EXCEPT ![j] = "running"]
    BY <1>3 DEF Acquire, GiveUp, AcquireFails, Becomes, Working
  <2> QED
    BY <1>w, <2>1
<1>4. ASSUME NEW j \in Jobs, Finish(j) PROVE ChainInv'
  <2>1. /\ Working(j) /\ UNCHANGED chainVars
        /\ \E s \in {"releasing", "unwinding", "fulfilled", "rejected"} : st' = [st EXCEPT ![j] = s]
    BY <1>4 DEF Finish, Becomes, Working
  <2> QED
    BY <1>w, <1>s, <2>1
<1>5. ASSUME NEW j \in Jobs, Release(j) \/ ReleaseFails(j) PROVE ChainInv'
  <2>1. /\ Working(j) /\ UNCHANGED chainVars
        /\ st' = [st EXCEPT ![j] = "fulfilled"] \/ st' = [st EXCEPT ![j] = "rejected"]
    BY <1>5 DEF Release, ReleaseFails, Ends, Becomes, Working
  <2> QED
    BY <1>s, <2>1
<1>6. ASSUME NEW j \in Jobs, Collect(j) PROVE ChainInv'
  <2>1. /\ st[j] \in {"fulfilled", "rejected"} /\ st' = [st EXCEPT ![j] = "collected"]
        /\ UNCHANGED prev
        /\ tail' = IF tail[Home[j]] = j THEN [tail EXCEPT ![Home[j]] = None] ELSE tail
    BY <1>6 DEF Collect, Becomes
  <2>2. \A k \in Jobs : st'[k] = st[k] \/ (k = j /\ st'[k] = "collected")
    BY <1>0, <2>1 DEF TypeOK
  <2>3. \A k \in Jobs : (Live(k)' <=> Live(k)) /\ (Working(k)' <=> Working(k))
                        /\ (st'[k] \in Settled <=> st[k] \in Settled)
    BY <2>1, <2>2 DEF Live, Working, Settled
  <2>4. \A k \in Jobs : Live(k) => tail[Home[k]] # j
    <3>1. \A k \in Jobs : Live(k) => Live(tail[Home[k]])
      BY DEF ChainInv, Numbered, TailIsLast
    <3> QED
      BY <2>1, <3>1 DEF Live, Working
  <2>5. \A k \in Jobs : Live(k) => tail'[Home[k]] = tail[Home[k]]
    BY <1>0, <2>1, <2>4 DEF TypeOK
  <2>6. TailIsHome'
    BY <1>0, <2>1, <2>2 DEF TailIsHome, TypeOK
  <2> QED
    BY <1>0, <2>1, <2>2, <2>3, <2>5, <2>6, WorkKeepsChain
<1>7. ASSUME NEW m \in Machines, Crash(m) PROVE ChainInv'
  <2>1. UNCHANGED prev /\ tail' = [tail EXCEPT ![m] = None]
    BY <1>7 DEF Crash
  <2>2. \A k \in Jobs : /\ Home[k] = m => st'[k] \in {"new", "gone"}
                        /\ Home[k] # m => st'[k] = st[k]
                        /\ st'[k] = "new" => st[k] = "new"
    BY <1>0, <1>7 DEF Crash, TypeOK
  <2>3. \A k \in Jobs : Live(k)' => Home[k] # m /\ tail'[Home[k]] = tail[Home[k]]
    BY <1>0, <2>1, <2>2 DEF Live, Working, TypeOK
  <2>4. \A k \in Jobs : Home[k] # m => (Live(k)' <=> Live(k)) /\ (Working(k)' <=> Working(k))
    BY <2>2 DEF Live, Working
  <2>5. \A k \in Jobs : Working(k)' => Working(k)
    BY <2>2 DEF Working
  <2>6. TailIsHome'
    BY <1>0, <2>1, <2>2 DEF TailIsHome, TypeOK
  <2>7. \A k \in Jobs : st'[k] = "chained" => st[k] = "chained"
    BY <2>2
  <2> QED
    BY <1>0, <2>1, <2>2, <2>3, <2>4, <2>5, <2>6, <2>7, WorkKeepsChain
<1>8. CASE Tick \/ UNCHANGED vars
  <2>1. UNCHANGED <<st, prev, tail>>
    BY <1>8 DEF Tick, vars, chainVars
  <2>2. \A k \in Jobs : (Live(k)' <=> Live(k)) /\ (Working(k)' <=> Working(k))
    BY <2>1 DEF Live, Working
  <2> QED
    BY <1>0, <1>t, <2>1, <2>2, WorkKeepsChain
<1> QED
  BY <1>1, <1>2, <1>3, <1>4, <1>5, <1>6, <1>7, <1>8 DEF Next, Job

\* withAccountLock excludes: turns of one account never overlap on one machine,
\* however they settle and whenever the chain's entry is collected.
THEOREM ChainCorrect == Spec => []OneTurnPerMachine
<1>1. ChainInv => OneTurnPerMachine
  <2> SUFFICES ASSUME ChainInv, NEW j \in Jobs, NEW k \in Jobs, Running(j), Running(k),
                      Home[j] = Home[k]
               PROVE j = k
    BY DEF OneTurnPerMachine
  <2>1. PICK pos : Numbered(pos)
    BY DEF ChainInv
  <2>2. Working(j) /\ Live(j) /\ Working(k) /\ Live(k)
    BY DEF Running, Working, Live
  <2>3. pos[j] <= pos[k] /\ pos[k] <= pos[j] /\ pos[j] \in Nat /\ pos[k] \in Nat
    BY <2>1, <2>2 DEF Numbered, FirstWorks
  <2> QED
    BY <2>1, <2>2, <2>3 DEF Numbered, Distinct
<1> QED
  BY ChainInit, ChainStep, <1>1, PTL DEF Spec

\* The two layers together, for any machines, jobs, durations, crashes and failed
\* queries: turns overlap only between machines, and only when one has no lease or
\* has outlasted it.
THEOREM Exclusion == Spec => []TurnsExclude
  BY LeaseCorrect, ChainCorrect, PTL DEF TurnsExclude
=============================================================================
