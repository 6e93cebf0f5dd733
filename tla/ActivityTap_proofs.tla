--------------------------- MODULE ActivityTap_proofs ---------------------------
(***************************************************************************)
(* The activity mirror, for any transcript and any number of taps, faults  *)
(* and toggles: the copy on the server goes when AFK goes off, and what a  *)
(* tap passed over while shipping is always accounted for.                 *)
(***************************************************************************)
EXTENDS ActivityTap, TLAPS

Outcomes == {"success", "lost", "retry", "poison"}

-----------------------------------------------------------------------------
(* The copy is ephemeral: the mirror only ever changes under "afk on", or in *)
(* the wipe.                                                                 *)

LEMMA SetsEphemeral ==
  ASSUME NEW on, Ephemeral, ServerSets(on)
  PROVE  Ephemeral'
  BY DEF ServerSets, Ephemeral

LEMMA StoresEphemeral ==
  ASSUME NEW row, Ephemeral, Stores(row), UNCHANGED <<orphans, serverAfk>>
  PROVE  Ephemeral'
  BY DEF Stores, Accepts, Ephemeral

LEMMA EphemeralStep == Ephemeral /\ [Next]_vars => Ephemeral'
<1> SUFFICES ASSUME Ephemeral, [Next]_vars
             PROVE  Ephemeral'
  OBVIOUS
<1>1. ASSUME UNCHANGED <<orphans, serverAfk, mirror>>
      PROVE  Ephemeral'
  BY <1>1 DEF Ephemeral
<1>2. CASE AgentWrites \/ CliToggles
  BY <1>1, <1>2 DEF AgentWrites, CliToggles, afk
<1>3. CASE DashboardToggles
  BY <1>3, SetsEphemeral DEF DashboardToggles
<1>4. CASE Syncs
  <2>1. CASE unsynced = "local"
    BY <1>4, <2>1, SetsEphemeral DEF Syncs
  <2>2. CASE unsynced # "local"
    BY <1>1, <1>4, <2>2 DEF Syncs
  <2> QED
    BY <2>1, <2>2
<1>5. ASSUME NEW p \in Taps, Start(p) \/ Dies(p) \/ Top(p) \/ Tail(p) \/ Commit(p) \/ Halt(p) \/ WriteBack(p)
      PROVE  Ephemeral'
  BY <1>1, <1>5 DEF Start, Dies, Top, Tail, Commit, Halt, WriteBack, afk
<1>6. ASSUME NEW p \in Taps, NEW enabled, NEW readable, Gate(p, enabled, readable)
      PROVE  Ephemeral'
  BY <1>1, <1>6 DEF Gate, afk
<1>7. ASSUME NEW p \in Taps, NEW row, NEW outcome \in Outcomes, Post(p, row, outcome)
      PROVE  Ephemeral'
  <2>1. UNCHANGED <<orphans, serverAfk>>
    BY <1>7 DEF Post, afk
  <2>2. Stores(row) \/ UNCHANGED mirror
    BY <1>7 DEF Post, Outcomes
  <2> QED
    BY <1>1, <2>1, <2>2, StoresEphemeral
<1>8. CASE UNCHANGED vars
  BY <1>1, <1>8 DEF vars, afk
<1> QED
  BY <1>2, <1>3, <1>4, <1>5, <1>6, <1>7, <1>8 DEF Next, Works, Fails, Outcomes

\* Once AFK is off, by whichever side, nothing of the transcript is left on the server but
\* the rows of an insert that was in the database at the wipe (repo.ts:1130-1134).
THEOREM WipeIsFinal == Spec => []Ephemeral
<1>1. Init => Ephemeral
  BY DEF Init, Ephemeral
<1> QED
  BY <1>1, EphemeralStep, PTL DEF Spec

-----------------------------------------------------------------------------
(* Nothing is passed over.  A tick carries its claim from the gate, which   *)
(* may backfill, through the tail to the commit, which moves the cursor.    *)

Batches == SUBSET (SUBSET Nat)
Tap == [pc : {"dead", "top", "gate", "tail", "commit", "post"}, cursor : Nat, lastAfk : BOOLEAN,
        on : BOOLEAN, shipping : BOOLEAN, backfill : SUBSET Nat, upto : Nat,
        rows : Batches, kept : Batches]

Types ==
  /\ localAfk \in BOOLEAN /\ serverAfk \in BOOLEAN
  /\ written \in Nat /\ cursorFile \in 0 .. written /\ outbox \in Batches
  /\ tap \in [Taps -> Tap]
  /\ \A p \in Taps : tap[p].cursor <= written /\ tap[p].upto <= written

\* Where a line that was passed over may be; a drain's rows are still in the file, or here.
Known == mirror \cup missed \cup UNION outbox
Covers(n) == Events(1 .. n) \subseteq Known

\* The edge is on; or a backfill was read; or the tail was.
Passed(p) == tap[p].lastAfk => Covers(tap[p].cursor)
Filled(p) ==
  tap[p].pc = "tail" /\ tap[p].backfill # {} =>
    tap[p].on /\ \E k \in tap[p].cursor .. written : tap[p].backfill = 0 .. k /\ Covers(k)
Tailed(p) == tap[p].pc = "commit" /\ LastAfk(tap[p]) => Covers(tap[p].upto)
Claims(p) == Passed(p) /\ Filled(p) /\ Tailed(p)
TapInv == Types /\ \A p \in Taps : Claims(p)

\* What a step may not do: lose sight of a line that was written before it.
Keeps == written' \in Nat /\ written <= written' /\ \A l \in Events(1 .. written) : l \in Known => l \in Known'

LEMMA DeadIsTap ==
  Dead \in Tap /\ ~Dead.lastAfk /\ Dead.pc = "dead" /\ Dead.cursor = 0 /\ Dead.upto = 0
  BY DEF Dead, Tap, Batches

LEMMA TypesInit == Init => Types
<1>1. [p \in Taps |-> Dead] \in [Taps -> Tap]
  BY DeadIsTap
<1> SUFFICES ASSUME Init
             PROVE  Types
  OBVIOUS
<1>2. tap \in [Taps -> Tap] /\ \A p \in Taps : tap[p].cursor <= written /\ tap[p].upto <= written
  BY <1>1, DeadIsTap DEF Init
<1>3. written \in Nat /\ cursorFile \in 0 .. written /\ outbox \in Batches
  BY DEF Init, Batches
<1> QED
  BY <1>2, <1>3 DEF Init, Types

LEMMA EventsOfLines ==
  ASSUME NEW lines
  PROVE  Events(lines) \subseteq lines
  BY DEF Events

LEMMA EventsGrow ==
  ASSUME NEW m \in Nat, NEW n \in Nat, m <= n
  PROVE  Events(1 .. m) \subseteq Events(1 .. n)
<1>1. 1 .. m \subseteq 1 .. n
  OBVIOUS
<1> QED
  BY <1>1 DEF Events

\* A batch holds the events of its lines and nothing else.
LEMMA BatchHolds ==
  ASSUME NEW lines
  PROVE  UNION Batch(lines) = Events(lines)
  BY DEF Batch

\* A tap that does not move keeps its claims.
LEMMA CoversKept ==
  ASSUME Types, Keeps, NEW n \in Nat, n <= written, Covers(n)
  PROVE  Covers(n)'
<1>1. Events(1 .. n) \subseteq Events(1 .. written)
  BY EventsGrow DEF Types
<1> QED
  BY <1>1 DEF Keeps, Covers

LEMMA TapTypes ==
  ASSUME Types, NEW p \in Taps
  PROVE  /\ tap[p] \in Tap /\ tap[p].cursor \in Nat /\ tap[p].cursor <= written
         /\ tap[p].upto \in Nat /\ tap[p].upto <= written /\ written \in Nat
  BY DEF Types, Tap

LEMMA ClaimsKept ==
  ASSUME Types, Keeps, NEW p \in Taps, Claims(p), tap'[p] = tap[p]
  PROVE  Claims(p)'
<1>1. /\ tap[p].cursor \in Nat /\ tap[p].cursor <= written
      /\ tap[p].upto \in Nat /\ tap[p].upto <= written /\ written \in Nat
  BY TapTypes
<1>2. \A n \in Nat : n <= written /\ Covers(n) => Covers(n)'
  BY CoversKept
<1>3. Passed(p)'
  BY <1>1, <1>2 DEF Claims, Passed
<1>4. Filled(p)'
  <2> SUFFICES ASSUME tap[p].pc = "tail", tap[p].backfill # {}
               PROVE  tap[p].on /\ \E k \in tap[p].cursor .. written' : tap[p].backfill = 0 .. k /\ Covers(k)'
    BY DEF Filled
  <2>1. PICK k \in tap[p].cursor .. written : tap[p].on /\ tap[p].backfill = 0 .. k /\ Covers(k)
    BY DEF Claims, Filled
  <2>2. k \in Nat /\ k <= written /\ k \in tap[p].cursor .. written'
    BY <1>1 DEF Keeps
  <2> QED
    BY <1>2, <2>1, <2>2
<1>5. Tailed(p)'
  BY <1>1, <1>2 DEF Claims, Tailed, LastAfk
<1> QED
  BY <1>3, <1>4, <1>5 DEF Claims

\* So does a tap that moves between other places of its tick, or forgets its edge.
LEMMA ClaimsMoved ==
  ASSUME Types, Keeps, NEW p \in Taps, Claims(p), tap'[p].pc \notin {"tail", "commit"},
         tap'[p].lastAfk => tap[p].lastAfk /\ tap'[p].cursor = tap[p].cursor
  PROVE  Claims(p)'
<1>1. tap[p].cursor \in Nat /\ tap[p].cursor <= written
  BY TapTypes
<1>2. Passed(p)'
  BY <1>1, CoversKept DEF Claims, Passed
<1> QED
  BY <1>2 DEF Claims, Filled, Tailed

LEMMA SetsKeeps ==
  ASSUME Types, NEW on, ServerSets(on), UNCHANGED <<written, outbox>>
  PROVE  Keeps
<1>1. mirror \cup missed \subseteq mirror' \cup missed'
  BY DEF ServerSets
<1> QED
  BY <1>1 DEF Keeps, Known, Types

LEMMA StoresKeeps ==
  ASSUME Types, NEW row, Stores(row), UNCHANGED <<written, outbox>>
  PROVE  Keeps
  BY DEF Stores, Keeps, Known, Types

\* A step that touches neither the places of a line nor the taps.
LEMMA WorldStep ==
  ASSUME TapInv, Keeps, UNCHANGED <<tap, outbox>>, cursorFile' \in 0 .. written',
         localAfk' \in BOOLEAN, serverAfk' \in BOOLEAN
  PROVE  TapInv'
<1>1. Types'
  <2>1. \A p \in Taps : tap[p].cursor <= written' /\ tap[p].upto <= written'
    BY TapTypes DEF TapInv, Keeps
  <2> QED
    BY <2>1 DEF TapInv, Types, Keeps
<1>2. \A p \in Taps : Claims(p)'
  BY ClaimsKept DEF TapInv
<1> QED
  BY <1>1, <1>2 DEF TapInv

\* A step of a tap: its own record is well-formed and its own claims hold.
LEMMA TapStep ==
  ASSUME TapInv, NEW p \in Taps, NEW t \in Tap, tap' = [tap EXCEPT ![p] = t],
         UNCHANGED <<written, localAfk, serverAfk>>, Keeps,
         t.cursor <= written, t.upto <= written, cursorFile' \in 0 .. written, outbox' \in Batches, Claims(p)'
  PROVE  TapInv'
<1>1. tap' \in [Taps -> Tap] /\ tap'[p] = t /\ \A q \in Taps : q # p => tap'[q] = tap[q]
  BY DEF TapInv, Types
<1>2. Types'
  <2>1. \A q \in Taps : tap'[q].cursor <= written /\ tap'[q].upto <= written
    BY <1>1 DEF TapInv, Types
  <2> QED
    BY <1>1, <2>1 DEF TapInv, Types
<1>3. \A q \in Taps : Claims(q)'
  BY <1>1, ClaimsKept DEF TapInv
<1> QED
  BY <1>2, <1>3 DEF TapInv

LEMMA WorldSteps ==
  ASSUME TapInv, AgentWrites \/ CliToggles \/ DashboardToggles \/ Syncs \/ UNCHANGED vars
  PROVE  TapInv'
<1>0. Types /\ written \in Nat /\ cursorFile \in 0 .. written
  BY DEF TapInv, Types
<1>1. /\ UNCHANGED <<tap, outbox, cursorFile>> /\ written' \in Nat /\ written <= written'
  BY <1>0 DEF AgentWrites, CliToggles, DashboardToggles, Syncs, vars, files
<1>2. Keeps
  <2>1. CASE UNCHANGED <<mirror, missed>>
    BY <1>1, <2>1 DEF Keeps, Known
  <2>2. CASE DashboardToggles
    BY <1>0, <1>1, <2>2, SetsKeeps DEF DashboardToggles
  <2>3. CASE Syncs /\ unsynced = "local"
    BY <1>0, <1>1, <2>3, SetsKeeps DEF Syncs
  <2> QED
    BY <2>1, <2>2, <2>3 DEF AgentWrites, CliToggles, Syncs, vars
<1>3. localAfk' \in BOOLEAN /\ serverAfk' \in BOOLEAN
  <2>1. ASSUME NEW on \in BOOLEAN, ServerSets(on)
        PROVE  serverAfk' \in BOOLEAN
    BY <2>1 DEF ServerSets
  <2>2. CASE DashboardToggles
    BY <1>0, <2>1, <2>2 DEF DashboardToggles, Types
  <2>3. CASE Syncs
    BY <1>0, <2>1, <2>3 DEF Syncs, Types
  <2> QED
    BY <1>0, <2>2, <2>3 DEF AgentWrites, CliToggles, Types, vars, afk
<1> QED
  BY <1>0, <1>1, <1>2, <1>3, WorldStep

\* The steps that move a tap and lose it nothing: it starts, ends, or yields.
LEMMA LifeStep ==
  ASSUME TapInv, NEW p \in Taps, Start(p) \/ Dies(p) \/ Top(p) \/ Halt(p)
  PROVE  TapInv'
<1>0. /\ Types /\ Claims(p) /\ tap[p] \in Tap /\ cursorFile \in 0 .. written /\ written \in Nat /\ outbox \in Batches
      /\ tap[p].cursor <= written /\ tap[p].upto <= written
  BY DEF TapInv, Types
<1>1. /\ UNCHANGED <<written, cursorFile>>
      /\ UNCHANGED <<localAfk, serverAfk>>
      /\ \/ UNCHANGED <<outbox, missed, mirror>>
         \/ Halt(p) /\ outbox' = {} /\ UNCHANGED mirror /\ missed \cup UNION outbox \subseteq missed'
  BY DEF Start, Dies, Top, Halt, files, afk
<1>2. Keeps
  BY <1>0, <1>1 DEF Keeps, Known
<1>3. PICK t \in Tap :
        /\ tap' = [tap EXCEPT ![p] = t] /\ t.cursor <= written /\ t.upto <= written
        /\ t.pc \notin {"tail", "commit"}
        /\ t.lastAfk => tap[p].lastAfk /\ t.cursor = tap[p].cursor
  <2>1. Dead \in Tap /\ ~Dead.lastAfk /\ Dead.pc = "dead" /\ Dead.cursor = 0 /\ Dead.upto = 0
    BY DeadIsTap
  <2>2. CASE tap' = [tap EXCEPT ![p] = Dead]
    <3>1. Dead.cursor <= written /\ Dead.upto <= written /\ Dead.pc \notin {"tail", "commit"}
      BY <1>0, <2>1
    <3> Dead \in Tap
      BY <2>1
    <3> WITNESS Dead \in Tap
    <3> QED
      BY <2>1, <2>2, <3>1
  <2>3. CASE Start(p)
    <3> DEFINE s == [Dead EXCEPT !.pc = "top", !.cursor = cursorFile]
    <3>1. tap' = [tap EXCEPT ![p] = s]
      BY <2>3 DEF Start
    <3>2. cursorFile \in Nat /\ cursorFile <= written
      BY <1>0
    <3>3. s \in Tap
      BY <2>1, <3>2 DEF Tap
    <3>4. s.pc = "top" /\ s.cursor = cursorFile /\ ~s.lastAfk /\ s.upto = 0
      BY DEF Dead
    <3> HIDE DEF s
    <3>5. s.cursor <= written /\ s.upto <= written /\ s.pc \notin {"tail", "commit"}
      BY <1>0, <3>2, <3>4
    <3> WITNESS s \in Tap
    <3> QED
      BY <3>1, <3>4, <3>5
  <2>4. CASE tap' = [tap EXCEPT ![p].pc = "gate"]
    <3>1. [tap[p] EXCEPT !.pc = "gate"] \in Tap
      BY <1>0 DEF Tap
    <3>2. tap' = [tap EXCEPT ![p] = [tap[p] EXCEPT !.pc = "gate"]]
      BY <2>4
    <3> QED
      BY <1>0, <3>1, <3>2 DEF Tap
  <2> QED
    BY <2>2, <2>3, <2>4 DEF Dies, Top, Halt, Goes
<1>4. tap'[p] = t
  BY <1>0, <1>3 DEF Types
<1>5. Claims(p)'
  BY <1>0, <1>2, <1>3, <1>4, ClaimsMoved
<1>6. outbox' \in Batches /\ cursorFile' \in 0 .. written
  BY <1>0, <1>1 DEF Batches
<1> QED
  BY <1>1, <1>2, <1>3, <1>5, <1>6, TapStep

\* The gate.  A backfill puts every line in the file before it forgets what was given up.
LEMMA GateStep ==
  ASSUME TapInv, NEW p \in Taps, NEW enabled \in BOOLEAN, NEW readable \in BOOLEAN, Gate(p, enabled, readable)
  PROVE  TapInv'
<1> DEFINE fills == enabled /\ localAfk /\ ~tap[p].lastAfk /\ readable
           t == [tap[p] EXCEPT !.pc = "tail", !.on = localAfk, !.shipping = enabled /\ localAfk,
                               !.backfill = IF fills THEN {0} \cup ReadNew(0) ELSE {}]
<1>0. /\ Types /\ Claims(p) /\ tap[p] \in Tap /\ cursorFile \in 0 .. written /\ written \in Nat /\ outbox \in Batches
      /\ tap[p].cursor <= written /\ tap[p].upto <= written /\ tap[p].cursor \in Nat
  BY TapTypes DEF TapInv, Types
<1>1. tap' = [tap EXCEPT ![p] = t] /\ UNCHANGED <<written, cursorFile, mirror>>
  BY DEF Gate
<1>2. {0} \cup ReadNew(0) = 0 .. written
  BY <1>0 DEF ReadNew
<1>3. UNION Batch(ReadNew(0)) = Events(1 .. written)
  BY BatchHolds DEF ReadNew
<1>4. t \in Tap /\ t.cursor = tap[p].cursor /\ t.lastAfk = tap[p].lastAfk /\ t.upto = tap[p].upto /\ t.pc = "tail"
  <2>1. {0} \cup ReadNew(0) \in SUBSET Nat
    BY <1>0, <1>2
  <2>2. (IF fills THEN {0} \cup ReadNew(0) ELSE {}) \in SUBSET Nat
    BY <2>1
  <2>3. localAfk \in BOOLEAN /\ (enabled /\ localAfk) \in BOOLEAN
    BY <1>0 DEF Types
  <2>4. t \in Tap
    BY <1>0, <2>2, <2>3 DEF Tap
  <2> QED
    BY <1>0, <2>4 DEF Tap
<1>5. t.on = localAfk /\ t.backfill = IF fills THEN 0 .. written ELSE {}
  BY <1>0, <1>2 DEF Tap
<1> HIDE DEF t
<1>6. tap'[p] = t
  BY <1>0, <1>1 DEF Types
<1>7. ASSUME fills
      PROVE  Keeps /\ outbox' \in Batches /\ Claims(p)'
  <2>1. outbox' = outbox \cup Batch(ReadNew(0))
    BY <1>7 DEF Gate
  <2>2. Covers(written)'
    BY <1>1, <1>3, <2>1 DEF Covers, Known
  <2>3. Keeps
    BY <1>0, <1>1, <2>2 DEF Covers, Keeps
  <2>4. outbox' \in Batches
    <3>1. Events(1 .. written) \in SUBSET Nat
      <4>1. Events(1 .. written) \subseteq 1 .. written
        BY EventsOfLines
      <4> QED
        BY <1>0, <4>1
    <3>2. Batch(ReadNew(0)) \in Batches
      BY <3>1 DEF Batch, Batches, ReadNew
    <3> QED
      BY <1>0, <2>1, <3>2 DEF Batches
  <2>5. Passed(p)'
    <3>1. ~t.lastAfk
      BY <1>4, <1>7
    <3> QED
      BY <1>6, <3>1 DEF Passed
  <2>6. Filled(p)'
    <3>1. t.on /\ t.backfill = 0 .. written /\ written \in t.cursor .. written
      BY <1>0, <1>4, <1>5, <1>7
    <3> QED
      BY <1>1, <1>6, <2>2, <3>1 DEF Filled
  <2>7. Tailed(p)'
    BY <1>4, <1>6 DEF Tailed
  <2> QED
    BY <2>3, <2>4, <2>5, <2>6, <2>7 DEF Claims
<1>8. ASSUME ~fills
      PROVE  Keeps /\ outbox' \in Batches /\ Claims(p)'
  <2>1. UNCHANGED <<outbox, missed>> \/ (outbox' = {} /\ missed' = missed \cup UNION outbox)
    BY <1>8 DEF Gate
  <2>2. Keeps
    BY <1>0, <1>1, <2>1 DEF Keeps, Known
  <2>3. outbox' \in Batches
    BY <1>0, <2>1 DEF Batches
  <2>4. Passed(p)'
    BY <1>0, <1>4, <1>6, <2>2, CoversKept DEF Claims, Passed
  <2>5. Filled(p)' /\ Tailed(p)'
    BY <1>4, <1>5, <1>6, <1>8 DEF Filled, Tailed
  <2> QED
    BY <2>2, <2>3, <2>4, <2>5 DEF Claims
<1>9. Keeps /\ outbox' \in Batches /\ Claims(p)'
  BY <1>7, <1>8
<1>10. UNCHANGED <<localAfk, serverAfk>>
  BY DEF Gate, afk
<1> QED
  BY <1>0, <1>1, <1>4, <1>9, <1>10, TapStep

\* The tail: the new lines go to the file or are given up; a backfill had them already, or
\* they came after it.
LEMMA TailStep ==
  ASSUME TapInv, NEW p \in Taps, Tail(p)
  PROVE  TapInv'
<1> DEFINE lines == ReadNew(tap[p].cursor)
           ships == tap[p].shipping /\ tap[p].backfill = {}
           t == [tap[p] EXCEPT !.pc = "commit", !.upto = written]
<1>0. /\ Types /\ Claims(p) /\ tap[p] \in Tap /\ cursorFile \in 0 .. written /\ written \in Nat /\ outbox \in Batches
      /\ tap[p].cursor <= written /\ tap[p].upto <= written /\ tap[p].cursor \in Nat
  BY TapTypes DEF TapInv, Types
<1>1. /\ tap' = [tap EXCEPT ![p] = t] /\ UNCHANGED <<written, cursorFile, mirror, localAfk, serverAfk>>
      /\ outbox' = (IF ships THEN outbox \cup Batch(lines) ELSE outbox)
      /\ missed' = (IF ships \/ ~tap[p].on THEN missed ELSE missed \cup (lines \ tap[p].backfill))
      /\ tap[p].pc = "tail"
  BY DEF Tail, afk
<1>2. /\ t \in Tap /\ t.cursor = tap[p].cursor /\ t.lastAfk = tap[p].lastAfk /\ t.upto = written /\ t.pc = "commit"
      /\ t.on = tap[p].on /\ t.backfill = tap[p].backfill
  BY <1>0 DEF Tap
<1> HIDE DEF t
<1>3. tap'[p] = t
  BY <1>0, <1>1 DEF Types
<1>4. lines = (tap[p].cursor + 1) .. written
  BY DEF ReadNew
<1>5. UNION Batch(lines) = Events(lines) /\ Events(lines) \subseteq lines
  BY BatchHolds, EventsOfLines
<1>6. outbox' \in Batches
  <2>1. Events(lines) \in SUBSET Nat
    <3>1. \A l \in lines : l \in Nat
      BY <1>0, <1>4
    <3> QED
      BY <1>5, <3>1
  <2>2. Batch(lines) \in Batches
    BY <2>1 DEF Batch, Batches
  <2> HIDE DEF lines, ships
  <2> QED
    BY <1>0, <1>1, <2>2 DEF Batches
<1>7. Keeps
  <2> HIDE DEF lines, ships
  <2>1. outbox \subseteq outbox' /\ missed \subseteq missed'
    BY <1>1
  <2> QED
    BY <1>0, <1>1, <2>1 DEF Keeps, Known
<1>8. ASSUME tap[p].on, NEW l \in Events(lines), l \notin tap[p].backfill
      PROVE  l \in Known'
  <2>1. l \in lines
    BY <1>5
  <2>2. CASE ships
    BY <1>1, <1>5, <2>2 DEF Known
  <2>3. CASE ~ships
    BY <1>1, <1>8, <2>1, <2>3 DEF Known
  <2> QED
    BY <2>2, <2>3
<1>9. ASSUME NEW k \in tap[p].cursor .. written, Covers(k), tap[p].on,
             (tap[p].backfill = {} /\ k = tap[p].cursor) \/ tap[p].backfill = 0 .. k
      PROVE  Covers(written)'
  <2> SUFFICES ASSUME NEW l \in Events(1 .. written)
               PROVE  l \in Known'
    BY <1>1 DEF Covers
  <2>0. l \in 1 .. written
    BY EventsOfLines
  <2>1. CASE l <= k
    <3>1. l \in 1 .. k
      BY <1>0, <2>0, <2>1
    <3>2. l \in Known
      BY <1>9, <3>1 DEF Covers, Events
    <3> QED
      BY <1>7, <3>2 DEF Keeps
  <2>2. CASE ~(l <= k)
    <3>1. l \in lines /\ l \notin tap[p].backfill
      BY <1>0, <1>4, <1>9, <2>0, <2>2
    <3>2. l \in Events(lines)
      BY <3>1 DEF Events
    <3> QED
      BY <1>8, <1>9, <3>1, <3>2
  <2> QED
    BY <2>1, <2>2
<1>10. Passed(p)'
  BY <1>0, <1>2, <1>3, <1>7, CoversKept DEF Claims, Passed
<1>11. Tailed(p)'
  <2> SUFFICES ASSUME LastAfk(t)
               PROVE  Covers(written)'
    BY <1>1, <1>2, <1>3 DEF Tailed, LastAfk, Covers
  <2>1. tap[p].on /\ (tap[p].backfill # {} \/ tap[p].lastAfk)
    BY <1>2 DEF LastAfk
  <2>2. CASE tap[p].backfill # {}
    <3>1. PICK k \in tap[p].cursor .. written : tap[p].backfill = 0 .. k /\ Covers(k)
      BY <1>0, <1>1, <2>2 DEF Claims, Filled
    <3> QED
      BY <1>9, <2>1, <3>1
  <2>3. CASE tap[p].backfill = {}
    <3>1. tap[p].cursor \in tap[p].cursor .. written /\ Covers(tap[p].cursor)
      BY <1>0, <2>1, <2>3 DEF Claims, Passed
    <3> QED
      BY <1>9, <2>1, <2>3, <3>1
  <2> QED
    BY <2>2, <2>3
<1>12. Claims(p)'
  BY <1>2, <1>3, <1>10, <1>11 DEF Claims, Filled
<1>13. t.cursor <= written /\ t.upto <= written /\ cursorFile' \in 0 .. written
  BY <1>0, <1>1, <1>2
<1> QED
  BY <1>1, <1>2, <1>6, <1>7, <1>12, <1>13, TapStep

\* The commit: what the tail covered is what the cursor now says was passed.
LEMMA CommitStep ==
  ASSUME TapInv, NEW p \in Taps, Commit(p)
  PROVE  TapInv'
<1> DEFINE rows == IF tap[p].shipping THEN outbox ELSE {}
           t == [Dead EXCEPT !.pc = IF rows = {} THEN "top" ELSE "post", !.cursor = tap[p].upto,
                             !.lastAfk = LastAfk(tap[p]), !.rows = rows]
<1>0. /\ Types /\ Claims(p) /\ tap[p] \in Tap /\ cursorFile \in 0 .. written /\ written \in Nat /\ outbox \in Batches
      /\ tap[p].cursor <= written /\ tap[p].upto <= written /\ tap[p].upto \in Nat
  BY TapTypes DEF TapInv, Types
<1>1. /\ tap' = [tap EXCEPT ![p] = t] /\ UNCHANGED <<written, outbox, mirror, missed, localAfk, serverAfk>>
      /\ cursorFile' = (IF tap[p].upto > tap[p].cursor THEN tap[p].upto ELSE cursorFile)
      /\ tap[p].pc = "commit"
  BY DEF Commit, afk
<1>2. rows \in Batches
  BY <1>0 DEF Batches
<1>3. LastAfk(tap[p]) \in BOOLEAN
  BY <1>0 DEF LastAfk, Tap
<1>4. /\ t \in Tap /\ t.cursor = tap[p].upto /\ t.lastAfk = LastAfk(tap[p]) /\ t.upto = 0
      /\ t.pc \in {"top", "post"}
  <2> HIDE DEF rows
  <2> QED
    BY <1>0, <1>2, <1>3 DEF Dead, Tap, Batches
<1> HIDE DEF t, rows
<1>5. tap'[p] = t
  BY <1>0, <1>1 DEF Types
<1>6. Keeps
  BY <1>0, <1>1 DEF Keeps, Known
<1>7. Passed(p)'
  <2>1. LastAfk(tap[p]) => Covers(tap[p].upto)
    BY <1>0, <1>1 DEF Claims, Tailed
  <2>2. Known' = Known
    BY <1>1 DEF Known
  <2> QED
    BY <1>4, <1>5, <2>1, <2>2 DEF Passed, Covers
<1>8. Claims(p)'
  BY <1>4, <1>5, <1>7 DEF Claims, Filled, Tailed
<1>9. t.cursor <= written /\ t.upto <= written /\ cursorFile' \in 0 .. written /\ outbox' \in Batches
  BY <1>0, <1>1, <1>4
<1> QED
  BY <1>1, <1>4, <1>6, <1>8, <1>9, TapStep

LEMMA PostStep ==
  ASSUME TapInv, NEW p \in Taps, NEW row \in tap[p].rows, NEW outcome \in Outcomes, Post(p, row, outcome)
  PROVE  TapInv'
<1> DEFINE kept == IF outcome \in {"lost", "retry"} THEN tap[p].kept \cup {row} ELSE tap[p].kept
           t == [tap[p] EXCEPT !.rows = tap[p].rows \ {row}, !.kept = kept]
<1>0. /\ Types /\ Claims(p) /\ tap[p] \in Tap /\ cursorFile \in 0 .. written /\ written \in Nat /\ outbox \in Batches
      /\ tap[p].cursor <= written /\ tap[p].upto <= written
  BY DEF TapInv, Types
<1>1. /\ tap' = [tap EXCEPT ![p] = t] /\ tap[p].pc = "post"
      /\ UNCHANGED <<written, cursorFile, outbox, localAfk, serverAfk>>
  BY DEF Post, afk, files
<1>2. tap[p].rows \ {row} \in Batches /\ kept \in Batches
  BY <1>0 DEF Tap, Batches
<1>3. t \in Tap /\ t.cursor = tap[p].cursor /\ t.lastAfk = tap[p].lastAfk /\ t.upto = tap[p].upto /\ t.pc = "post"
  <2> HIDE DEF kept
  <2> QED
    BY <1>0, <1>1, <1>2 DEF Tap
<1> HIDE DEF t
<1>4. tap'[p] = t
  BY <1>0, <1>1 DEF Types
<1>5. Keeps
  <2>1. CASE Stores(row)
    BY <1>0, <1>1, <2>1, StoresKeeps
  <2>2. CASE UNCHANGED mirror /\ missed \subseteq missed'
    BY <1>0, <1>1, <2>2 DEF Keeps, Known
  <2> QED
    BY <2>1, <2>2 DEF Post, Outcomes
<1>6. Claims(p)'
  BY <1>0, <1>3, <1>4, <1>5, ClaimsMoved
<1> QED
  BY <1>0, <1>1, <1>3, <1>5, <1>6, TapStep

\* A drain that writes back: what another tap appended meanwhile is given up, or stored.
LEMMA WriteBackStep ==
  ASSUME TapInv, NEW p \in Taps, WriteBack(p)
  PROVE  TapInv'
<1> DEFINE t == IF tap[p].rows = {} THEN [tap[p] EXCEPT !.pc = "top", !.kept = {}] ELSE Dead
<1>0. /\ Types /\ Claims(p) /\ tap[p] \in Tap /\ cursorFile \in 0 .. written /\ written \in Nat
      /\ tap[p].cursor <= written /\ tap[p].upto <= written
  BY DEF TapInv, Types
<1>1. /\ tap' = [tap EXCEPT ![p] = t] /\ UNCHANGED <<written, cursorFile, mirror, localAfk, serverAfk>>
      /\ outbox' = tap[p].kept \cup tap[p].rows
      /\ missed' = missed \cup ((UNION (outbox \ (tap[p].kept \cup tap[p].rows))) \ mirror)
  BY DEF WriteBack, Survivors, afk
<1>2. /\ t \in Tap /\ t.pc \in {"top", "dead"} /\ t.cursor <= written /\ t.upto <= written
      /\ t.lastAfk => tap[p].lastAfk /\ t.cursor = tap[p].cursor
  <2>1. CASE tap[p].rows = {}
    <3>1. {} \in Batches
      BY DEF Batches
    <3> QED
      BY <1>0, <2>1, <3>1 DEF Tap
  <2>2. CASE tap[p].rows # {}
    BY <1>0, <2>2, DeadIsTap
  <2> QED
    BY <2>1, <2>2
<1> HIDE DEF t
<1>3. tap'[p] = t
  BY <1>0, <1>1 DEF Types
<1>4. Keeps
  <2> SUFFICES ASSUME NEW l \in UNION outbox
               PROVE  l \in Known'
    BY <1>0, <1>1 DEF Keeps, Known
  <2>1. PICK batch \in outbox : l \in batch
    OBVIOUS
  <2>2. CASE batch \in tap[p].kept \cup tap[p].rows
    BY <1>1, <2>1, <2>2 DEF Known
  <2>3. CASE batch \notin tap[p].kept \cup tap[p].rows
    <3>1. batch \in outbox \ (tap[p].kept \cup tap[p].rows)
      BY <2>3
    <3> DEFINE over == UNION (outbox \ (tap[p].kept \cup tap[p].rows))
    <3>2. l \in over
      BY <2>1, <3>1
    <3>3. mirror' = mirror /\ missed' = missed \cup (over \ mirror)
      BY DEF WriteBack
    <3> HIDE DEF over
    <3>4. l \in mirror' \/ l \in missed'
      BY <3>2, <3>3
    <3> QED
      BY <3>4 DEF Known
  <2> QED
    BY <2>2, <2>3
<1>5. outbox' \in Batches
  BY <1>0, <1>1 DEF Tap, Batches
<1>6. Claims(p)'
  BY <1>0, <1>2, <1>3, <1>4, ClaimsMoved
<1> QED
  BY <1>0, <1>1, <1>2, <1>4, <1>5, <1>6, TapStep

LEMMA TapInvInit == Init => TapInv
<1> SUFFICES ASSUME Init
             PROVE  TapInv
  OBVIOUS
<1>1. \A p \in Taps : Claims(p)
  BY DeadIsTap DEF Init, Claims, Passed, Filled, Tailed
<1> QED
  BY <1>1, TypesInit DEF TapInv

LEMMA TapInvStep == TapInv /\ [Next]_vars => TapInv'
<1> SUFFICES ASSUME TapInv, [Next]_vars
             PROVE  TapInv'
  OBVIOUS
<1>1. CASE AgentWrites \/ CliToggles \/ DashboardToggles \/ Syncs \/ UNCHANGED vars
  BY <1>1, WorldSteps
<1>2. ASSUME NEW p \in Taps, Start(p) \/ Dies(p) \/ Top(p) \/ Halt(p)
      PROVE  TapInv'
  BY <1>2, LifeStep
<1>3. ASSUME NEW p \in Taps, NEW enabled \in BOOLEAN, NEW readable \in BOOLEAN, Gate(p, enabled, readable)
      PROVE  TapInv'
  BY <1>3, GateStep
<1>4. ASSUME NEW p \in Taps, Tail(p) \/ Commit(p) \/ WriteBack(p)
      PROVE  TapInv'
  BY <1>4, TailStep, CommitStep, WriteBackStep
<1>5. ASSUME NEW p \in Taps, NEW row \in tap[p].rows, NEW outcome \in Outcomes, Post(p, row, outcome)
      PROVE  TapInv'
  BY <1>5, PostStep
<1> QED
  BY <1>1, <1>2, <1>3, <1>4, <1>5 DEF Next, Works, Fails, Outcomes

\* What a tap passed over while shipping is on the server, in the outbox file, or in a place
\* where the code gives lines up (tap.ts:547-636), whatever it or another tap does meanwhile.
THEOREM NothingPassedOver == Spec => []Conserved
<1>1. TapInv => Conserved
  BY DEF TapInv, Claims, Passed, Covers, Known, Conserved
<1> QED
  BY <1>1, TapInvInit, TapInvStep, PTL DEF Spec
=============================================================================
