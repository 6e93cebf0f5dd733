-------------------------- MODULE DeviceOutbox_proofs --------------------------
(***************************************************************************)
(* The outbox, for any number of processes, events, drains and faults: an  *)
(* event that was raised is somewhere or was given up by name, it takes    *)
(* two writers at once to overwrite one, and a device that was switched    *)
(* off is held back in time, however slow and overlapping the look-ups.    *)
(***************************************************************************)
EXTENDS DeviceOutbox, WellFoundedInduction, TLAPS

Rows == [ev : Events, due : BOOLEAN]
Pcs == {"new", "gate", "ask", "post", "idle"}
Drain == [pc : Pcs, rows : SUBSET Rows, kept : SUBSET Rows]
Reasons == {"no", "cap", "rejected", "poison", "halt", "overwritten"}
Cache == [enabled : BOOLEAN, age : 0 .. Horizon, ok : BOOLEAN]
LookUp == [waited : 0 .. Latency, saw : SUBSET BOOLEAN]

Types ==
  /\ file \subseteq Rows
  /\ drain \in [Drains -> Drain]
  /\ stored \in [Events -> 0 .. 2]
  /\ lost \in [Events -> Reasons]
  /\ enabled \in BOOLEAN /\ since \in 0 .. Horizon /\ stop \in 0 .. Latency + 2
  /\ ask \in [Drains -> LookUp]
  /\ cache \in [Processes -> Cache]
  /\ overlap \in BOOLEAN /\ hasty \in BOOLEAN

LEMMA LesserOfTwo ==
  ASSUME NEW a \in Int, NEW b \in Int
  PROVE  Min({a, b}) = IF a <= b THEN a ELSE b
<1>1. CASE a <= b
  <2>1. a \in {a, b} /\ \A y \in {a, b} : a =< y
    BY <1>1
  <2>2. \A x \in {a, b} : (\A y \in {a, b} : x =< y) => x = a
    BY <1>1
  <2> QED
    BY <1>1, <2>1, <2>2 DEF Min
<1>2. CASE ~ (a <= b)
  <2>1. b \in {a, b} /\ \A y \in {a, b} : b =< y
    BY <1>2
  <2>2. \A x \in {a, b} : (\A y \in {a, b} : x =< y) => x = b
    BY <1>2
  <2> QED
    BY <1>2, <2>1, <2>2 DEF Min
<1> QED
  BY <1>1, <1>2

LEMMA Times ==
  /\ Latency \in Nat /\ TTL \in Nat /\ Stale \in Nat /\ Horizon \in Nat /\ Horizon = Stale + Latency
  /\ Latency < TTL /\ TTL < Stale
  BY OutboxAssumption DEF Horizon

LEMMA Ages ==
  ASSUME NEW n \in Nat, NEW t \in 0 .. n
  PROVE  Min({t + 1, n}) = (IF t < n THEN t + 1 ELSE n) /\ Min({t + 1, n}) \in 0 .. n
<1>1. Min({t + 1, n}) = IF t + 1 <= n THEN t + 1 ELSE n
  BY LesserOfTwo
<1> QED
  BY <1>1

\* The oldest row is one of the rows.
LEMMA OldestIsOne ==
  ASSUME Types, NEW d \in Drains, drain[d].rows # {}
  PROVE  Next1(d) \in drain[d].rows
<1> DEFINE T == {r.ev : r \in drain[d].rows}
<1>1. \A r \in drain[d].rows : r.ev \in Nat
  <2>1. drain[d].rows \subseteq Rows
    BY DEF Types, Drain
  <2>2. \A r \in Rows : r.ev \in Nat
    BY OutboxAssumption DEF Rows
  <2> QED
    BY <2>1, <2>2
<1>2. T \subseteq Nat /\ T # {}
  BY <1>1
<1>3. PICK t \in T : \A y \in T : ~ (<<y, t>> \in OpToRel(<, Nat))
  <2> HIDE DEF T
  <2> QED BY <1>2, NatLessThanWellFounded, WFMin
<1>4. PICK r \in drain[d].rows : r.ev = t
  BY <1>3
<1>5. \A q \in drain[d].rows : r.ev <= q.ev
  <2> TAKE q \in drain[d].rows
  <2>1. q.ev \in T /\ q.ev \in Nat /\ t \in Nat
    BY <1>1, <1>2
  <2>2. ~ (<<q.ev, t>> \in OpToRel(<, Nat))
    BY <1>3, <2>1
  <2> QED
    BY <1>4, <2>1, <2>2 DEF OpToRel
<1> QED
  BY <1>5 DEF Next1

LEMMA TypesInit == Init => Types
<1> SUFFICES ASSUME Init
             PROVE  Types
  OBVIOUS
<1>1. Idle \in Drain /\ [Idle EXCEPT !.pc = "new"] \in Drain /\ Unknown \in Cache /\ Unasked \in LookUp
  BY Times DEF Idle, Drain, Pcs, Unknown, Cache, Unasked, LookUp
<1>2. drain \in [Drains -> Drain]
  BY <1>1 DEF Init
<1>3. cache \in [Processes -> Cache]
  BY <1>1 DEF Init
<1>4. stored \in [Events -> 0 .. 2] /\ lost \in [Events -> Reasons]
  BY DEF Init, Reasons
<1>5. /\ file \subseteq Rows /\ since \in 0 .. Horizon /\ stop \in 0 .. Latency + 2
      /\ ask \in [Drains -> LookUp]
  BY <1>1, Times DEF Init
<1>6. enabled \in BOOLEAN /\ overlap \in BOOLEAN /\ hasty \in BOOLEAN
  BY DEF Init
<1> QED
  BY <1>2, <1>3, <1>4, <1>5, <1>6 DEF Types

LEMMA LoseTypes ==
  ASSUME Types, NEW events, NEW why \in Reasons, Lose(events, why)
  PROVE  /\ lost' \in [Events -> Reasons]
         /\ \A e \in Events : lost'[e] = IF e \in events THEN why ELSE lost[e]
  BY DEF Types, Lose

\* What a drain that begins has in its hands: the file, or nothing.
LEMMA GateShape ==
  ASSUME Types, NEW d \in Drains, NEW allowed, NEW limit, Gate(d, allowed, limit)
  PROVE  /\ drain' \in [Drains -> Drain] /\ overlap' \in BOOLEAN /\ hasty' \in BOOLEAN
         /\ ask' \in [Drains -> LookUp]
         /\ UNCHANGED <<file, stored, lost, enabled, since, stop, switches>>
         /\ \A x \in Drains : x # d => drain'[x] = drain[x]
         /\ overlap' = (overlap \/ Busy)
         /\ \/ drain'[d] = Idle
            \/ drain'[d].pc = "post" /\ InHand(d)' = EventsOf(file)
<1> DEFINE taken == [pc |-> "post", rows |-> {r \in file : r.due}, kept |-> {r \in file : ~r.due}]
<1>1. taken \in Drain /\ Idle \in Drain
  BY DEF Types, Drain, Pcs, Idle
<1>6. ask' \in [Drains -> LookUp]
  BY Times DEF Gate, Types, Unasked, LookUp
<1>7. hasty' \in BOOLEAN
  BY DEF Gate
<1>2. drain'[d] \in {taken, Idle} /\ \A x \in Drains : x # d => drain'[x] = drain[x]
  BY DEF Gate, Types
<1>3. drain' \in [Drains -> Drain]
  BY <1>1, <1>2 DEF Gate, Types
<1>4. taken.pc = "post" /\ taken.rows \cup taken.kept = file
  OBVIOUS
<1>5. drain'[d] = taken => InHand(d)' = EventsOf(file)
  BY <1>4 DEF InHand, EventsOf
<1> HIDE DEF taken
<1> QED
  BY <1>2, <1>3, <1>4, <1>5, <1>6, <1>7 DEF Gate, Types

LEMMA PcTypes ==
  ASSUME Types, NEW d \in Drains, NEW pc \in Pcs,
         drain' = [drain EXCEPT ![d].pc = pc]
  PROVE  /\ drain' \in [Drains -> Drain]
         /\ \A x \in Drains : x # d => drain'[x] = drain[x]
         /\ drain'[d].pc = pc /\ drain'[d].rows = drain[d].rows /\ drain'[d].kept = drain[d].kept
  BY DEF Types, Drain

LEMMA ProcessIsOne == ASSUME NEW d \in Drains PROVE ProcessOf(d) \in Processes
  BY OutboxAssumption DEF ProcessOf, Drains

\* A row that is posted leaves the rows; it may come back as one to try again.
LEMMA PostShape ==
  ASSUME Types, NEW d \in Drains, NEW answer, Post(d, answer)
  PROVE  \E r \in drain[d].rows :
           /\ r.ev \in Events
           /\ drain' \in [Drains -> Drain] /\ \A x \in Drains : x # d => drain'[x] = drain[x]
           /\ drain[d].pc = "post" /\ drain'[d].pc = "post"
           /\ InHand(d) \subseteq InHand(d)' \cup {r.ev} /\ InHand(d)' \subseteq InHand(d)
           /\ stored' \in [Events -> 0 .. 2] /\ \A e \in Events : stored[e] > 0 => stored'[e] > 0
           /\ lost' \in [Events -> Reasons]
           /\ \A e \in Events : lost'[e] = lost[e] \/ (e = r.ev /\ lost'[e] \in {"rejected", "poison"})
           /\ r.ev \in InHand(d)' \/ stored'[r.ev] > 0 \/ lost'[r.ev] # "no"
<1> DEFINE r == Next1(d)
<1>1. r \in drain[d].rows /\ drain[d].pc = "post"
  BY OldestIsOne DEF Post
<1>2. r \in Rows /\ drain[d].rows \subseteq Rows /\ drain[d].kept \subseteq Rows
  BY <1>1 DEF Types, Drain
<1>3. r.ev \in Events
  BY <1>2 DEF Rows
<1>4. /\ drain' = [drain EXCEPT ![d].rows = @ \ {r}, ![d].kept = IF Again(answer) THEN @ \cup Retried(r) ELSE @]
      /\ answer \in {"success", "rejected", "poison", "retry", "unanswered"}
      /\ stored' = IF answer \in {"success", "unanswered"} THEN [stored EXCEPT ![r.ev] = Min({@ + 1, 2})] ELSE stored
      /\ IF answer \in {"rejected", "poison"} THEN Lose({r.ev}, answer) ELSE UNCHANGED lost
  BY DEF Post
<1> HIDE DEF r
<1>5. Retried(r) \subseteq Rows /\ EventsOf(Retried(r)) = {r.ev}
  BY <1>3 DEF Retried, Rows, Row, EventsOf
<1>6. /\ drain'[d].pc = "post" /\ drain'[d].rows = drain[d].rows \ {r}
      /\ drain'[d].kept = IF Again(answer) THEN drain[d].kept \cup Retried(r) ELSE drain[d].kept
      /\ \A x \in Drains : x # d => drain'[x] = drain[x]
  BY <1>1, <1>4 DEF Types, Drain
<1>7. drain' \in [Drains -> Drain]
  <2>1. drain'[d] \in Drain
    BY <1>2, <1>4, <1>5 DEF Types, Drain
  <2> QED
    BY <1>4, <2>1 DEF Types
<1>8. InHand(d) \subseteq InHand(d)' \cup {r.ev} /\ InHand(d)' \subseteq InHand(d)
  BY <1>1, <1>5, <1>6 DEF InHand, EventsOf
<1>9. Again(answer) => r.ev \in InHand(d)'
  BY <1>5, <1>6 DEF InHand, EventsOf
<1>10. stored' \in [Events -> 0 .. 2] /\ (\A e \in Events : stored[e] > 0 => stored'[e] > 0)
       /\ (answer \in {"success", "unanswered"} => stored'[r.ev] > 0)
  <2>1. stored[r.ev] \in 0 .. 2
    BY <1>3 DEF Types
  <2>2. Min({stored[r.ev] + 1, 2}) \in 1 .. 2
    BY <2>1, LesserOfTwo
  <2>3. stored \in [Events -> 0 .. 2] /\ Min({stored[r.ev] + 1, 2}) \in 0 .. 2 /\ Min({stored[r.ev] + 1, 2}) > 0
    BY <2>2 DEF Types
  <2>4. CASE answer \in {"success", "unanswered"}
    <3>1. stored' = [stored EXCEPT ![r.ev] = Min({stored[r.ev] + 1, 2})]
      BY <1>4, <2>4
    <3> QED
      BY <1>3, <2>3, <3>1
  <2>5. CASE answer \notin {"success", "unanswered"}
    BY <1>4, <2>3, <2>5
  <2> QED
    BY <2>4, <2>5
<1>11. lost' \in [Events -> Reasons]
       /\ (\A e \in Events : lost'[e] = lost[e] \/ (e = r.ev /\ lost'[e] \in {"rejected", "poison"}))
       /\ (answer \in {"rejected", "poison"} => lost'[r.ev] # "no")
  <2>1. CASE answer \in {"rejected", "poison"}
    <3>1. answer \in Reasons /\ Lose({r.ev}, answer)
      BY <1>4, <2>1 DEF Reasons
    <3>2. lost' \in [Events -> Reasons]
          /\ \A e \in Events : lost'[e] = IF e \in {r.ev} THEN answer ELSE lost[e]
      BY <3>1, LoseTypes
    <3> QED
      BY <1>3, <2>1, <3>2
  <2>2. CASE answer \notin {"rejected", "poison"}
    BY <1>4, <2>2 DEF Types
  <2> QED
    BY <2>1, <2>2
<1>12. answer = "retry" => Again(answer)
  BY DEF Again
<1> QED
  BY <1>1, <1>3, <1>4, <1>6, <1>7, <1>8, <1>9, <1>10, <1>11, <1>12

LEMMA EventsOfUnion ==
  ASSUME NEW a, NEW b
  PROVE  EventsOf(a \cup b) = EventsOf(a) \cup EventsOf(b)
  BY DEF EventsOf

\* The due flags change, the events do not.
LEMMA BackoffShape ==
  ASSUME Types, BackoffEnds
  PROVE  /\ file' \subseteq Rows /\ EventsOf(file') = EventsOf(file)
         /\ drain' \in [Drains -> Drain]
         /\ \A d \in Drains : drain'[d].pc = drain[d].pc /\ InHand(d)' = InHand(d)
                             /\ drain'[d].rows = drain[d].rows
                             /\ (drain[d].kept = {} => drain'[d].kept = {})
<1>1. file' = {Row(r.ev, TRUE) : r \in file}
      /\ drain' = [d \in Drains |-> [drain[d] EXCEPT !.kept = {Row(r.ev, TRUE) : r \in @}]]
  BY DEF BackoffEnds
<1>2. ASSUME NEW rows, rows \subseteq Rows
      PROVE  {Row(r.ev, TRUE) : r \in rows} \subseteq Rows
             /\ EventsOf({Row(r.ev, TRUE) : r \in rows}) = EventsOf(rows)
  <2> DEFINE new == {Row(r.ev, TRUE) : r \in rows}
  <2>1. \A r \in rows : r.ev \in Events /\ Row(r.ev, TRUE) \in Rows /\ Row(r.ev, TRUE).ev = r.ev
    BY <1>2 DEF Rows, Row
  <2>2. new \subseteq Rows
    BY <2>1
  <2>3. \A q \in new : \E r \in rows : q.ev = r.ev
    BY <2>1
  <2>4. \A r \in rows : \E q \in new : q.ev = r.ev
    BY <2>1
  <2> HIDE DEF new
  <2>5. EventsOf(new) = EventsOf(rows)
    BY <2>3, <2>4 DEF EventsOf
  <2> QED
    BY <2>2, <2>5 DEF new
<1>3. ASSUME NEW d \in Drains
      PROVE  /\ drain'[d] \in Drain
             /\ drain'[d].pc = drain[d].pc /\ drain'[d].rows = drain[d].rows
             /\ drain'[d].kept = {Row(r.ev, TRUE) : r \in drain[d].kept}
  <2>1. drain[d] \in Drain /\ drain[d].kept \subseteq Rows
    BY DEF Types, Drain
  <2>2. {Row(r.ev, TRUE) : r \in drain[d].kept} \subseteq Rows
    BY <1>2, <2>1
  <2> DEFINE k == {Row(r.ev, TRUE) : r \in drain[d].kept}
  <2>3. drain'[d] = [drain[d] EXCEPT !.kept = k]
    BY <1>1
  <2> HIDE DEF k
  <2>4. drain'[d] \in Drain /\ drain'[d].pc = drain[d].pc /\ drain'[d].rows = drain[d].rows /\ drain'[d].kept = k
    BY <2>1, <2>2, <2>3 DEF Drain, k
  <2> QED
    BY <2>4 DEF k
<1>4. ASSUME NEW d \in Drains
      PROVE  InHand(d)' = InHand(d)
  <2>1. drain[d].kept \subseteq Rows
    BY DEF Types, Drain
  <2>2. EventsOf(drain'[d].kept) = EventsOf(drain[d].kept)
    BY <1>2, <1>3, <2>1
  <2>3. InHand(d)' = EventsOf(drain'[d].rows) \cup EventsOf(drain'[d].kept)
    BY EventsOfUnion DEF InHand
  <2>4. InHand(d) = EventsOf(drain[d].rows) \cup EventsOf(drain[d].kept)
    BY EventsOfUnion DEF InHand
  <2>5. drain'[d].rows = drain[d].rows
    BY <1>3
  <2> QED
    BY <2>2, <2>3, <2>4, <2>5
<1>5. drain' \in [Drains -> Drain]
  BY <1>1, <1>3
<1>6. file' \subseteq Rows /\ EventsOf(file') = EventsOf(file)
  BY <1>1, <1>2 DEF Types
<1> QED
  BY <1>3, <1>4, <1>5, <1>6

LEMMA TypesStep == Types /\ [Next]_vars => Types'
<1> SUFFICES ASSUME Types, [Next]_vars
             PROVE  Types'
  OBVIOUS
<1>0. /\ Idle \in Drain /\ Unknown \in Cache /\ Unasked \in LookUp
      /\ {"gate", "ask"} \subseteq Pcs /\ {"cap", "halt", "overwritten"} \subseteq Reasons
      /\ Events \subseteq Drains /\ Processes \subseteq Drains
  <2>1. Unknown \in Cache /\ Unasked \in LookUp
    BY Times DEF Unknown, Cache, Unasked, LookUp
  <2>3. Idle \in Drain /\ {"gate", "ask"} \subseteq Pcs
    BY DEF Idle, Drain, Pcs
  <2>4. {"cap", "halt", "overwritten"} \subseteq Reasons /\ Events \subseteq Drains /\ Processes \subseteq Drains
    BY DEF Reasons, Drains
  <2> QED
    BY <2>1, <2>3, <2>4
<1>1. ASSUME NEW e \in Events, Emit(e)
      PROVE  Types'
  <2>1. drain' \in [Drains -> Drain]
    BY <1>0, <1>1, PcTypes DEF Emit
  <2>2. file' \subseteq Rows
    <3>1. Row(e, TRUE) \in Rows
      BY DEF Row, Rows
    <3>2. file' \subseteq file \cup {Row(e, TRUE)}
      BY <1>1 DEF Emit, Capped
    <3> QED
      BY <3>1, <3>2 DEF Types
  <2>3. lost' \in [Events -> Reasons]
    BY <1>0, <1>1, LoseTypes DEF Emit
  <2>4. overlap' \in BOOLEAN
    BY <1>1 DEF Emit
  <2> QED
    BY <1>1, <2>1, <2>2, <2>3, <2>4 DEF Emit, Types, kill
<1>2. ASSUME NEW p \in Processes, Beat(p)
      PROVE  Types'
  <2>1. drain' \in [Drains -> Drain]
    BY <1>0, <1>2, PcTypes DEF Beat
  <2> QED
    BY <1>2, <2>1 DEF Beat, Types, kill
<1>3. CASE BackoffEnds
  BY <1>3, BackoffShape DEF BackoffEnds, Types, kill
<1>4. CASE Switch
  <2>1. \A d \in Drains : [ask[d] EXCEPT !.saw = BOOLEAN] \in LookUp /\ ask[d] \in LookUp
    BY DEF Types, LookUp
  <2>2. ask' \in [Drains -> LookUp]
    BY <1>4, <2>1 DEF Switch, Types
  <2>4. {0, 1} \subseteq 0 .. Latency + 2 /\ 0 \in 0 .. Horizon
    BY Times
  <2>3. enabled' \in BOOLEAN /\ since' \in 0 .. Horizon /\ stop' \in 0 .. Latency + 2
    BY <1>4, <2>4 DEF Switch, Types
  <2> QED
    BY <1>4, <2>2, <2>3 DEF Switch, Types
<1>5. CASE Tick
  <2>1. since' \in 0 .. Horizon /\ stop' \in 0 .. Latency + 2
    <3>1. Min({since + 1, Horizon}) \in 0 .. Horizon /\ Min({stop + 1, Latency + 2}) \in 0 .. Latency + 2
      BY Ages, Times DEF Types
    <3> QED
      BY <1>5, <3>1, Times DEF Tick, Older
  <2>2. ASSUME NEW p \in Processes
        PROVE  [cache[p] EXCEPT !.age = Older(@)] \in Cache
    <3>1. cache[p].age \in 0 .. Horizon /\ cache[p] \in Cache
      BY DEF Types, Cache
    <3>2. Older(cache[p].age) \in 0 .. Horizon
      BY <3>1, Ages, Times DEF Older
    <3> QED
      BY <3>1, <3>2 DEF Cache
  <2>3. cache' \in [Processes -> Cache]
    BY <1>5, <2>2 DEF Tick
  <2>4. ASSUME NEW d \in Asking
        PROVE  [ask[d] EXCEPT !.waited = @ + 1] \in LookUp
    <3>1. ask[d] \in LookUp /\ ask[d].waited < Latency
      BY <1>5, <2>4 DEF Tick, Types, Asking
    <3> QED
      BY <3>1, Times DEF LookUp
  <2>5. ask' \in [Drains -> LookUp]
    BY <1>5, <2>4 DEF Tick, Types
  <2> QED
    BY <1>5, <2>1, <2>3, <2>5 DEF Tick, Types
<1>6. ASSUME NEW d \in Drains, Stopped(d) \/ Cached(d)
      PROVE  Types'
  <2>1. PICK allowed, limit : Gate(d, allowed, limit) /\ UNCHANGED cache
    BY <1>6 DEF Stopped, Cached
  <2> QED
    BY <2>1, GateShape DEF Types
<1>14. ASSUME NEW d \in Drains, Ask(d)
       PROVE  Types'
  <2>1. drain' \in [Drains -> Drain]
    BY <1>0, <1>14, PcTypes DEF Ask
  <2>2. [ask[d] EXCEPT !.saw = {enabled}] \in LookUp
    BY DEF Types, LookUp
  <2>3. ask' \in [Drains -> LookUp]
    BY <1>14, <2>2 DEF Ask, Types
  <2> QED
    BY <1>14, <2>1, <2>3 DEF Ask, Types
<1>7. ASSUME NEW d \in Drains, Fetched(d)
      PROVE  Types'
  <2>1. PICK on \in ask[d].saw : /\ Gate(d, on, TTL)
             /\ cache' = [cache EXCEPT ![ProcessOf(d)] = [enabled |-> on, age |-> ask[d].waited, ok |-> TRUE]]
    BY <1>7 DEF Fetched, Stamp
  <2>2. [enabled |-> on, age |-> ask[d].waited, ok |-> TRUE] \in Cache
    BY Times DEF Cache, Types, LookUp
  <2>3. cache' \in [Processes -> Cache]
    BY <2>1, <2>2 DEF Types
  <2> QED
    BY <2>1, <2>3, GateShape DEF Types
<1>8. ASSUME NEW d \in Drains, FetchFails(d)
      PROVE  Types'
  <2>1. PICK allowed, limit : Gate(d, allowed, limit)
    BY <1>8 DEF FetchFails
  <2>2. [Unknown EXCEPT !.age = ask[d].waited] \in Cache
    <3>1. ask[d].waited \in 0 .. Horizon
      BY Times DEF Types, LookUp
    <3> QED
      BY <3>1, <1>0 DEF Cache
  <2>3. cache' \in [Processes -> Cache]
    BY <1>8, <2>2 DEF FetchFails, Types
  <2> QED
    BY <2>1, <2>3, GateShape DEF Types
<1>9. ASSUME NEW d \in Drains, NEW answer, Post(d, answer)
      PROVE  Types'
  <2>1. drain' \in [Drains -> Drain] /\ stored' \in [Events -> 0 .. 2] /\ lost' \in [Events -> Reasons]
    BY <1>9, PostShape
  <2> QED
    BY <1>9, <2>1 DEF Post, Types, kill
<1>10. ASSUME NEW d \in Drains, Halt(d)
       PROVE  Types'
  <2>1. drain' \in [Drains -> Drain]
    BY <1>0, <1>10 DEF Halt, Types
  <2>2. lost' \in [Events -> Reasons]
    BY <1>0, <1>10, LoseTypes DEF Halt
  <2> QED
    BY <1>10, <2>1, <2>2 DEF Halt, Types, kill
<1>11. ASSUME NEW d \in Drains, Rewrite(d)
       PROVE  Types'
  <2>1. drain' \in [Drains -> Drain] /\ file' \subseteq Rows
    BY <1>0, <1>11 DEF Rewrite, Types, Drain
  <2>2. lost' \in [Events -> Reasons]
    BY <1>0, <1>11, LoseTypes DEF Rewrite
  <2> QED
    BY <1>11, <2>1, <2>2 DEF Rewrite, Types, kill
<1>12. ASSUME NEW p \in Processes, Crash(p)
       PROVE  Types'
  <2>1. drain' \in [Drains -> Drain]
    BY <1>0, <1>12 DEF Crash, Types
  <2>2. cache' \in [Processes -> Cache]
    BY <1>0, <1>12 DEF Crash, Types
  <2>3. lost' \in [Events -> Reasons]
    BY <1>0, <1>12, LoseTypes DEF Crash
  <2>4. ask' \in [Drains -> LookUp]
    BY <1>0, <1>12 DEF Crash, Types
  <2> QED
    BY <1>12, <2>1, <2>2, <2>3, <2>4 DEF Crash, Types
<1>13. CASE UNCHANGED vars
  BY <1>13 DEF vars, kill, Types
<1> QED
  BY <1>1, <1>2, <1>3, <1>4, <1>5, <1>6, <1>7, <1>8, <1>9, <1>10, <1>11, <1>12, <1>13, <1>14
  DEF Next, Others, Goes, Decides

-----------------------------------------------------------------------------
(* The killswitch. *)

\* An answer that is no longer true, in a cache or on its way, was true when the device was
\* switched or later; and a look-up began before .disabled was there.
RecentAsk(d) == (ask[d].saw # {enabled} => since <= ask[d].waited) /\ stop <= ask[d].waited + 1

Recent ==
  /\ \A p \in Processes : cache[p].ok /\ cache[p].enabled # enabled => since <= cache[p].age
  /\ \A d \in Asking : RecentAsk(d)

LEMMA CacheStep ==
  ASSUME Types, Recent, [Next]_vars, NEW q \in Processes, cache'[q].ok, cache'[q].enabled # enabled'
  PROVE  since' <= cache'[q].age
<1>0. cache[q].age \in 0 .. Horizon /\ since \in 0 .. Horizon /\ cache[q] \in Cache
  BY DEF Types, Cache
<1>1. CASE Switch
  BY <1>0, <1>1, Times DEF Switch, Recent
<1>2. CASE Tick
  <2>1. /\ since' = IF enabled THEN 0 ELSE Older(since)
        /\ cache'[q].age = Older(cache[q].age)
        /\ cache'[q].ok = cache[q].ok /\ cache'[q].enabled = cache[q].enabled /\ enabled' = enabled
    BY <1>0, <1>2 DEF Tick, Cache
  <2>2. /\ Older(since) = IF since < Horizon THEN since + 1 ELSE Horizon
        /\ Older(cache[q].age) = IF cache[q].age < Horizon THEN cache[q].age + 1 ELSE Horizon
    BY <1>0, Ages, Times DEF Older
  <2>3. since <= cache[q].age
    BY <2>1 DEF Recent
  <2> QED
    BY <1>0, <2>1, <2>2, <2>3, Times
<1>3. ASSUME NEW d \in Drains, Fetched(d)
      PROVE  since' <= cache'[q].age
  <2>1. PICK on \in ask[d].saw : /\ Gate(d, on, TTL)
             /\ cache' = [cache EXCEPT ![ProcessOf(d)] = [enabled |-> on, age |-> ask[d].waited, ok |-> TRUE]]
    BY <1>3 DEF Fetched, Stamp
  <2>2. d \in Asking /\ UNCHANGED <<enabled, since>>
    BY <1>3, <2>1 DEF Fetched, Asking, Gate
  <2>3. CASE q = ProcessOf(d)
    <3>2. on # enabled => ask[d].saw # {enabled}
      OBVIOUS
    <3>1. cache'[q].enabled = on /\ cache'[q].age = ask[d].waited
      BY <2>1, <2>3 DEF Types
    <3> QED
      BY <2>2, <3>1, <3>2 DEF Recent, RecentAsk
  <2>4. CASE q # ProcessOf(d)
    BY <2>1, <2>2, <2>4 DEF Types, Recent
  <2> QED
    BY <2>3, <2>4
<1>4. ASSUME NEW d \in Drains, FetchFails(d)
      PROVE  since' <= cache'[q].age
  <2>1. UNCHANGED <<enabled, since>>
        /\ (cache' = cache \/ cache' = [cache EXCEPT ![ProcessOf(d)] = [Unknown EXCEPT !.age = ask[d].waited]])
    BY <1>4 DEF FetchFails, Gate
  <2>2. cache'[q] = cache[q]
    BY <2>1 DEF Types, Unknown
  <2> QED
    BY <2>1, <2>2 DEF Recent
<1>5. ASSUME NEW p \in Processes, Crash(p)
      PROVE  since' <= cache'[q].age
  <2>1. UNCHANGED <<enabled, since>> /\ cache' = [cache EXCEPT ![p] = Unknown]
    BY <1>5 DEF Crash
  <2>2. cache'[q] = cache[q]
    BY <2>1 DEF Types, Unknown
  <2> QED
    BY <2>1, <2>2 DEF Recent
<1>6. UNCHANGED <<enabled, since, cache>> => since' <= cache'[q].age
  BY DEF Recent
<1> QED
  BY <1>1, <1>2, <1>3, <1>4, <1>5, <1>6
  DEF Next, Others, Goes, Decides, Emit, Beat, BackoffEnds, Stopped, Cached, Ask, Gate, Post, Halt, Rewrite,
      vars, kill

\* What a look-up may answer, and how long it has waited, step by step.
LEMMA AskStep ==
  ASSUME Types, Recent, [Next]_vars, NEW x \in Drains, drain'[x].pc = "ask"
  PROVE  RecentAsk(x)'
<1>0. ask[x] \in LookUp /\ ask[x].waited \in 0 .. Latency /\ since \in 0 .. Horizon /\ stop \in 0 .. Latency + 2
  BY DEF Types, LookUp
<1>15. x \in Asking => RecentAsk(x)
  BY DEF Recent
<1>5. ASSUME x \in Asking, ask'[x] = ask[x], UNCHANGED <<stop, enabled, since>>
      PROVE  RecentAsk(x)'
  BY <1>5, <1>15 DEF RecentAsk
<1>1. CASE Switch
  <2>1. x \in Asking /\ ask'[x].waited = ask[x].waited
    BY <1>0, <1>1 DEF Switch, Asking, LookUp, Types
  <2>2. CASE enabled' = ~enabled /\ since' = 0 /\ UNCHANGED stop
    <3>1. 0 <= ask[x].waited /\ stop <= ask[x].waited + 1
      BY <1>0, <1>15, <2>1, Times DEF RecentAsk
    <3> QED
      BY <2>1, <2>2, <3>1 DEF RecentAsk
  <2>3. CASE stop' = (IF stop = 0 THEN 1 ELSE 0) /\ UNCHANGED <<enabled, since, ask>>
    <3>1. stop' <= ask[x].waited + 1
      BY <1>0, <2>3, Times
    <3> QED
      BY <1>15, <2>1, <2>3, <3>1 DEF RecentAsk
  <2> QED
    BY <1>1, <2>2, <2>3 DEF Switch
<1>2. CASE Tick
  <2>1. x \in Asking /\ ask'[x].waited = ask[x].waited + 1 /\ ask'[x].saw = ask[x].saw
    BY <1>0, <1>2 DEF Tick, Asking, LookUp, Types
  <2>2. /\ since' = IF enabled THEN 0 ELSE Older(since)
        /\ stop' = IF stop = 0 THEN 0 ELSE Min({stop + 1, Latency + 2})
    BY <1>2 DEF Tick
  <2>8. enabled' = enabled
    BY <1>2 DEF Tick
  <2>3. /\ Older(since) = IF since < Horizon THEN since + 1 ELSE Horizon
        /\ Min({stop + 1, Latency + 2}) = IF stop < Latency + 2 THEN stop + 1 ELSE Latency + 2
    BY <1>0, Ages, Times DEF Older
  <2>4. stop <= ask[x].waited + 1 /\ (ask[x].saw # {enabled} => since <= ask[x].waited)
    BY <1>15, <2>1 DEF RecentAsk
  <2>5. stop' <= ask'[x].waited + 1
    <3>1. stop <= ask[x].waited + 1
      BY <2>4
    <3>2. stop' \in Int /\ stop' <= stop + 1
      BY <1>0, <2>2, <2>3, Times
    <3>3. stop \in Int /\ ask[x].waited \in Int
      BY <1>0, Times
    <3>4. stop' <= ask[x].waited + 1 + 1
      BY <3>1, <3>2, <3>3
    <3> QED
      BY <2>1, <3>4
  <2>7. since <= ask[x].waited => since' <= ask'[x].waited
    BY <1>0, <2>1, <2>2, <2>3, Times
  <2>6. ask'[x].saw # {enabled'} => since' <= ask'[x].waited
    BY <2>1, <2>4, <2>7, <2>8
  <2> QED
    BY <2>5, <2>6 DEF RecentAsk
<1>3. ASSUME NEW d \in Drains, Ask(d)
      PROVE  RecentAsk(x)'
  <2>1. CASE x = d
    <3>1. ask'[x].saw = {enabled} /\ ask'[x].waited = ask[x].waited /\ stop' = 0 /\ enabled' = enabled
      BY <1>0, <1>3, <2>1 DEF Ask, Types, LookUp
    <3> QED
      BY <1>0, <3>1, Times DEF RecentAsk
  <2>2. CASE x # d
    <3>1. x \in Asking /\ ask'[x] = ask[x] /\ UNCHANGED <<stop, enabled, since>>
      BY <1>3, <2>2 DEF Ask, Types, Asking
    <3> QED
      BY <1>5, <3>1
  <2> QED
    BY <2>1, <2>2
<1>4. ASSUME NEW d \in Drains, NEW allowed, NEW limit, Gate(d, allowed, limit)
      PROVE  RecentAsk(x)'
  <2>1. x # d /\ drain'[x] = drain[x]
    BY <1>4, GateShape DEF Idle
  <2>2. x \in Asking /\ ask'[x] = ask[x] /\ UNCHANGED <<stop, enabled, since>>
    BY <1>4, <2>1 DEF Gate, Types, Asking
  <2> QED
    BY <1>5, <2>2
<1>6. UNCHANGED kill /\ drain'[x].pc = drain[x].pc => RecentAsk(x)'
  BY <1>5 DEF kill, Asking
<1>7. ASSUME NEW p \in Processes, Crash(p)
      PROVE  RecentAsk(x)'
  <2>1. drain'[x] = drain[x] /\ ProcessOf(x) # p
    BY <1>7 DEF Crash, Idle
  <2>2. x \in Asking /\ ask'[x] = ask[x] /\ UNCHANGED <<stop, enabled, since>>
    BY <1>7, <2>1 DEF Crash, Asking
  <2> QED
    BY <1>5, <2>2
<1>8. ASSUME NEW d \in Drains, NEW answer, Post(d, answer)
      PROVE  UNCHANGED kill /\ drain'[x].pc = drain[x].pc
  <2>1. drain'[d].pc = drain[d].pc /\ \A y \in Drains : y # d => drain'[y] = drain[y]
    BY <1>8, PostShape
  <2> QED
    BY <1>8, <2>1 DEF Post
<1>9. ASSUME NEW d \in Drains, Halt(d) \/ Rewrite(d)
      PROVE  UNCHANGED kill /\ drain'[x].pc = drain[x].pc
  BY <1>9 DEF Halt, Rewrite, Types, Idle
<1>10. ASSUME NEW e \in Events, Emit(e)
       PROVE  UNCHANGED kill /\ drain'[x].pc = drain[x].pc
  BY <1>10 DEF Emit, Types, Drain, Drains
<1>11. ASSUME NEW p \in Processes, Beat(p)
       PROVE  UNCHANGED kill /\ drain'[x].pc = drain[x].pc
  BY <1>11 DEF Beat, Types, Drain, Drains
<1>12. BackoffEnds => UNCHANGED kill /\ drain'[x].pc = drain[x].pc
  BY BackoffShape DEF BackoffEnds
<1>13. UNCHANGED vars => UNCHANGED kill /\ drain'[x].pc = drain[x].pc
  BY DEF vars
<1>14. \A d \in Drains : Stopped(d) \/ Cached(d) \/ Fetched(d) \/ FetchFails(d)
                          => \E allowed, limit : Gate(d, allowed, limit)
  BY DEF Stopped, Cached, Fetched, FetchFails
<1> QED
  BY <1>1, <1>2, <1>3, <1>4, <1>6, <1>7, <1>8, <1>9, <1>10, <1>11, <1>12, <1>13, <1>14
  DEF Next, Others, Goes, Decides

LEMMA RecentStep == Types /\ Recent /\ [Next]_vars => Recent'
<1> SUFFICES ASSUME Types, Recent, [Next]_vars
             PROVE  Recent'
  OBVIOUS
<1>1. \A p \in Processes : cache'[p].ok /\ cache'[p].enabled # enabled' => since' <= cache'[p].age
  BY CacheStep
<1>2. \A x \in Drains : drain'[x].pc = "ask" => RecentAsk(x)'
  BY AskStep
<1>3. \A x \in Asking' : RecentAsk(x)'
  BY <1>2 DEF Asking
<1> QED
  BY <1>1, <1>3 DEF Recent

\* A drain that begins in time is not hasty.
LEMMA InTime ==
  ASSUME Types, DisableTakesHold, NEW d \in Drains, NEW allowed, NEW limit \in Nat, Gate(d, allowed, limit),
         stop <= Latency + 1, allowed /\ ~enabled => since < limit
  PROVE  DisableTakesHold'
<1>1. stop \in Nat /\ since \in Nat /\ Latency \in Nat
  BY Times DEF Types
<1>2. ~ (stop > Latency + 1) /\ (since < limit => ~ (since >= limit))
  BY <1>1
<1> QED
  BY <1>2 DEF Gate, DisableTakesHold

LEMMA HoldStep == Types /\ Recent /\ DisableTakesHold /\ [Next]_vars => DisableTakesHold'
<1> SUFFICES ASSUME Types, Recent, DisableTakesHold, [Next]_vars
             PROVE  DisableTakesHold'
  OBVIOUS
<1>0. since \in 0 .. Horizon /\ enabled \in BOOLEAN
  BY DEF Types
<1>1. ASSUME NEW d \in Drains, Stopped(d)
      PROVE  DisableTakesHold'
  BY <1>1 DEF Stopped, Gate, DisableTakesHold
<1>2. ASSUME NEW d \in Drains, Cached(d)
      PROVE  DisableTakesHold'
  <2> DEFINE c == cache[ProcessOf(d)]
  <2>1. c.ok /\ c.age < TTL /\ stop = 0 /\ Gate(d, c.enabled, TTL)
    BY <1>2 DEF Cached, Fresh
  <2>2. c.age \in 0 .. Horizon /\ c.enabled \in BOOLEAN
    BY ProcessIsOne DEF Types, Cache
  <2>3. c.ok /\ c.enabled # enabled => since <= c.age
    BY ProcessIsOne DEF Recent
  <2> HIDE DEF c
  <2>4. c.enabled /\ ~enabled => since <= c.age
    BY <1>0, <2>1, <2>2, <2>3, Zenon
  <2>5. c.enabled /\ ~enabled => since < TTL
    BY <1>0, <2>1, <2>2, <2>4, Times
  <2> QED
    BY <2>1, <2>5, InTime, Times
<1>3. ASSUME NEW d \in Drains, Fetched(d)
      PROVE  DisableTakesHold'
  <2>1. PICK on \in ask[d].saw : Gate(d, on, TTL)
    BY <1>3 DEF Fetched
  <2>2. d \in Asking /\ ask[d].waited \in 0 .. Latency /\ on \in BOOLEAN
    BY <1>3 DEF Fetched, Asking, Types, LookUp
  <2>6. on # enabled => ask[d].saw # {enabled}
    OBVIOUS
  <2>3. stop <= ask[d].waited + 1 /\ (on # enabled => since <= ask[d].waited)
    BY <2>2, <2>6 DEF Recent, RecentAsk
  <2>4. on /\ ~enabled => since <= ask[d].waited
    BY <1>0, <2>2, <2>3, Zenon
  <2>5. stop <= Latency + 1 /\ (on /\ ~enabled => since < TTL)
    BY <1>0, <2>2, <2>3, <2>4, Times DEF Types
  <2> QED
    BY <2>1, <2>5, InTime, Times
<1>4. ASSUME NEW d \in Drains, FetchFails(d)
      PROVE  DisableTakesHold'
  <2> DEFINE c == cache[ProcessOf(d)]
             known == c.age - ask[d].waited < Stale
  <2>1. Gate(d, known => c.enabled, IF known /\ c.ok THEN Horizon ELSE Horizon + 1)
    BY <1>4 DEF FetchFails
  <2>2. d \in Asking /\ ask[d].waited \in 0 .. Latency
    BY <1>4 DEF FetchFails, Asking, Types, LookUp
  <2>3. c.age \in 0 .. Horizon /\ c.enabled \in BOOLEAN
    BY ProcessIsOne DEF Types, Cache
  <2>8. stop <= ask[d].waited + 1
    BY <2>2 DEF Recent, RecentAsk
  <2>9. c.ok /\ c.enabled # enabled => since <= c.age
    BY ProcessIsOne DEF Recent
  <2>4. stop <= ask[d].waited + 1 /\ (c.ok /\ c.enabled # enabled => since <= c.age)
    BY <2>8, <2>9
  <2>5. stop <= Latency + 1
    BY <2>2, <2>4, Times DEF Types
  <2> HIDE DEF c
  <2>6. CASE known /\ c.ok
    <3>1. c.enabled /\ ~enabled => since <= c.age
      BY <1>0, <2>3, <2>4, <2>6, Zenon
    <3>2. c.age < Horizon
      BY <2>2, <2>3, <2>6, Times
    <3>3. c.enabled /\ ~enabled => since < Horizon
      BY <1>0, <2>3, <3>1, <3>2, Times
    <3>4. Gate(d, known => c.enabled, Horizon) /\ ((known => c.enabled) => c.enabled)
      BY <2>1, <2>6
    <3> HIDE DEF known
    <3> QED
      BY <2>5, <3>3, <3>4, InTime, Times
  <2>7. CASE ~ (known /\ c.ok)
    <3>1. since < Horizon + 1 /\ Horizon + 1 \in Nat
      BY <1>0, Times
    <3>2. Gate(d, known => c.enabled, Horizon + 1)
      BY <2>1, <2>7
    <3> HIDE DEF known
    <3> QED
      BY <2>5, <3>1, <3>2, InTime
  <2> QED
    BY <2>6, <2>7
<1>5. UNCHANGED hasty => DisableTakesHold'
  BY DEF DisableTakesHold
<1> QED
  BY <1>1, <1>2, <1>3, <1>4, <1>5
  DEF Next, Others, Goes, Decides, Emit, Beat, BackoffEnds, Switch, Tick, Ask, Post, Halt, Rewrite, Crash,
      vars, kill

-----------------------------------------------------------------------------
(* Conservation. *)

\* Only a drain that posts has rows in its hands.
EmptyHands == \A d \in Drains : drain[d].pc # "post" => InHand(d) = {}

Accounted(e) == stored[e] > 0 \/ lost[e] # "no" \/ e \in EventsOf(file) \/ \E d \in Drains : e \in InHand(d)
Held == \A e \in Events : drain[e].pc # "new" => Accounted(e)

\* As long as no two writers met, one drain at a time is posting, it holds what is in the
\* file but for what it has dealt with, and nothing was overwritten.
Single ==
  ~overlap =>
    /\ \A c, d \in Drains : drain[c].pc = "post" /\ drain[d].pc = "post" => c = d
    /\ \A d \in Drains : drain[d].pc = "post" =>
         /\ InHand(d) \subseteq EventsOf(file)
         /\ \A e \in Events : e \in EventsOf(file) => e \in InHand(d) \/ stored[e] > 0 \/ lost[e] # "no"
    /\ \A e \in Events : lost[e] # "overwritten"

Conserves == EmptyHands /\ Held /\ Single

LEMMA EmitConserves ==
  ASSUME Types, Conserves, NEW e \in Events, Emit(e)
  PROVE  Conserves'
<1> DEFINE rows == file \cup {Row(e, TRUE)}
<1>1. /\ drain[e].pc = "new" /\ file' = Capped(rows) /\ Lose(EventsOf(rows \ Capped(rows)), "cap")
      /\ drain' = [drain EXCEPT ![e].pc = "gate"] /\ overlap' = (overlap \/ Busy) /\ UNCHANGED stored
  BY DEF Emit
<1>2. /\ \A x \in Drains : x # e => drain'[x] = drain[x]
      /\ drain'[e].pc = "gate" /\ drain'[e].rows = drain[e].rows /\ drain'[e].kept = drain[e].kept
  BY <1>1, PcTypes DEF Drains, Pcs
<1>3. \A d \in Drains : InHand(d)' = InHand(d)
  BY <1>2 DEF InHand
<1>4. \A x \in Events : lost'[x] = (IF x \in EventsOf(rows \ Capped(rows)) THEN "cap" ELSE lost[x])
  BY <1>1, LoseTypes DEF Reasons
<1>5. \A x \in EventsOf(rows) : x \in EventsOf(file') \/ x \in EventsOf(rows \ Capped(rows))
  BY <1>1 DEF EventsOf
<1>6. e \in EventsOf(rows) /\ EventsOf(file) \subseteq EventsOf(rows)
  <2>1. Row(e, TRUE) \in rows /\ Row(e, TRUE).ev = e /\ file \subseteq rows
    BY DEF Row
  <2> HIDE DEF rows
  <2> QED
    BY <2>1 DEF EventsOf
<1> HIDE DEF rows
<1>7. EmptyHands'
  <2>1. \A d \in Drains : drain'[d].pc # "post" => drain[d].pc # "post"
    BY <1>1, <1>2
  <2> QED
    BY <1>3, <2>1 DEF Conserves, EmptyHands
<1>8. Held'
  <2> SUFFICES ASSUME NEW x \in Events, drain'[x].pc # "new"
               PROVE  Accounted(x)'
    BY DEF Held
  <2>1. x \in EventsOf(rows) => Accounted(x)'
    BY <1>4, <1>5 DEF Accounted
  <2>2. x # e => Accounted(x)
    BY <1>2 DEF Conserves, Held, Drains
  <2>3. x # e /\ x \notin EventsOf(rows) => Accounted(x)'
    BY <1>1, <1>3, <1>4, <1>6, <2>2 DEF Accounted
  <2> QED
    BY <1>6, <2>1, <2>3
<1>9. Single'
  <2> SUFFICES ASSUME ~overlap'
               PROVE  Single'
    BY DEF Single
  <2>1. ~overlap /\ \A d \in Drains : drain[d].pc # "post"
    BY <1>1 DEF Busy
  <2>2. \A d \in Drains : drain'[d].pc # "post"
    BY <1>2, <2>1
  <2> QED
    BY <1>4, <2>1, <2>2 DEF Conserves, Single
<1> QED
  BY <1>7, <1>8, <1>9 DEF Conserves

LEMMA GateConserves ==
  ASSUME Types, Conserves, NEW d \in Drains, NEW allowed, NEW limit, Gate(d, allowed, limit),
         drain[d].pc \in {"gate", "ask"}
  PROVE  Conserves'
<1>1. /\ \A x \in Drains : x # d => drain'[x] = drain[x]
      /\ overlap' = (overlap \/ Busy) /\ UNCHANGED <<file, stored, lost>>
      /\ drain'[d] = Idle \/ (drain'[d].pc = "post" /\ InHand(d)' = EventsOf(file))
  BY GateShape
<1>2. \A x \in Drains : x # d => InHand(x)' = InHand(x)
  BY <1>1 DEF InHand
<1>3. InHand(d) = {} /\ (drain'[d] = Idle => InHand(d)' = {})
  BY DEF Conserves, EmptyHands, Idle, InHand, EventsOf
<1>4. EmptyHands'
  BY <1>1, <1>2, <1>3 DEF Conserves, EmptyHands
<1>5. Held'
  BY <1>1, <1>2, <1>3 DEF Conserves, Held, Accounted, Drains
<1>6. Single'
  <2> SUFFICES ASSUME ~overlap'
               PROVE  Single'
    BY DEF Single
  <2>1. ~overlap /\ \A x \in Drains : drain[x].pc # "post"
    BY <1>1 DEF Busy
  <2>2. \A x \in Drains : drain'[x].pc = "post" => x = d /\ InHand(d)' = EventsOf(file)
    BY <1>1, <2>1 DEF Idle
  <2> QED
    BY <1>1, <2>1, <2>2 DEF Conserves, Single
<1> QED
  BY <1>4, <1>5, <1>6 DEF Conserves

LEMMA PostConserves ==
  ASSUME Types, Conserves, NEW d \in Drains, NEW answer, Post(d, answer)
  PROVE  Conserves'
<1>1. PICK r \in drain[d].rows :
           /\ r.ev \in Events
           /\ \A x \in Drains : x # d => drain'[x] = drain[x]
           /\ drain[d].pc = "post" /\ drain'[d].pc = "post"
           /\ InHand(d) \subseteq InHand(d)' \cup {r.ev} /\ InHand(d)' \subseteq InHand(d)
           /\ \A e \in Events : stored[e] > 0 => stored'[e] > 0
           /\ \A e \in Events : lost'[e] = lost[e] \/ (e = r.ev /\ lost'[e] \in {"rejected", "poison"})
           /\ r.ev \in InHand(d)' \/ stored'[r.ev] > 0 \/ lost'[r.ev] # "no"
  BY PostShape
<1>2. UNCHANGED <<file, overlap>>
  BY DEF Post
<1>3. \A x \in Drains : x # d => InHand(x)' = InHand(x)
  BY <1>1 DEF InHand
<1>4. EmptyHands'
  BY <1>1, <1>3 DEF Conserves, EmptyHands
<1>5. Held'
  <2> SUFFICES ASSUME NEW e \in Events, drain'[e].pc # "new"
               PROVE  Accounted(e)'
    BY DEF Held
  <2>1. Accounted(e)
    BY <1>1 DEF Conserves, Held, Drains
  <2>2. CASE e = r.ev
    BY <1>1, <2>2 DEF Accounted
  <2>3. CASE e # r.ev
    BY <1>1, <1>2, <1>3, <2>1, <2>3 DEF Accounted
  <2> QED
    BY <2>2, <2>3
<1>6. Single'
  <2> SUFFICES ASSUME ~overlap
               PROVE  Single'
    BY <1>2 DEF Single
  <2>1. \A x \in Drains : drain'[x].pc = "post" => x = d
    BY <1>1 DEF Conserves, Single
  <2>2. InHand(d)' \subseteq EventsOf(file)
    BY <1>1 DEF Conserves, Single
  <2>3. \A e \in Events : e \in EventsOf(file) => e \in InHand(d)' \/ stored'[e] > 0 \/ lost'[e] # "no"
    <3> SUFFICES ASSUME NEW e \in Events, e \in EventsOf(file)
                 PROVE  e \in InHand(d)' \/ stored'[e] > 0 \/ lost'[e] # "no"
      OBVIOUS
    <3>1. e \in InHand(d) \/ stored[e] > 0 \/ lost[e] # "no"
      BY <1>1 DEF Conserves, Single
    <3> QED
      BY <1>1, <3>1
  <2>4. \A e \in Events : lost'[e] # "overwritten"
    BY <1>1 DEF Conserves, Single
  <2> QED
    BY <1>2, <2>1, <2>2, <2>3, <2>4 DEF Single
<1> QED
  BY <1>4, <1>5, <1>6 DEF Conserves

LEMMA HaltConserves ==
  ASSUME Types, Conserves, NEW d \in Drains, Halt(d)
  PROVE  Conserves'
<1>1. /\ drain[d].pc = "post" /\ file' = {} /\ UNCHANGED <<stored, overlap>>
      /\ Lose(EventsOf(file \cup drain[d].rows \cup drain[d].kept), "halt")
      /\ drain' = [drain EXCEPT ![d] = Idle]
  BY DEF Halt
<1>2. drain'[d] = Idle /\ \A x \in Drains : x # d => drain'[x] = drain[x]
  BY <1>1 DEF Types
<1>3. InHand(d)' = {} /\ \A x \in Drains : x # d => InHand(x)' = InHand(x)
  BY <1>2 DEF InHand, EventsOf, Idle
<1>4. \A e \in Events : lost'[e] = IF e \in EventsOf(file) \cup InHand(d) THEN "halt" ELSE lost[e]
  <2>1. EventsOf(file \cup drain[d].rows \cup drain[d].kept) = EventsOf(file) \cup InHand(d)
    BY DEF EventsOf, InHand
  <2>2. Lose(EventsOf(file) \cup InHand(d), "halt")
    BY <1>1, <2>1
  <2> QED
    BY <2>2, LoseTypes DEF Reasons
<1>5. EmptyHands'
  BY <1>2, <1>3 DEF Conserves, EmptyHands
<1>6. Held'
  <2> SUFFICES ASSUME NEW e \in Events, drain'[e].pc # "new"
               PROVE  Accounted(e)'
    BY DEF Held
  <2>1. drain[e].pc # "new"
    BY <1>1, <1>2 DEF Drains
  <2>2. Accounted(e)
    BY <2>1 DEF Conserves, Held
  <2> QED
    BY <1>1, <1>3, <1>4, <2>2 DEF Accounted
<1>7. Single'
  <2> SUFFICES ASSUME ~overlap
               PROVE  Single'
    BY <1>1 DEF Single
  <2>1. \A x \in Drains : drain'[x].pc # "post"
    BY <1>1, <1>2 DEF Conserves, Single, Idle
  <2> QED
    BY <1>4, <2>1 DEF Conserves, Single
<1> QED
  BY <1>5, <1>6, <1>7 DEF Conserves

LEMMA RewriteConserves ==
  ASSUME Types, Conserves, NEW d \in Drains, Rewrite(d)
  PROVE  Conserves'
<1> DEFINE gone == Gone(EventsOf(drain[d].kept), {d})
           over == {e \in gone : e \in EventsOf(file)}
<1>1. /\ drain[d].pc = "post" /\ drain[d].rows = {} /\ file' = drain[d].kept
      /\ drain' = [drain EXCEPT ![d] = Idle] /\ UNCHANGED <<stored, overlap>>
      /\ Lose(over, "overwritten")
  BY DEF Rewrite
<1>2. drain'[d] = Idle /\ \A x \in Drains : x # d => drain'[x] = drain[x]
  BY <1>1 DEF Types
<1>3. InHand(d)' = {} /\ \A x \in Drains : x # d => InHand(x)' = InHand(x)
  BY <1>2 DEF InHand, EventsOf, Idle
<1>4. InHand(d) = EventsOf(file')
  BY <1>1 DEF InHand
<1>5. \A e \in Events : lost'[e] = IF e \in gone /\ e \in EventsOf(file) THEN "overwritten" ELSE lost[e]
  <2>1. \A e : e \in over <=> e \in gone /\ e \in EventsOf(file)
    <3> HIDE DEF gone
    <3> QED
      OBVIOUS
  <2> HIDE DEF over
  <2>2. \A e \in Events : lost'[e] = IF e \in over THEN "overwritten" ELSE lost[e]
    BY <1>1, LoseTypes DEF Reasons
  <2> QED
    BY <2>1, <2>2
<1>6. \A e \in Events : e \in gone <=>
        /\ stored[e] = 0 /\ lost[e] = "no" /\ drain[e].pc # "new"
        /\ e \notin EventsOf(file') /\ \A x \in Drains : x # d => e \notin InHand(x)
  BY <1>1 DEF Gone
<1> HIDE DEF gone, over
<1>7. EmptyHands'
  BY <1>2, <1>3 DEF Conserves, EmptyHands
<1>8. Held'
  <2> SUFFICES ASSUME NEW e \in Events, drain'[e].pc # "new"
               PROVE  Accounted(e)'
    BY DEF Held
  <2>1. drain[e].pc # "new"
    BY <1>1, <1>2 DEF Drains
  <2>2. Accounted(e)
    BY <2>1 DEF Conserves, Held
  <2>3. stored[e] \in 0 .. 2
    BY DEF Types
  <2>4. CASE e \in gone
    BY <1>4, <1>5, <1>6, <2>2, <2>3, <2>4 DEF Accounted
  <2>5. CASE e \notin gone
    <3>1. stored[e] > 0 \/ lost[e] # "no" \/ e \in EventsOf(file') \/ \E x \in Drains : x # d /\ e \in InHand(x)
      BY <1>6, <2>1, <2>3, <2>5
    <3> QED
      BY <1>1, <1>3, <1>5, <2>5, <3>1 DEF Accounted
  <2> QED
    BY <2>4, <2>5
<1>9. Single'
  <2> SUFFICES ASSUME ~overlap
               PROVE  Single'
    BY <1>1 DEF Single
  <2>1. \A x \in Drains : drain'[x].pc # "post"
    BY <1>1, <1>2 DEF Conserves, Single, Idle
  <2>2. \A e \in Events : ~ (e \in gone /\ e \in EventsOf(file))
    BY <1>1, <1>4, <1>6 DEF Conserves, Single, Types
  <2> QED
    BY <1>5, <2>1, <2>2 DEF Conserves, Single
<1> QED
  BY <1>7, <1>8, <1>9 DEF Conserves

LEMMA CrashConserves ==
  ASSUME Types, Conserves, NEW p \in Processes, Crash(p)
  PROVE  Conserves'
<1> DEFINE ends == {d \in Drains : ProcessOf(d) = p}
           gone == Gone(EventsOf(file), ends)
<1>1. /\ drain' = [d \in Drains |-> IF ProcessOf(d) = p /\ drain[d].pc # "new" THEN Idle ELSE drain[d]]
      /\ Lose(gone, "overwritten") /\ UNCHANGED <<file, stored, overlap>>
  BY DEF Crash
<1>2. \A d \in Drains : drain'[d] = drain[d] \/ (drain'[d] = Idle /\ d \in ends /\ drain[d].pc # "new")
  BY <1>1
<1>3. \A d \in Drains : d \notin ends => drain'[d] = drain[d]
  BY <1>1
<1>4. \A e \in Events : lost'[e] = IF e \in gone THEN "overwritten" ELSE lost[e]
  BY <1>1, LoseTypes DEF Reasons
<1> HIDE DEF ends
<1>5. \A e \in Events : e \in gone <=>
        /\ stored[e] = 0 /\ lost[e] = "no" /\ drain[e].pc # "new"
        /\ e \notin EventsOf(file) /\ \A x \in Drains : x \notin ends => e \notin InHand(x)
  BY DEF Gone
<1> HIDE DEF gone
<1>6. \A d \in Drains : InHand(d)' = InHand(d) \/ InHand(d)' = {}
  BY <1>2 DEF InHand, EventsOf, Idle
<1>7. \A d \in Drains : d \notin ends => InHand(d)' = InHand(d)
  BY <1>3 DEF InHand
<1>8. \A d \in Drains : drain'[d].pc = "post" => drain'[d] = drain[d] /\ InHand(d)' = InHand(d)
  <2>1. \A d \in Drains : drain'[d].pc = "post" => drain'[d] = drain[d]
    BY <1>2 DEF Idle
  <2>2. \A d \in Drains : drain'[d] = drain[d] => InHand(d)' = InHand(d)
    BY DEF InHand
  <2> QED
    BY <2>1, <2>2
<1>9. EmptyHands'
  <2>1. \A d \in Drains : drain'[d] = drain[d] => InHand(d)' = InHand(d)
    BY DEF InHand
  <2>2. \A d \in Drains : drain'[d] = Idle => InHand(d)' = {}
    BY DEF InHand, EventsOf, Idle
  <2> QED
    BY <1>2, <2>1, <2>2 DEF Conserves, EmptyHands
<1>10. Held'
  <2> SUFFICES ASSUME NEW e \in Events, drain'[e].pc # "new"
               PROVE  Accounted(e)'
    BY DEF Held
  <2>1. drain[e].pc # "new"
    BY <1>2 DEF Drains
  <2>2. stored[e] \in 0 .. 2
    BY DEF Types
  <2>3. CASE e \in gone
    BY <1>4, <2>3 DEF Accounted
  <2>4. CASE e \notin gone
    BY <1>1, <1>4, <1>5, <1>7, <2>1, <2>2, <2>4 DEF Accounted
  <2> QED
    BY <2>3, <2>4
<1>11. Single'
  <2> SUFFICES ASSUME ~overlap
               PROVE  Single'
    BY <1>1 DEF Single
  <2>1. \A e \in Events : e \notin gone
    <3> SUFFICES ASSUME NEW e \in Events, e \in gone
                 PROVE  FALSE
      OBVIOUS
    <3>1. Accounted(e)
      BY <1>5 DEF Conserves, Held
    <3>2. PICK x \in Drains : e \in InHand(x)
      BY <1>5, <3>1 DEF Accounted, Types
    <3>3. drain[x].pc = "post"
      BY <3>2 DEF Conserves, EmptyHands
    <3> QED
      BY <1>5, <3>2, <3>3 DEF Conserves, Single
  <2>2. \A e \in Events : lost'[e] = lost[e]
    BY <1>4, <2>1
  <2> QED
    BY <1>1, <1>8, <2>2 DEF Conserves, Single
<1> QED
  BY <1>9, <1>10, <1>11 DEF Conserves

LEMMA ConservesStep == Types /\ Conserves /\ [Next]_vars => Conserves'
<1> SUFFICES ASSUME Types, Conserves, [Next]_vars
             PROVE  Conserves'
  OBVIOUS
<1>1. ASSUME NEW p \in Processes, Beat(p)
      PROVE  Conserves'
  <2>1. /\ \A x \in Drains : x # p => drain'[x] = drain[x]
        /\ drain[p].pc = "idle" /\ drain'[p].pc = "gate"
        /\ drain'[p].rows = drain[p].rows /\ drain'[p].kept = drain[p].kept
    BY <1>1, PcTypes DEF Beat, Drains, Pcs
  <2>2. \A x \in Drains : InHand(x)' = InHand(x)
    BY <2>1 DEF InHand
  <2>3. UNCHANGED <<file, stored, lost, overlap>>
    BY <1>1 DEF Beat
  <2>4. EmptyHands' /\ Held' /\ Single'
    BY <2>1, <2>2, <2>3 DEF Conserves, EmptyHands, Held, Accounted, Single, Drains
  <2> QED
    BY <2>4 DEF Conserves
<1>2. CASE BackoffEnds
  <2>1. UNCHANGED <<stored, lost, overlap>>
    BY <1>2 DEF BackoffEnds
  <2>2. EmptyHands' /\ Held' /\ Single'
    BY <1>2, <2>1, BackoffShape DEF Conserves, EmptyHands, Held, Accounted, Single, Drains
  <2> QED
    BY <2>2 DEF Conserves
<1>3. UNCHANGED <<file, drain, stored, lost, overlap>> => Conserves'
  BY DEF Conserves, EmptyHands, Held, Accounted, Single, InHand
<1>4. ASSUME NEW d \in Drains, Stopped(d) \/ Cached(d) \/ Fetched(d) \/ FetchFails(d)
      PROVE  Conserves'
  BY <1>4, GateConserves DEF Stopped, Cached, Fetched, FetchFails
<1>5. ASSUME NEW d \in Drains, Ask(d)
      PROVE  Conserves'
  <2>1. /\ \A x \in Drains : x # d => drain'[x] = drain[x]
        /\ drain[d].pc = "gate" /\ drain'[d].pc = "ask"
        /\ drain'[d].rows = drain[d].rows /\ drain'[d].kept = drain[d].kept
    BY <1>5, PcTypes DEF Ask, Pcs
  <2>2. \A x \in Drains : InHand(x)' = InHand(x)
    BY <2>1 DEF InHand
  <2>3. UNCHANGED <<file, stored, lost, overlap>>
    BY <1>5 DEF Ask
  <2>4. EmptyHands' /\ Held' /\ Single'
    BY <2>1, <2>2, <2>3 DEF Conserves, EmptyHands, Held, Accounted, Single, Drains
  <2> QED
    BY <2>4 DEF Conserves
<1> QED
  BY <1>1, <1>2, <1>3, <1>4, <1>5, EmitConserves, PostConserves, HaltConserves, RewriteConserves, CrashConserves
  DEF Next, Others, Goes, Decides, Switch, Tick, vars

-----------------------------------------------------------------------------
(* Together. *)

OutboxInv == Types /\ Recent /\ DisableTakesHold /\ Conserves

LEMMA OutboxInit == Init => OutboxInv
<1> SUFFICES ASSUME Init
             PROVE  OutboxInv
  OBVIOUS
<1>1. Recent /\ DisableTakesHold
  BY DEF Init, Recent, Asking, Idle, Unknown, DisableTakesHold
<1>2. \A d \in Drains : drain[d].rows = {} /\ drain[d].kept = {} /\ drain[d].pc # "post"
  BY DEF Init, Idle
<1>3. EmptyHands
  BY <1>2 DEF EmptyHands, InHand, EventsOf
<1>4. Held
  BY DEF Init, Held, Idle, Drains
<1>5. Single
  BY <1>2 DEF Init, Single
<1> QED
  BY <1>1, <1>3, <1>4, <1>5, TypesInit DEF OutboxInv, Conserves

LEMMA OutboxStep == OutboxInv /\ [Next]_vars => OutboxInv'
  BY TypesStep, RecentStep, HoldStep, ConservesStep DEF OutboxInv

LEMMA OutboxInvariant == Spec => []OutboxInv
  BY OutboxInit, OutboxStep, PTL DEF Spec

\* An event that was raised is stored, in the file, in the hands of a drain or given up by
\* name, and none was overwritten unless two writers met (drain, writeRows).
THEOREM EventsConserved == Spec => []Conserved
<1>1. ASSUME OutboxInv, NEW e \in Events
      PROVE  /\ \/ drain[e].pc = "new" \/ stored[e] > 0 \/ lost[e] # "no"
                \/ e \in EventsOf(file) \cup UNION {InHand(d) : d \in Drains}
             /\ lost[e] = "overwritten" => overlap
  BY <1>1 DEF OutboxInv, Conserves, Held, Accounted, Single
<1>2. OutboxInv => Conserved
  BY <1>1 DEF Conserved
<1> QED
  BY <1>2, OutboxInvariant, PTL

\* Switching the device off takes hold in time (egressEnabled): whatever answers are cached,
\* slow or overtaken, no drain begins TTL after it unless a look-up failed, and then not after
\* the fallback's limit if an answer is known; and none a look-up after .disabled was made.
THEOREM DisableHolds == Spec => []DisableTakesHold
<1>1. OutboxInv => DisableTakesHold
  BY DEF OutboxInv
<1> QED
  BY <1>1, OutboxInvariant, PTL
=============================================================================
