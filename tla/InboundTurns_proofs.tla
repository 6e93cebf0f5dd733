------------------------- MODULE InboundTurns_proofs -------------------------
(***************************************************************************)
(* The queue of inbound texts conserves them, for any number of messages,  *)
(* deliveries, faults and interrupts: FIFO, nothing lost, nothing doubled. *)
(* With it: the types, the wakeup that is never lost, the tap-back that is *)
(* always alone, no text acted on twice, and no text starved.              *)
(***************************************************************************)
EXTENDS InboundTurns, SequenceTheorems, TLAPS

\* A turn is interrupted only within the cap.
WithinCap ==
  /\ interrupter # None => interruptible
  /\ interruptible => interrupts < MaxInterrupts

\* Between turns there is no batch.
NothingAside == ~InFlight => batch = <<>>

TurnsInv ==
  TypeOK /\ WithinCap /\ Conserved /\ NoLostWakeup /\ TapbackAlone /\ NothingAside

-----------------------------------------------------------------------------
(* Sequences.                                                              *)

\* A split at n gives the two parts back.
LEMMA SplitJoins ==
  ASSUME NEW S, NEW q \in Seq(S), NEW n \in 1 .. Len(q)
  PROVE  /\ SubSeq(q, 1, n) \in Seq(S)
         /\ Len(SubSeq(q, 1, n)) = n
         /\ \A i \in 1 .. n : SubSeq(q, 1, n)[i] = q[i]
         /\ SubSeq(q, n + 1, Len(q)) \in Seq(S)
         /\ SubSeq(q, 1, n) \o SubSeq(q, n + 1, Len(q)) = q
  OBVIOUS

LEMMA JoinAssociates ==
  ASSUME NEW S
  PROVE  \A a, b, c \in Seq(S) :
           a \o b \in Seq(S) /\ (a \o b) \o c = a \o (b \o c) /\ a \o <<>> = a
  BY ConcatAssociative, ConcatEmptySeq, ConcatProperties

LEMMA AppendJoins ==
  \A a, b \in Seq(Messages), x \in Messages : Append(a \o b, x) = a \o Append(b, x)
<1> SUFFICES ASSUME NEW a \in Seq(Messages), NEW b \in Seq(Messages), NEW x \in Messages
             PROVE  Append(a \o b, x) = a \o Append(b, x)
  OBVIOUS
<1> DEFINE l == Append(a \o b, x)
           r == a \o Append(b, x)
<1>1. l \in Seq(Messages) /\ r \in Seq(Messages) /\ Len(l) = Len(r)
  OBVIOUS
<1>2. \A i \in 1 .. Len(l) : l[i] = r[i]
  OBVIOUS
<1> HIDE DEF l, r
<1>3. l = r
  BY <1>1, <1>2, SeqEqual
<1> QED
  BY <1>3 DEF l, r

\* The two facts as the steps below need them.
LEMMA EnteredGrows ==
  ASSUME NEW m \in Messages, finished \in Seq(Messages), batch \in Seq(Messages),
         queue \in Seq(Messages)
  PROVE  Append((finished \o batch) \o queue, m) = (finished \o batch) \o Append(queue, m)
<1> DEFINE front == finished \o batch
<1>1. front \in Seq(Messages)
  BY ConcatProperties
<1> HIDE DEF front
<1>3. Append(front \o queue, m) = front \o Append(queue, m)
  BY <1>1, AppendJoins, Zenon
<1> QED
  BY <1>3 DEF front

LEMMA PartsAfter ==
  ASSUME finished' \in Seq(Messages), batch' \in Seq(Messages),
         queue' \in Seq(Messages)
  PROVE  (finished' \o batch') \o queue' = finished' \o (batch' \o queue')
  BY ConcatAssociative

-----------------------------------------------------------------------------
(* One pass of the drain's loop.                                           *)

\* What a pass takes and what it leaves make up what it found; it takes a
\* tap-back alone; and it holds the slot exactly if it took something.
LEMMA PassSplits ==
  ASSUME NEW q \in Seq(Messages), NEW count \in 0 .. MaxInterrupts,
         NextPass(q, count)
  PROVE  /\ batch' \in Seq(Messages) /\ queue' \in Seq(Messages)
         /\ batch' \o queue' = q
         /\ TapbackAlone'
         /\ WithinCap'
         /\ interrupts' = count
         /\ committed' \in BOOLEAN /\ interruptible' \in BOOLEAN
         /\ interrupter' = None
         /\ NothingAside'
         /\ \/ turn' = "none" /\ drain' = "off" /\ queue' = <<>>
            \/ turn' = "prologue" /\ drain' = "on"
<1> USE InboundBounds
<1>1. interrupts' = count /\ committed' = FALSE /\ interrupter' = None
  BY DEF NextPass
<1>2. CASE q = <<>>
  <2>1. queue' = <<>> /\ batch' = <<>> /\ turn' = "none" /\ drain' = "off"
        /\ interruptible' = FALSE
    BY <1>2 DEF NextPass, Teardown
  <2>2. TapbackAlone'
    BY <2>1 DEF TapbackAlone
  <2>3. WithinCap'
    BY <1>1, <2>1 DEF WithinCap
  <2>4. batch' \o queue' = q
    BY <1>2, <2>1
  <2>5. committed' \in BOOLEAN /\ interruptible' \in BOOLEAN
    BY <1>1, <2>1
  <2>6. NothingAside'
    BY <2>1 DEF NothingAside
  <2> QED
    BY <1>1, <2>1, <2>2, <2>3, <2>4, <2>5, <2>6
<1>3. CASE q # <<>>
  <2>1. /\ turn' = "prologue" /\ drain' = "on"
        /\ interruptible' = MayInterrupt(q, count)
    BY <1>3 DEF NextPass
  <2>2. PICK n \in 1 .. Len(q) : /\ IsBatch(q, n)
                                 /\ batch' = SubSeq(q, 1, n)
                                 /\ queue' = SubSeq(q, n + 1, Len(q))
    BY <1>3 DEF NextPass
  <2>3. /\ batch' \in Seq(Messages) /\ queue' \in Seq(Messages)
        /\ batch' \o queue' = q /\ Len(batch') = n
        /\ \A i \in 1 .. n : batch'[i] = q[i]
    BY <2>2, SplitJoins
  <2>4. TapbackAlone'
    BY <2>2, <2>3 DEF TapbackAlone, IsBatch
  <2>5. interruptible' \in BOOLEAN /\ (interruptible' => count < MaxInterrupts)
    BY <2>1 DEF MayInterrupt
  <2>6. WithinCap'
    BY <1>1, <2>5 DEF WithinCap
  <2>7. NothingAside'
    BY <2>1 DEF NothingAside, InFlight
  <2> QED
    BY <1>1, <2>1, <2>3, <2>4, <2>5, <2>6, <2>7
<1> QED
  BY <1>2, <1>3

-----------------------------------------------------------------------------
(* The invariant.                                                          *)

LEMMA TurnsInit == Init => TurnsInv
<1> SUFFICES ASSUME Init PROVE TurnsInv
  OBVIOUS
<1> USE MessagesAssumption, InboundBounds DEF Init
<1>1. TypeOK
  <2>1. <<>> \in Seq(Messages) /\ FALSE \in BOOLEAN
    BY EmptySeq
  <2>2. /\ queue \in Seq(Messages) /\ batch \in Seq(Messages)
        /\ entered \in Seq(Messages) /\ finished \in Seq(Messages)
        /\ committed \in BOOLEAN /\ interruptible \in BOOLEAN
    BY <2>1
  <2>3. interrupts \in 0 .. MaxInterrupts /\ faults \in Nat
    OBVIOUS
  <2> QED
    BY <2>2, <2>3 DEF TypeOK
<1>2. WithinCap /\ NoLostWakeup
  BY DEF WithinCap, NoLostWakeup, InFlight
<1>3. Conserved /\ TapbackAlone /\ NothingAside
  BY DEF Conserved, TapbackAlone, NothingAside
<1> QED
  BY <1>1, <1>2, <1>3 DEF TurnsInv

\* The handlers of deliveries touch the queue only in Enqueue.
LEMMA HookKeeps ==
  ASSUME TurnsInv, NEW d \in Deliveries,
         \/ Claim(d) \/ Duplicate(d) \/ ClaimFails(d)
         \/ LookupFails(d) \/ Release(d) \/ ReleaseFails(d)
  PROVE  TurnsInv'
<1>1. UNCHANGED <<drainVars, history>>
  BY DEF Claim, Duplicate, ClaimFails, LookupFails, Release, ReleaseFails
<1>2. /\ stage' \in [Deliveries -> {"none", "lookup", "release", "done"}]
      /\ acked' \subseteq Messages /\ claims' \subseteq Messages
      /\ blind' \subseteq Messages
  <2>1. d[1] \in Messages
    BY DEF Deliveries
  <2> QED
    BY <2>1 DEF TurnsInv, TypeOK, Moves, Acks, Claim, Duplicate, ClaimFails,
                LookupFails, Release, ReleaseFails
<1>3. faults' \in Nat
  BY DEF TurnsInv, TypeOK, Acks, Fault, Claim, Duplicate, ClaimFails,
         LookupFails, Release, ReleaseFails
<1>4. TypeOK'
  BY <1>1, <1>2, <1>3 DEF TurnsInv, TypeOK, drainVars, flightVars, history
<1> QED
  BY <1>1, <1>4 DEF TurnsInv, WithinCap, Conserved, NoLostWakeup, TapbackAlone,
                    NothingAside, InFlight, drainVars, flightVars, history

LEMMA EnqueueKeeps ==
  ASSUME TurnsInv, NEW d \in Deliveries, Enqueue(d)
  PROVE  TurnsInv'
<1> DEFINE m == d[1]
<1>1. m \in Messages
  BY DEF Deliveries
<1>2. /\ queue' = Append(queue, m) /\ entered' = Append(entered, m)
      /\ drain' = (IF drain = "off" THEN "waiting" ELSE drain)
      /\ UNCHANGED <<acked, claims, blind, interrupts, batch, turn, committed,
                     interruptible, finished, acts, restarts, faults>>
  BY DEF Enqueue
<1>3. stage' \in [Deliveries -> {"none", "lookup", "release", "done"}]
  BY DEF Enqueue, Moves, TurnsInv, TypeOK
<1>4. interrupter' \in Messages \cup {None} /\ (interrupter' # None => interruptible)
  BY <1>1 DEF Enqueue, ShouldInterrupt, TurnsInv, TypeOK, WithinCap
<1> HIDE DEF m
<1>5. TypeOK'
  BY <1>1, <1>2, <1>3, <1>4 DEF TurnsInv, TypeOK
<1>6. Conserved'
  <2>1. /\ finished \o batch \in Seq(Messages) /\ queue \in Seq(Messages)
        /\ entered = (finished \o batch) \o queue
    BY JoinAssociates DEF TurnsInv, TypeOK, Conserved
  <2>2. Append((finished \o batch) \o queue, m) = (finished \o batch) \o Append(queue, m)
    BY <1>1, EnteredGrows DEF TurnsInv, TypeOK
  <2> QED
    BY <1>2, <2>1, <2>2 DEF Conserved
<1>7. WithinCap' /\ TapbackAlone' /\ NothingAside'
  BY <1>2, <1>4 DEF TurnsInv, WithinCap, TapbackAlone, NothingAside, InFlight
<1>8. NoLostWakeup'
  BY <1>2 DEF TurnsInv, TypeOK, NoLostWakeup, InFlight
<1> QED
  BY <1>5, <1>6, <1>7, <1>8 DEF TurnsInv

\* A pass over q keeps the invariant if q and what is finished are all there is.
LEMMA PassKeeps ==
  ASSUME TurnsInv, NEW q \in Seq(Messages), NEW count \in 0 .. MaxInterrupts,
         NextPass(q, count), UNCHANGED <<hookVars, entered, faults>>,
         finished' \in Seq(Messages), entered = finished' \o q,
         acts' \in [Messages -> Nat], restarts' \in [Messages -> Nat]
  PROVE  TurnsInv'
<1>1. /\ batch' \in Seq(Messages) /\ queue' \in Seq(Messages)
      /\ batch' \o queue' = q /\ TapbackAlone' /\ WithinCap' /\ NothingAside'
      /\ interrupts' = count
      /\ committed' \in BOOLEAN /\ interruptible' \in BOOLEAN /\ interrupter' = None
      /\ \/ turn' = "none" /\ drain' = "off" /\ queue' = <<>>
         \/ turn' = "prologue" /\ drain' = "on"
  BY PassSplits
<1>2. TypeOK'
  BY <1>1 DEF TurnsInv, TypeOK, hookVars
<1>3. Conserved'
  <2>1. entered' = finished' \o (batch' \o queue')
    BY <1>1
  <2>2. (finished' \o batch') \o queue' = finished' \o (batch' \o queue')
    BY <1>1, PartsAfter
  <2>3. entered' = (finished' \o batch') \o queue'
    BY <2>1, <2>2
  <2> QED
    BY <2>3 DEF Conserved
<1>4. NoLostWakeup'
  BY <1>1 DEF NoLostWakeup, InFlight
<1> QED
  BY <1>1, <1>2, <1>3, <1>4 DEF TurnsInv

\* The three ways into a pass: a new drain, a finished and an interrupted turn.
LEMMA DrainKeeps ==
  ASSUME TurnsInv, Begin \/ Returns \/ Interrupted
  PROVE  TurnsInv'
<1>1. /\ queue \in Seq(Messages) /\ batch \in Seq(Messages)
      /\ finished \in Seq(Messages) /\ entered = (finished \o batch) \o queue
      /\ acts \in [Messages -> Nat] /\ restarts \in [Messages -> Nat]
      /\ 0 \in 0 .. MaxInterrupts
  BY InboundBounds DEF TurnsInv, TypeOK, Conserved
<1>2. CASE Begin
  <2>1. /\ NextPass(queue, 0)
        /\ UNCHANGED <<hookVars, entered, finished, acts, restarts, faults>>
    BY <1>2 DEF Begin, history
  <2>2. batch = <<>>
    BY <1>2 DEF Begin, TurnsInv, NoLostWakeup, NothingAside
  <2>3. entered = finished \o queue
    BY <1>1, <2>2, JoinAssociates
  <2> QED
    BY <1>1, <2>1, <2>3, PassKeeps
<1>3. CASE Returns
  <2>1. /\ NextPass(queue, 0) /\ finished' = finished \o batch
        /\ UNCHANGED <<hookVars, entered, acts, restarts, faults>>
    BY <1>3 DEF Returns, Ends
  <2>2. finished' \in Seq(Messages)
    BY <1>1, <2>1
  <2> QED
    BY <1>1, <2>1, <2>2, PassKeeps
<1>4. CASE Interrupted
  <2>1. /\ NextPass(batch \o queue, interrupts + 1)
        /\ UNCHANGED <<hookVars, entered, finished, acts, faults>>
    BY <1>4 DEF Interrupted, Aborted, Requeued
  <2>2. restarts' \in [Messages -> Nat]
    BY <1>1, <1>4 DEF Interrupted, Aborted
  <2>3. interrupts + 1 \in 0 .. MaxInterrupts
    BY <1>4, InboundBounds DEF Interrupted, TurnsInv, WithinCap, TypeOK
  <2>4. batch \o queue \in Seq(Messages) /\ entered = finished \o (batch \o queue)
    <3>1. /\ queue \in Seq(Messages) /\ batch \in Seq(Messages)
          /\ finished \in Seq(Messages)
      BY <1>1
    <3>2. (finished \o batch) \o queue = finished \o (batch \o queue)
      BY <3>1, JoinAssociates
    <3>3. batch \o queue \in Seq(Messages)
      BY <3>1, ConcatProperties
    <3> QED
      BY <1>1, <3>2, <3>3
  <2> QED
    BY <1>1, <2>1, <2>2, <2>3, <2>4, PassKeeps
<1> QED
  BY <1>2, <1>3, <1>4

\* The steps inside a turn move it on and leave the queue alone.
LEMMA TurnKeeps ==
  ASSUME TurnsInv, Loaded \/ Errs \/ Acts \/ Silent
  PROVE  TurnsInv'
<1>1. /\ UNCHANGED <<hookVars, queue, drain, interrupts, batch, interruptible,
                     interrupter, entered, finished, restarts>>
      /\ turn' \in {"model", "apology", "acting", "closing"}
      /\ turn \in {"prologue", "model", "acting"}
  BY DEF Loaded, Errs, Acts, Silent, Goes
<1>2. committed' \in BOOLEAN
  BY DEF Loaded, Errs, Acts, Silent, TurnsInv, TypeOK
<1>3. acts' \in [Messages -> Nat]
  BY DEF Loaded, Errs, Acts, Silent, TurnsInv, TypeOK
<1>4. faults' \in Nat
  BY DEF Loaded, Errs, Acts, Silent, Fault, TurnsInv, TypeOK
<1>5. TypeOK'
  BY <1>1, <1>2, <1>3, <1>4 DEF TurnsInv, TypeOK, hookVars
<1>6. NoLostWakeup' /\ NothingAside'
  BY <1>1 DEF TurnsInv, NoLostWakeup, NothingAside, InFlight
<1> QED
  BY <1>1, <1>5, <1>6 DEF TurnsInv, WithinCap, Conserved, TapbackAlone

\* A restart empties the memory, and with it this life's histories.
LEMMA CrashKeeps ==
  ASSUME TurnsInv, Crash
  PROVE  TurnsInv'
<1>1. /\ queue' = <<>> /\ drain' = "off" /\ interrupts' = 0
      /\ batch' = <<>> /\ turn' = "none"
      /\ committed' = FALSE /\ interruptible' = FALSE /\ interrupter' = None
      /\ entered' = <<>> /\ finished' = <<>>
      /\ UNCHANGED <<acked, claims, blind, acts, restarts>>
  BY DEF Crash
<1>2. stage' \in [Deliveries -> {"none", "lookup", "release", "done"}]
  BY DEF Crash
<1>3. faults' \in Nat
  BY DEF Crash, Fault, TurnsInv, TypeOK
<1>4. TypeOK'
  <2>1. <<>> \in Seq(Messages) /\ FALSE \in BOOLEAN
    BY EmptySeq
  <2>2. /\ queue' \in Seq(Messages) /\ batch' \in Seq(Messages)
        /\ entered' \in Seq(Messages) /\ finished' \in Seq(Messages)
        /\ committed' \in BOOLEAN /\ interruptible' \in BOOLEAN
    BY <1>1, <2>1
  <2>3. interrupts' \in 0 .. MaxInterrupts
    BY <1>1, InboundBounds
  <2> QED
    BY <1>1, <1>2, <1>3, <2>2, <2>3 DEF TurnsInv, TypeOK
<1>5. WithinCap' /\ Conserved'
  BY <1>1 DEF WithinCap, Conserved
<1>6. NoLostWakeup' /\ TapbackAlone' /\ NothingAside'
  BY <1>1 DEF NoLostWakeup, InFlight, TapbackAlone, NothingAside
<1> QED
  BY <1>4, <1>5, <1>6 DEF TurnsInv

LEMMA TurnsStep == TurnsInv /\ [Next]_vars => TurnsInv'
<1> SUFFICES ASSUME TurnsInv, [Next]_vars PROVE TurnsInv'
  OBVIOUS
<1>1. ASSUME NEW d \in Deliveries,
             \/ Claim(d) \/ Duplicate(d) \/ ClaimFails(d)
             \/ Handler(d) \/ LookupFails(d) \/ ReleaseFails(d)
      PROVE  TurnsInv'
  BY <1>1, HookKeeps, EnqueueKeeps DEF Handler
<1>2. CASE Begin \/ Turn \/ Silent \/ Errs
  BY <1>2, DrainKeeps, TurnKeeps DEF Turn
<1>3. CASE Crash
  BY <1>3, CrashKeeps
<1>4. CASE UNCHANGED vars
  BY <1>4 DEF vars, hookVars, drainVars, flightVars, history, TurnsInv, TypeOK,
     WithinCap, Conserved, NoLostWakeup, TapbackAlone, NothingAside, InFlight
<1> QED
  BY <1>1, <1>2, <1>3, <1>4 DEF Next

LEMMA TurnsInvariant == Spec => []TurnsInv
  BY TurnsInit, TurnsStep, PTL DEF Spec

-----------------------------------------------------------------------------
(* No text is acted on twice, and none is starved.                         *)

\* The texts in flight and those behind them, in their order.
Pending == batch \o queue
Live(d) == stage[d] \in {"lookup", "release"}

\* A delivery on its way to the queue is alone with its message, which nobody has seen yet.
Fresh ==
  \A d \in Deliveries : Live(d) /\ d[1] \notin blind =>
    /\ d[1] \in claims /\ acts[d[1]] = 0 /\ restarts[d[1]] = 0
    /\ \A i \in 1 .. Len(Pending) : Pending[i] # d[1]
    /\ \A e \in Deliveries : Live(e) /\ e[1] = d[1] => e = d

\* What a turn has seen was claimed, and stays claimed.
SeenIsClaimed ==
  \A m \in Messages \ blind : acts[m] > 0 \/ restarts[m] > 0 => m \in claims

\* A pending message is there once, has not been acted on before its turn commits, and only
\* the batch in flight has been thrown away before, as often as this drain was interrupted.
PendingOnce ==
  \A i \in 1 .. Len(Pending) : Pending[i] \notin blind =>
    /\ Pending[i] \in claims
    /\ \A j \in 1 .. Len(Pending) : Pending[j] = Pending[i] => j = i
    /\ ~(i <= Len(batch) /\ committed) => acts[Pending[i]] = 0
    /\ i > Len(batch) => restarts[Pending[i]] = 0
    /\ restarts[Pending[i]] <= interrupts

\* A committed turn is past its last interrupt, and a turn that may be interrupted has texts only.
Latched ==
  /\ committed => interrupter = None /\ turn \in {"acting", "apology"}
  /\ turn = "acting" => committed
  /\ interruptible => \A i \in 1 .. Len(batch) : batch[i] \notin Tapbacks

OnceInv == Fresh /\ SeenIsClaimed /\ PendingOnce /\ Latched /\ ActedOnce /\ NotStarved

LEMMA OnceInit == Init => OnceInv
<1> SUFFICES ASSUME Init PROVE OnceInv
  OBVIOUS
<1>1. Len(Pending) = 0
  BY DEF Init, Pending
<1> QED
  BY <1>1, InboundBounds DEF Init, OnceInv, Fresh, Live, SeenIsClaimed, PendingOnce, Latched,
     ActedOnce, NotStarved

\* Where the two parts of Pending are.
LEMMA PendingParts ==
  ASSUME batch \in Seq(Messages), queue \in Seq(Messages)
  PROVE  /\ Pending \in Seq(Messages) /\ Len(Pending) = Len(batch) + Len(queue)
         /\ \A i \in 1 .. Len(batch) : Pending[i] = batch[i]
         /\ \A i \in 1 .. Len(queue) : Pending[Len(batch) + i] = queue[i]
  BY DEF Pending

\* What is in the batch, by its place.
LEMMA InBatch ==
  ASSUME batch \in Seq(Messages), queue \in Seq(Messages)
  PROVE  \A m : m \in ToSet(batch) <=> \E i \in 1 .. Len(batch) : Pending[i] = m
<1>1. DOMAIN batch = 1 .. Len(batch)
  OBVIOUS
<1>2. \A i \in 1 .. Len(batch) : Pending[i] = batch[i]
  BY PendingParts
<1> QED
  BY <1>1, <1>2, Zenon DEF ToSet

\* The handlers of deliveries up to the queue.
LEMMA HookOnce ==
  ASSUME TurnsInv, OnceInv, NEW d \in Deliveries,
         \/ Claim(d) \/ Duplicate(d) \/ ClaimFails(d)
         \/ LookupFails(d) \/ Release(d) \/ ReleaseFails(d)
  PROVE  OnceInv'
<1>1. /\ UNCHANGED <<drainVars, history>> /\ Pending' = Pending /\ blind \subseteq blind'
  BY DEF Claim, Duplicate, ClaimFails, LookupFails, Release, ReleaseFails, Pending,
         drainVars, flightVars, history
<1>2. /\ d[1] \in Messages /\ stage \in [Deliveries -> {"none", "lookup", "release", "done"}]
      /\ Pending \in Seq(Messages)
  BY PendingParts DEF Deliveries, TurnsInv, TypeOK
<1>a. acts \in [Messages -> Nat] /\ restarts \in [Messages -> Nat]
  BY DEF TurnsInv, TypeOK
<1>3. Latched' /\ ActedOnce' /\ NotStarved'
  BY <1>1 DEF OnceInv, Latched, ActedOnce, NotStarved, drainVars, flightVars, history
<1>4. CASE Claim(d)
  <2>1. d[1] \notin claims /\ claims' = claims \cup {d[1]} /\ blind' = blind
        /\ stage' = [stage EXCEPT ![d] = "lookup"]
    BY <1>4 DEF Claim, Moves
  <2>2. d[1] \notin blind => /\ acts[d[1]] = 0 /\ restarts[d[1]] = 0
                             /\ \A i \in 1 .. Len(Pending) : Pending[i] # d[1]
                             /\ \A e \in Deliveries : e[1] = d[1] => ~Live(e)
    BY <2>1, <1>2, <1>a DEF OnceInv, SeenIsClaimed, PendingOnce, Fresh
  <2>3. \A e \in Deliveries : Live(e)' <=> Live(e) \/ e = d
    BY <1>2, <2>1 DEF Live
  <2>4. Fresh'
    BY <1>1, <2>1, <2>2, <2>3 DEF OnceInv, Fresh, history
  <2>5. SeenIsClaimed' /\ PendingOnce'
    BY <1>1, <2>1 DEF OnceInv, SeenIsClaimed, PendingOnce, drainVars, flightVars, history
  <2> QED
    BY <1>3, <2>4, <2>5 DEF OnceInv
<1>5. CASE Duplicate(d) \/ LookupFails(d) \/ ReleaseFails(d)
  <2>1. UNCHANGED <<claims, blind>>
    BY <1>5 DEF Duplicate, LookupFails, ReleaseFails
  <2>2. \A e \in Deliveries : Live(e)' => Live(e)
    BY <1>2, <1>5 DEF Duplicate, LookupFails, ReleaseFails, Moves, Live
  <2>3. Fresh'
    BY <1>1, <2>1, <2>2 DEF OnceInv, Fresh, history
  <2>5. SeenIsClaimed' /\ PendingOnce'
    BY <1>1, <2>1 DEF OnceInv, SeenIsClaimed, PendingOnce, drainVars, flightVars, history
  <2> QED
    BY <1>3, <2>3, <2>5 DEF OnceInv
<1>6. CASE ClaimFails(d)
  <2>1. claims' = claims /\ blind' = blind \cup {d[1]}
    BY <1>6 DEF ClaimFails
  <2>2. \A e \in Deliveries : Live(e)' => Live(e) \/ e = d
    BY <1>2, <1>6 DEF ClaimFails, Moves, Live
  <2>3. Fresh'
    BY <1>1, <2>1, <2>2 DEF OnceInv, Fresh, history
  <2>5. SeenIsClaimed' /\ PendingOnce'
    BY <1>1, <2>1 DEF OnceInv, SeenIsClaimed, PendingOnce, drainVars, flightVars, history
  <2> QED
    BY <1>3, <2>3, <2>5 DEF OnceInv
<1>7. CASE Release(d)
  <2>1. claims' = claims \ {d[1]} /\ blind' = blind /\ Live(d)
    BY <1>7 DEF Release, Moves, Live
  <2>2. \A e \in Deliveries : Live(e)' => Live(e) /\ e # d
    BY <1>2, <1>7 DEF Release, Moves, Live
  <2>3. Fresh'
    BY <1>1, <2>1, <2>2 DEF OnceInv, Fresh, history
  <2>4. d[1] \notin blind => /\ acts[d[1]] = 0 /\ restarts[d[1]] = 0
                             /\ \A i \in 1 .. Len(Pending) : Pending[i] # d[1]
    BY <2>1 DEF OnceInv, Fresh
  <2>5. SeenIsClaimed'
    BY <1>1, <2>1, <2>4 DEF OnceInv, SeenIsClaimed, history
  <2>6. PendingOnce'
    BY <1>1, <2>1, <2>4 DEF OnceInv, PendingOnce, drainVars, flightVars, history
  <2> QED
    BY <1>3, <2>3, <2>5, <2>6 DEF OnceInv
<1> QED
  BY <1>4, <1>5, <1>6, <1>7

LEMMA EnqueueOnce ==
  ASSUME TurnsInv, OnceInv, NEW d \in Deliveries, Enqueue(d)
  PROVE  OnceInv'
<1> DEFINE m == d[1]
<1>1. /\ m \in Messages /\ queue \in Seq(Messages) /\ batch \in Seq(Messages)
      /\ stage \in [Deliveries -> {"none", "lookup", "release", "done"}]
  BY DEF Deliveries, TurnsInv, TypeOK
<1>2. /\ queue' = Append(queue, m) /\ batch' = batch
      /\ UNCHANGED <<claims, blind, interrupts, turn, committed, interruptible, acts, restarts>>
      /\ Live(d) /\ stage' = [stage EXCEPT ![d] = "done"]
      /\ interrupter' = (IF ShouldInterrupt(m) /\ interrupter = None THEN m ELSE interrupter)
  BY DEF Enqueue, Moves, Live
<1>3. \A e \in Deliveries : Live(e)' => Live(e) /\ e # d
  BY <1>1, <1>2 DEF Live
<1>4. m \notin blind => /\ m \in claims /\ acts[m] = 0 /\ restarts[m] = 0
                        /\ \A i \in 1 .. Len(Pending) : Pending[i] # m
                        /\ \A e \in Deliveries : Live(e) /\ e[1] = m => e = d
  BY <1>2 DEF OnceInv, Fresh
<1>5. Pending' = Append(Pending, m)
  BY <1>1, <1>2, AppendJoins DEF Pending
<1>6. Pending \in Seq(Messages) /\ Len(batch) \in Nat /\ Len(batch) <= Len(Pending)
  BY <1>1, PendingParts
<1> HIDE DEF m
<1>7. /\ Len(Pending') = Len(Pending) + 1 /\ Pending'[Len(Pending) + 1] = m
      /\ \A i \in 1 .. Len(Pending) : Pending'[i] = Pending[i]
  BY <1>1, <1>5, <1>6
<1>8. Fresh'
  <2> SUFFICES ASSUME NEW e \in Deliveries, Live(e)', e[1] \notin blind
               PROVE  /\ e[1] \in claims /\ acts[e[1]] = 0 /\ restarts[e[1]] = 0
                      /\ \A i \in 1 .. Len(Pending') : Pending'[i] # e[1]
                      /\ \A f \in Deliveries : Live(f)' /\ f[1] = e[1] => f = e
    BY <1>2 DEF Fresh
  <2>1. Live(e) /\ e # d
    BY <1>3
  <2>2. e[1] # m
    BY <1>2, <1>4, <2>1
  <2>3. /\ e[1] \in claims /\ acts[e[1]] = 0 /\ restarts[e[1]] = 0
        /\ \A i \in 1 .. Len(Pending) : Pending[i] # e[1]
        /\ \A f \in Deliveries : Live(f) /\ f[1] = e[1] => f = e
    BY <2>1 DEF OnceInv, Fresh
  <2>4. \A i \in 1 .. Len(Pending') : Pending'[i] # e[1]
    BY <1>6, <1>7, <2>2, <2>3
  <2> QED
    BY <1>3, <2>3, <2>4
<1>9. SeenIsClaimed' /\ ActedOnce' /\ NotStarved'
  BY <1>2 DEF OnceInv, SeenIsClaimed, ActedOnce, NotStarved
<1>10. PendingOnce'
  <2> SUFFICES ASSUME NEW i \in 1 .. Len(Pending'), Pending'[i] \notin blind
               PROVE  /\ Pending'[i] \in claims
                      /\ \A j \in 1 .. Len(Pending') : Pending'[j] = Pending'[i] => j = i
                      /\ ~(i <= Len(batch) /\ committed) => acts[Pending'[i]] = 0
                      /\ i > Len(batch) => restarts[Pending'[i]] = 0
                      /\ restarts[Pending'[i]] <= interrupts
    BY <1>2 DEF PendingOnce
  <2>0. interrupts \in Nat
    BY InboundBounds DEF TurnsInv, TypeOK
  <2>1. CASE i = Len(Pending) + 1
    BY <1>4, <1>6, <1>7, <2>0, <2>1
  <2>2. CASE i \in 1 .. Len(Pending)
    <3>1. Pending'[i] = Pending[i]
      BY <1>7, <2>2
    <3>2. Pending[i] # m
      BY <1>4, <2>2, <3>1
    <3>3. \A j \in 1 .. Len(Pending') : Pending'[j] = Pending[i] => j \in 1 .. Len(Pending)
      BY <1>6, <1>7, <3>2
    <3> QED
      BY <1>7, <2>2, <3>1, <3>3 DEF OnceInv, PendingOnce
  <2> QED
    BY <1>6, <1>7, <2>1, <2>2
<1>11. Latched'
  BY <1>2 DEF OnceInv, Latched, ShouldInterrupt
<1> QED
  BY <1>8, <1>9, <1>10, <1>11 DEF OnceInv

\* A pass cuts what it found; nothing it leaves behind had a turn before.
LEMMA PassOnce ==
  ASSUME TurnsInv, OnceInv, NEW q \in Seq(Messages), NEW count \in 0 .. MaxInterrupts,
         NextPass(q, count), UNCHANGED <<stage, claims, blind, acts>>,
         restarts' \in [Messages -> Nat], NotStarved',
         NEW seen \in 0 .. Len(q),
         \A i \in 1 .. seen : q[i] \notin Tapbacks,
         \A i \in 1 .. Len(q) : q[i] \notin blind =>
           /\ q[i] \in claims /\ acts[q[i]] = 0 /\ restarts'[q[i]] <= count
           /\ \A j \in 1 .. Len(q) : q[j] = q[i] => j = i
           /\ i > seen => restarts'[q[i]] = 0,
         \A d \in Deliveries : Live(d) /\ d[1] \notin blind => restarts'[d[1]] = restarts[d[1]],
         \A d \in Deliveries, i \in 1 .. Len(q) : Live(d) /\ d[1] \notin blind => q[i] # d[1],
         \A m \in Messages \ blind : restarts'[m] > 0 => m \in claims
  PROVE  OnceInv'
<1> USE InboundBounds
<1>1. /\ batch' \in Seq(Messages) /\ queue' \in Seq(Messages) /\ Pending' = q
      /\ interrupts' = count /\ interrupter' = None
      /\ turn' \in {"none", "prologue"}
  BY PassSplits DEF Pending
<1>2. committed' = FALSE
  BY DEF NextPass
<1>3. q # <<>> => Len(batch') >= seen
  <2> SUFFICES ASSUME q # <<>> PROVE Len(batch') >= seen
    OBVIOUS
  <2>1. PICK n \in 1 .. Len(q) : IsBatch(q, n) /\ batch' = SubSeq(q, 1, n)
    BY DEF NextPass
  <2>2. Len(batch') = n
    BY <2>1, SplitJoins
  <2>3. n < seen => q[1] \notin Tapbacks /\ q[n + 1] \notin Tapbacks
    OBVIOUS
  <2>4. ~(n < seen)
    BY <2>1, <2>3 DEF IsBatch
  <2> QED
    BY <2>2, <2>4
<1>4. interruptible' => \A i \in 1 .. Len(batch') : batch'[i] \notin Tapbacks
  <2>1. CASE q = <<>>
    BY <2>1 DEF NextPass
  <2>2. CASE q # <<>>
    <3>1. PICK n \in 1 .. Len(q) : IsBatch(q, n) /\ batch' = SubSeq(q, 1, n)
      BY <2>2 DEF NextPass
    <3>2. Len(batch') = n /\ \A i \in 1 .. n : batch'[i] = q[i]
      BY <3>1, SplitJoins
    <3>3. interruptible' => q[1] \notin Tapbacks
      BY <2>2 DEF NextPass, MayInterrupt
    <3> QED
      BY <3>1, <3>2, <3>3 DEF IsBatch
  <2> QED
    BY <2>1, <2>2
<1>5. Latched'
  BY <1>1, <1>2, <1>4 DEF Latched
<1>6. ActedOnce'
  BY DEF OnceInv, ActedOnce
<1>7. SeenIsClaimed'
  BY DEF OnceInv, SeenIsClaimed
<1>8. Fresh'
  BY <1>1 DEF OnceInv, Fresh, Live
<1>9. PendingOnce'
  <2> SUFFICES ASSUME NEW i \in 1 .. Len(q), q[i] \notin blind
               PROVE  /\ q[i] \in claims
                      /\ \A j \in 1 .. Len(q) : q[j] = q[i] => j = i
                      /\ acts[q[i]] = 0
                      /\ i > Len(batch') => restarts'[q[i]] = 0
                      /\ restarts'[q[i]] <= count
    BY <1>1, <1>2 DEF PendingOnce
  <2>1. i > Len(batch') => i > seen
    <3>1. q # <<>>
      OBVIOUS
    <3>2. Len(batch') \in Nat /\ seen \in Nat /\ i \in Nat
      BY <1>1
    <3> QED
      BY <1>3, <3>1, <3>2
  <2> QED
    BY <2>1
<1> QED
  BY <1>5, <1>6, <1>7, <1>8, <1>9 DEF OnceInv

LEMMA DrainOnce ==
  ASSUME TurnsInv, OnceInv, Begin \/ Returns \/ Interrupted
  PROVE  OnceInv'
<1> USE InboundBounds
<1>1. /\ queue \in Seq(Messages) /\ batch \in Seq(Messages)
      /\ acts \in [Messages -> Nat] /\ restarts \in [Messages -> Nat]
      /\ interrupts \in Nat /\ Len(batch) \in Nat /\ Len(queue) \in Nat
  <2>1. /\ queue \in Seq(Messages) /\ batch \in Seq(Messages)
        /\ acts \in [Messages -> Nat] /\ restarts \in [Messages -> Nat]
    BY DEF TurnsInv, TypeOK
  <2>2. interrupts \in Nat
    BY DEF TurnsInv, TypeOK
  <2> QED
    BY <2>1, <2>2
<1>2. /\ Pending \in Seq(Messages) /\ Len(Pending) = Len(batch) + Len(queue)
      /\ \A i \in 1 .. Len(batch) : Pending[i] = batch[i]
      /\ \A i \in 1 .. Len(queue) : Pending[Len(batch) + i] = queue[i]
  BY <1>1, PendingParts
<1>3. CASE Begin \/ Returns
  <2>1. /\ NextPass(queue, 0) /\ UNCHANGED <<stage, claims, blind, acts, restarts>>
    BY <1>3 DEF Begin, Returns, Ends, hookVars, history
  <2>2. \A i \in 1 .. Len(queue) : /\ Len(batch) + i \in 1 .. Len(Pending)
                                   /\ Pending[Len(batch) + i] = queue[i]
                                   /\ Len(batch) + i > Len(batch)
    <3> SUFFICES ASSUME NEW i \in 1 .. Len(queue)
                 PROVE  Len(batch) + i \in 1 .. Len(batch) + Len(queue) /\ Len(batch) + i > Len(batch)
      BY <1>2
    <3>1. i \in Nat /\ 1 <= i /\ i <= Len(queue)
      BY <1>1
    <3> HIDE DEF Pending
    <3> QED
      BY <1>1, <3>1
  <2>3. \A i \in 1 .. Len(queue) : queue[i] \notin blind =>
          /\ queue[i] \in claims /\ acts[queue[i]] = 0 /\ restarts[queue[i]] = 0
          /\ \A j \in 1 .. Len(queue) : queue[j] = queue[i] => j = i
    <3> SUFFICES ASSUME NEW i \in 1 .. Len(queue), queue[i] \notin blind
                 PROVE  /\ queue[i] \in claims /\ acts[queue[i]] = 0 /\ restarts[queue[i]] = 0
                        /\ \A j \in 1 .. Len(queue) : queue[j] = queue[i] => j = i
      OBVIOUS
    <3>1. /\ queue[i] \in claims /\ acts[queue[i]] = 0 /\ restarts[queue[i]] = 0
          /\ \A j \in 1 .. Len(Pending) : Pending[j] = queue[i] => j = Len(batch) + i
      <4>1. /\ Len(batch) + i \in 1 .. Len(Pending) /\ Pending[Len(batch) + i] = queue[i]
            /\ Len(batch) + i > Len(batch)
        BY <2>2
      <4>2. ~(Len(batch) + i <= Len(batch))
        BY <1>1, <4>1
      <4> DEFINE k == Len(batch) + i
      <4>3. k \in 1 .. Len(Pending) /\ Pending[k] = queue[i] /\ k > Len(batch) /\ ~(k <= Len(batch))
        BY <4>1, <4>2
      <4> HIDE DEF k
      <4>4. /\ Pending[k] \in claims /\ acts[Pending[k]] = 0 /\ restarts[Pending[k]] = 0
            /\ \A j \in 1 .. Len(Pending) : Pending[j] = Pending[k] => j = k
        BY <4>3 DEF OnceInv, PendingOnce
      <4> QED
        BY <4>3, <4>4 DEF k
    <3>2. \A j \in 1 .. Len(queue) : queue[j] = queue[i] => Len(batch) + j = Len(batch) + i
      BY <2>2, <3>1
    <3> QED
      BY <1>1, <3>1, <3>2
  <2>4. \A d \in Deliveries, i \in 1 .. Len(queue) : Live(d) /\ d[1] \notin blind => queue[i] # d[1]
    BY <2>2 DEF OnceInv, Fresh
  <2>5. NotStarved' /\ \A m \in Messages \ blind : restarts'[m] > 0 => m \in claims
    BY <2>1 DEF OnceInv, NotStarved, SeenIsClaimed
  <2>6. 0 \in 0 .. Len(queue) /\ 0 \in 0 .. MaxInterrupts /\ \A i \in 1 .. 0 : queue[i] \notin Tapbacks
    BY <1>1
  <2>7. \A i \in 1 .. Len(queue) : queue[i] \notin blind =>
          /\ queue[i] \in claims /\ acts[queue[i]] = 0 /\ restarts'[queue[i]] <= 0
          /\ \A j \in 1 .. Len(queue) : queue[j] = queue[i] => j = i
          /\ i > 0 => restarts'[queue[i]] = 0
    BY <2>1, <2>3
  <2>8. \A d \in Deliveries : Live(d) /\ d[1] \notin blind => restarts'[d[1]] = restarts[d[1]]
    BY <2>1
  <2>9. restarts' \in [Messages -> Nat]
    BY <1>1, <2>1
  <2> DEFINE seen == 0
             count == 0
  <2>10. /\ seen \in 0 .. Len(queue) /\ count \in 0 .. MaxInterrupts /\ NextPass(queue, count)
         /\ \A i \in 1 .. seen : queue[i] \notin Tapbacks
         /\ \A i \in 1 .. Len(queue) : queue[i] \notin blind =>
              /\ queue[i] \in claims /\ acts[queue[i]] = 0 /\ restarts'[queue[i]] <= count
              /\ \A j \in 1 .. Len(queue) : queue[j] = queue[i] => j = i
              /\ i > seen => restarts'[queue[i]] = 0
    BY <2>1, <2>6, <2>7
  <2> HIDE DEF seen, count
  <2> QED
    BY <1>1, <2>1, <2>4, <2>5, <2>8, <2>9, <2>10, PassOnce
<1>4. CASE Interrupted
  <2>1. /\ NextPass(Pending, interrupts + 1) /\ UNCHANGED <<stage, claims, blind, acts>>
        /\ interrupter # None
        /\ restarts' = [m \in Messages |-> IF m \in ToSet(batch) THEN restarts[m] + 1 ELSE restarts[m]]
    BY <1>4 DEF Interrupted, Aborted, Requeued, hookVars, Pending
  <2>2. interrupts + 1 \in 0 .. MaxInterrupts /\ interruptible /\ ~committed
    BY <2>1 DEF TurnsInv, WithinCap, TypeOK, OnceInv, Latched
  <2>3. \A m \in Messages : m \in ToSet(batch) <=> \E i \in 1 .. Len(batch) : Pending[i] = m
    BY <1>1, InBatch
  <2>4. /\ Len(batch) \in 0 .. Len(Pending)
        /\ \A i \in 1 .. Len(batch) : Pending[i] \notin Tapbacks
    <3>1. \A i \in 1 .. Len(batch) : batch[i] \notin Tapbacks
      BY <2>2 DEF OnceInv, Latched
    <3>2. \A i \in 1 .. Len(batch) : Pending[i] \notin Tapbacks
      BY <1>2, <3>1, Zenon
    <3> QED
      BY <1>1, <1>2, <3>2
  <2>5. restarts' \in [Messages -> Nat]
    BY <1>1, <2>1
  <2>6. \A i \in 1 .. Len(Pending) : Pending[i] \notin blind =>
          /\ Pending[i] \in claims /\ acts[Pending[i]] = 0
          /\ restarts'[Pending[i]] <= interrupts + 1
          /\ \A j \in 1 .. Len(Pending) : Pending[j] = Pending[i] => j = i
          /\ i > Len(batch) => restarts'[Pending[i]] = 0
    <3> SUFFICES ASSUME NEW i \in 1 .. Len(Pending), Pending[i] \notin blind
                 PROVE  /\ Pending[i] \in claims /\ acts[Pending[i]] = 0
                        /\ restarts'[Pending[i]] <= interrupts + 1
                        /\ \A j \in 1 .. Len(Pending) : Pending[j] = Pending[i] => j = i
                        /\ i > Len(batch) => restarts'[Pending[i]] = 0
      OBVIOUS
    <3>1. /\ Pending[i] \in claims /\ acts[Pending[i]] = 0
          /\ \A j \in 1 .. Len(Pending) : Pending[j] = Pending[i] => j = i
          /\ i > Len(batch) => restarts[Pending[i]] = 0
          /\ restarts[Pending[i]] <= interrupts
      BY <2>2 DEF OnceInv, PendingOnce
    <3>2. Pending[i] \in Messages
      BY <1>2
    <3>3. restarts'[Pending[i]] <= interrupts + 1
      BY <1>1, <2>1, <3>1, <3>2
    <3>4. i > Len(batch) => Pending[i] \notin ToSet(batch)
      <4> SUFFICES ASSUME i > Len(batch), Pending[i] \in ToSet(batch) PROVE FALSE
        OBVIOUS
      <4>1. PICK k \in 1 .. Len(batch) : Pending[k] = Pending[i]
        BY <2>3, <3>2
      <4>2. k \in 1 .. Len(Pending)
        BY <2>4, <1>1
      <4>3. k = i
        BY <3>1, <4>1, <4>2
      <4> QED
        BY <1>1, <4>3
    <3>5. i > Len(batch) => restarts'[Pending[i]] = 0
      BY <2>1, <3>1, <3>2, <3>4
    <3> QED
      BY <3>1, <3>3, <3>5
  <2>7. \A d \in Deliveries, i \in 1 .. Len(Pending) : Live(d) /\ d[1] \notin blind => Pending[i] # d[1]
    BY DEF OnceInv, Fresh
  <2>8. \A d \in Deliveries : Live(d) /\ d[1] \notin blind => restarts'[d[1]] = restarts[d[1]]
    <3> SUFFICES ASSUME NEW d \in Deliveries, Live(d), d[1] \notin blind
                 PROVE  restarts'[d[1]] = restarts[d[1]]
      OBVIOUS
    <3>1. d[1] \in Messages
      BY DEF Deliveries
    <3>2. d[1] \notin ToSet(batch)
      BY <2>3, <2>4, <2>7, <3>1
    <3> QED
      BY <2>1, <3>1, <3>2
  <2>9. \A m \in Messages \ blind : m \in ToSet(batch) =>
          m \in claims /\ restarts[m] <= interrupts
    <3> SUFFICES ASSUME NEW m \in Messages \ blind, m \in ToSet(batch)
                 PROVE  m \in claims /\ restarts[m] <= interrupts
      OBVIOUS
    <3>1. PICK k \in 1 .. Len(batch) : Pending[k] = m
      BY <2>3
    <3>2. k \in 1 .. Len(Pending)
      BY <2>4, <1>1
    <3> QED
      BY <3>1, <3>2 DEF OnceInv, PendingOnce
  <2>10. NotStarved'
    <3> SUFFICES ASSUME NEW m \in Messages \ blind PROVE restarts'[m] <= MaxInterrupts
      BY <2>1 DEF NotStarved
    <3>1. CASE m \in ToSet(batch)
      <4>1. restarts'[m] = restarts[m] + 1 /\ restarts[m] <= interrupts /\ restarts[m] \in Nat
        BY <1>1, <2>1, <2>9, <3>1
      <4>2. interrupts + 1 <= MaxInterrupts
        BY <1>1, <2>2
      <4> QED
        BY <1>1, <4>1, <4>2
    <3>2. CASE m \notin ToSet(batch)
      BY <2>1, <3>2 DEF OnceInv, NotStarved
    <3> QED
      BY <3>1, <3>2
  <2>11. \A m \in Messages \ blind : restarts'[m] > 0 => m \in claims
    BY <2>1, <2>9 DEF OnceInv, SeenIsClaimed
  <2> DEFINE count == interrupts + 1
             seen == Len(batch)
  <2>12. /\ count \in 0 .. MaxInterrupts /\ seen \in 0 .. Len(Pending) /\ NextPass(Pending, count)
         /\ \A i \in 1 .. seen : Pending[i] \notin Tapbacks
         /\ \A i \in 1 .. Len(Pending) : Pending[i] \notin blind =>
              /\ Pending[i] \in claims /\ acts[Pending[i]] = 0 /\ restarts'[Pending[i]] <= count
              /\ \A j \in 1 .. Len(Pending) : Pending[j] = Pending[i] => j = i
              /\ i > seen => restarts'[Pending[i]] = 0
    BY <2>1, <2>2, <2>4, <2>6
  <2> DEFINE q == Pending
  <2>13. /\ q \in Seq(Messages) /\ NextPass(q, count) /\ seen \in 0 .. Len(q)
         /\ \A i \in 1 .. seen : q[i] \notin Tapbacks
         /\ \A i \in 1 .. Len(q) : q[i] \notin blind =>
              /\ q[i] \in claims /\ acts[q[i]] = 0 /\ restarts'[q[i]] <= count
              /\ \A j \in 1 .. Len(q) : q[j] = q[i] => j = i
              /\ i > seen => restarts'[q[i]] = 0
         /\ \A d \in Deliveries, i \in 1 .. Len(q) : Live(d) /\ d[1] \notin blind => q[i] # d[1]
    BY <1>2, <2>7, <2>12
  <2> HIDE DEF count, seen, q
  <2> QED
    BY <2>1, <2>5, <2>8, <2>10, <2>11, <2>12, <2>13, PassOnce
<1> QED
  BY <1>3, <1>4

LEMMA TurnOnce ==
  ASSUME TurnsInv, OnceInv, Loaded \/ Errs \/ Acts \/ Silent
  PROVE  OnceInv'
<1>1. /\ UNCHANGED <<hookVars, queue, drain, interrupts, batch, interruptible,
                     interrupter, entered, finished, restarts>>
      /\ Pending' = Pending
  BY DEF Loaded, Errs, Acts, Silent, Goes, Pending
<1>2. /\ queue \in Seq(Messages) /\ batch \in Seq(Messages) /\ acts \in [Messages -> Nat]
  BY DEF TurnsInv, TypeOK
<1>3. /\ Len(Pending) = Len(batch) + Len(queue) /\ Pending \in Seq(Messages)
      /\ \A i \in 1 .. Len(batch) : Pending[i] = batch[i]
  BY <1>2, PendingParts
<1>4. CASE Loaded \/ Errs \/ Silent
  <2>1. UNCHANGED <<committed, acts>>
    BY <1>4 DEF Loaded, Errs, Silent
  <2>2. Latched'
    BY <1>1, <1>4 DEF OnceInv, Latched, Loaded, Errs, Silent, Goes
  <2>3. Fresh' /\ SeenIsClaimed' /\ PendingOnce' /\ ActedOnce' /\ NotStarved'
    BY <1>1, <2>1 DEF OnceInv, Fresh, Live, SeenIsClaimed, PendingOnce, ActedOnce, NotStarved, hookVars
  <2> QED
    BY <2>2, <2>3 DEF OnceInv
<1>5. CASE Acts
  <2>1. /\ turn = "model" /\ interrupter = None /\ committed' = TRUE /\ turn' = "acting"
        /\ acts' = [m \in Messages |-> IF m \in ToSet(batch) THEN acts[m] + 1 ELSE acts[m]]
    BY <1>5 DEF Acts, Goes
  <2>2. ~committed
    BY <2>1 DEF OnceInv, Latched
  <2>3. \A m \in Messages : m \in ToSet(batch) <=> \E i \in 1 .. Len(batch) : Pending[i] = m
    BY <1>2, InBatch
  <2>4. \A i \in 1 .. Len(batch) : i \in 1 .. Len(Pending)
    BY <1>2, <1>3
  <2>5. \A m \in Messages \ blind : m \in ToSet(batch) => m \in claims /\ acts[m] = 0
    BY <2>2, <2>3, <2>4 DEF OnceInv, PendingOnce
  <2>6. Latched'
    BY <1>1, <2>1 DEF OnceInv, Latched
  <2>7. SeenIsClaimed' /\ ActedOnce' /\ NotStarved'
    BY <1>1, <1>2, <2>1, <2>5 DEF OnceInv, SeenIsClaimed, ActedOnce, NotStarved, hookVars
  <2>8. Fresh'
    <3> SUFFICES ASSUME NEW d \in Deliveries, Live(d), d[1] \notin blind
                 PROVE  acts'[d[1]] = 0
      BY <1>1 DEF OnceInv, Fresh, Live, hookVars
    <3>1. d[1] \in Messages
      BY DEF Deliveries
    <3>2. d[1] \notin ToSet(batch)
      BY <2>3, <2>4, <3>1 DEF OnceInv, Fresh
    <3> QED
      BY <2>1, <3>1, <3>2 DEF OnceInv, Fresh
  <2>9. PendingOnce'
    <3> SUFFICES ASSUME NEW i \in 1 .. Len(Pending), Pending[i] \notin blind, ~(i <= Len(batch))
                 PROVE  acts'[Pending[i]] = 0
      BY <1>1, <2>1 DEF OnceInv, PendingOnce, hookVars
    <3>1. Pending[i] \in Messages /\ acts[Pending[i]] = 0
      BY <1>3 DEF OnceInv, PendingOnce
    <3>2. Pending[i] \notin ToSet(batch)
      <4> SUFFICES ASSUME Pending[i] \in ToSet(batch) PROVE FALSE
        OBVIOUS
      <4>1. PICK k \in 1 .. Len(batch) : Pending[k] = Pending[i]
        BY <2>3, <3>1
      <4>2. k = i
        BY <2>4, <4>1 DEF OnceInv, PendingOnce
      <4> QED
        BY <1>2, <4>2
    <3> QED
      BY <2>1, <3>1, <3>2
  <2> QED
    BY <2>6, <2>7, <2>8, <2>9 DEF OnceInv
<1> QED
  BY <1>4, <1>5

LEMMA CrashOnce ==
  ASSUME TurnsInv, OnceInv, Crash
  PROVE  OnceInv'
<1>1. /\ queue' = <<>> /\ batch' = <<>> /\ turn' = "none" /\ interrupts' = 0
      /\ committed' = FALSE /\ interruptible' = FALSE /\ interrupter' = None
      /\ UNCHANGED <<claims, blind, acts, restarts>>
      /\ \A d \in Deliveries : stage'[d] \in {"none", "done"}
  BY DEF Crash
<1>2. Len(Pending') = 0
  BY <1>1 DEF Pending
<1> QED
  BY <1>1, <1>2 DEF OnceInv, Fresh, Live, SeenIsClaimed, PendingOnce, Latched, ActedOnce, NotStarved

LEMMA OnceStep == TurnsInv /\ OnceInv /\ [Next]_vars => OnceInv'
<1> SUFFICES ASSUME TurnsInv, OnceInv, [Next]_vars PROVE OnceInv'
  OBVIOUS
<1>1. ASSUME NEW d \in Deliveries,
             \/ Claim(d) \/ Duplicate(d) \/ ClaimFails(d)
             \/ Handler(d) \/ LookupFails(d) \/ ReleaseFails(d)
      PROVE  OnceInv'
  BY <1>1, HookOnce, EnqueueOnce DEF Handler
<1>2. CASE Begin \/ Turn \/ Silent \/ Errs
  BY <1>2, DrainOnce, TurnOnce DEF Turn
<1>3. CASE Crash
  BY <1>3, CrashOnce
<1>4. CASE UNCHANGED vars
  BY <1>4 DEF vars, hookVars, drainVars, flightVars, history, OnceInv, Fresh, Live,
     SeenIsClaimed, PendingOnce, Pending, Latched, ActedOnce, NotStarved
<1> QED
  BY <1>1, <1>2, <1>3, <1>4 DEF Next

LEMMA OnceInvariant == Spec => []OnceInv
  BY TurnsInit, TurnsStep, OnceInit, OnceStep, PTL DEF Spec

-----------------------------------------------------------------------------

\* Type correctness; with it the drain's count never passes the cap.
THEOREM TypeCorrect == Spec => []TypeOK
<1>1. TurnsInv => TypeOK
  BY DEF TurnsInv
<1> QED
  BY <1>1, TurnsInvariant, PTL

\* The queue is FIFO, loses nothing and doubles nothing, for any number of texts
\* and interrupts (drainUserQueue, takeBatch, enqueueUserMessage).
THEOREM QueueConserves == Spec => []Conserved
<1>1. TurnsInv => Conserved
  BY DEF TurnsInv
<1> QED
  BY <1>1, TurnsInvariant, PTL

\* A queued text always has a drain (enqueueUserMessage, drainUserQueue).
THEOREM WakeupsKept == Spec => []NoLostWakeup
<1>1. TurnsInv => NoLostWakeup
  BY DEF TurnsInv
<1> QED
  BY <1>1, TurnsInvariant, PTL

\* A tap-back never shares its turn, also after a batch was put back (takeBatch).
THEOREM TapbacksAlone == Spec => []TapbackAlone
<1>1. TurnsInv => TapbackAlone
  BY DEF TurnsInv
<1> QED
  BY <1>1, TurnsInvariant, PTL

\* No text is acted on twice, after no interrupt, redelivery or restart, unless the ledger
\* could not be reached for it (claimWebhook, runAssistantTurn).
THEOREM OneAction == Spec => []ActedOnce
<1>1. OnceInv => ActedOnce
  BY DEF OnceInv
<1> QED
  BY <1>1, OnceInvariant, PTL

\* No text has more than MaxInterrupts of its turns thrown away (drainUserQueue).
THEOREM NoStarvation == Spec => []NotStarved
<1>1. OnceInv => NotStarved
  BY DEF OnceInv
<1> QED
  BY <1>1, OnceInvariant, PTL
=============================================================================
