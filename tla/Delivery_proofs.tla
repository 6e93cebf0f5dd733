------------------------- MODULE Delivery_proofs -------------------------
(***************************************************************************)
(* A message on its way into a session, and what the user is told of it.   *)
(*                                                                         *)
(* The inbox, for every set of rows, every cap and every number of faults: *)
(* the types, "a delivered row reached the agent", and that the inbox      *)
(* implements the at-least-once channel.                                   *)
(*                                                                         *)
(* The watcher, for every number of sessions, every timeout and every      *)
(* number of lapses: a row is given up in fair time, a lost machine is     *)
(* announced once, and an ended session is not shown again for nothing.    *)
(*                                                                         *)
(* The session's title, for every transcript, every number of taps, hooks, *)
(* resumes and slips: what counts as shipped is shown.                     *)
(***************************************************************************)
EXTENDS InboxDelivery, DeliveryWatch, SessionHooks, FiniteSetTheorems, TLAPS

\* A row that the device holds as dealt with, or that an ACK names.
Settled(r) == r \in Inserted /\ Handled(r)

\* Where a row can be on its way: nothing is ACKed, remembered or marked
\* before it was handled, and nothing is served before it was inserted.
Flow ==
  /\ \A i \in 1 .. Len(wire) : wire[i] \subseteq Inserted
  /\ todo \subseteq Inserted
  /\ \A r \in landed : Settled(r)
  /\ \A i \in 1 .. Len(applied) : Settled(applied[i])
  /\ \A S \in acks : \A r \in S : Settled(r)
  /\ \A r \in delivered : Settled(r)

IInv == TypeOK /\ Flow

\* Membership in a sequence, as the index the solver can use.
LEMMA InSequence ==
  ASSUME NEW s, NEW x \in ToSet(s)
  PROVE  \E i \in 1 .. Len(s) : x = s[i]
BY DEF ToSet

LEMMA ToSetAppend ==
  ASSUME NEW T, NEW s \in Seq(T), NEW x \in T
  PROVE  ToSet(Append(s, x)) = ToSet(s) \cup {x}
<1> DEFINE t == Append(s, x)
<1>1. /\ Len(t) = Len(s) + 1 /\ Len(s) \in Nat
      /\ \A i \in 1 .. Len(s) : t[i] = s[i]
      /\ t[Len(t)] = x
  OBVIOUS
<1>2. \A y \in ToSet(t) : y \in ToSet(s) \cup {x}
  <2> HIDE DEF t
  <2> QED
    BY <1>1 DEF ToSet
<1>3. \A y \in ToSet(s) \cup {x} : y \in ToSet(t)
  <2> HIDE DEF t
  <2> QED
    BY <1>1 DEF ToSet
<1> QED
  BY <1>2, <1>3

\* Settled is stable: rows are neither removed nor un-injected by a step that
\* leaves created alone or grows it, and injected alone or grows it.
LEMMA SettledStable ==
  ASSUME TypeOK, TypeOK', NEW r \in Rows, Settled(r),
         \A s \in Rows : created'[s] >= created[s] /\ injected'[s] >= injected[s]
  PROVE  Settled(r)'
BY DEF Settled, Inserted, Handled, TypeOK

\* The arithmetic and the sequences of the steps below, apart from their
\* Boolean variables.
LEMMA FaultType == TypeOK /\ Fault => faults' \in Nat
BY DEF TypeOK, Fault

LEMMA EmptyType ==
  /\ <<>> \in Seq(Rows)
  /\ <<>> \in Seq(SUBSET Rows)
  /\ Len(<<>>) <= AppliedCap
  /\ Len(<<>>) <= MaxWire
BY BoundsAssumption DEF BoundsAssumption

LEMMA ZeroType == 0 \in Nat /\ [r \in Rows |-> 0] \in [Rows -> Nat]
OBVIOUS

LEMMA TypeInit == Init => TypeOK
<1> SUFFICES ASSUME Init PROVE TypeOK
  OBVIOUS
<1>1. /\ now \in Nat /\ created \in [Rows -> Nat]
      /\ injected \in [Rows -> Nat] /\ thisLife \in [Rows -> Nat]
      /\ doubtful \in [Rows -> Nat] /\ faults \in Nat
  BY ZeroType, Zenon DEF Init
<1>2. /\ wire \in Seq(SUBSET Rows) /\ Len(wire) <= MaxWire
      /\ applied \in Seq(Rows) /\ Len(applied) <= AppliedCap
  BY EmptyType, Zenon DEF Init
<1> QED
  BY <1>1, <1>2, Zenon DEF Init, TypeOK

\* What Remember stores: the newest row at the end, the oldest gone above the cap.
LEMMA RememberType ==
  ASSUME TypeOK, NEW r \in Rows, Remember(r)
  PROVE  applied' \in Seq(Rows) /\ Len(applied') <= AppliedCap
<1> DEFINE all == Append(applied, r)
<1>1. all \in Seq(Rows) /\ Len(all) = Len(applied) + 1
  BY DEF TypeOK
<1>2. CASE Len(all) > AppliedCap
  <2>1. applied' = Tail(all)
    BY <1>2 DEF Remember
  <2>2. Tail(all) \in Seq(Rows) /\ Len(Tail(all)) = Len(all) - 1
    BY <1>1, <1>2, BoundsAssumption DEF BoundsAssumption
  <2> QED
    BY <1>1, <2>1, <2>2, BoundsAssumption DEF TypeOK, BoundsAssumption
<1>3. CASE ~(Len(all) > AppliedCap)
  <2>1. applied' = all
    BY <1>3 DEF Remember
  <2> QED
    BY <1>1, <1>3, <2>1, BoundsAssumption DEF BoundsAssumption
<1> QED
  BY <1>2, <1>3

\* It invents no entry.
LEMMA RememberElements ==
  ASSUME TypeOK, NEW r \in Rows, Remember(r)
  PROVE  \A i \in 1 .. Len(applied') :
           \/ applied'[i] = r
           \/ \E j \in 1 .. Len(applied) : applied'[i] = applied[j]
<1> DEFINE all == Append(applied, r)
<1>0. applied \in Seq(Rows)
  BY DEF TypeOK
<1>1. /\ all \in Seq(Rows) /\ Len(all) = Len(applied) + 1
      /\ \A i \in 1 .. Len(all) :
           all[i] = r \/ \E j \in 1 .. Len(applied) : all[i] = applied[j]
  BY <1>0
<1>2. CASE applied' = all
  BY <1>1, <1>2
<1>3. CASE applied' = Tail(all)
  <2>1. \A i \in 1 .. Len(applied') : applied'[i] = all[i + 1] /\ i + 1 \in 1 .. Len(all)
    BY <1>1, <1>3
  <2> QED
    BY <1>1, <2>1
<1> QED
  BY <1>2, <1>3 DEF Remember

LEMMA TypeStep == TypeOK /\ [Next]_vars => TypeOK'
<1> SUFFICES ASSUME TypeOK, [Next]_vars PROVE TypeOK'
  OBVIOUS
<1> USE DEF TypeOK
<1> USE BoundsAssumption DEF BoundsAssumption
<1>1. ASSUME NEW r \in Rows, Enqueue(r) PROVE TypeOK'
  BY <1>1 DEF Enqueue, deviceVars, Inserted
<1>2. CASE NotifyArrives
  BY <1>2 DEF NotifyArrives, dbVars, deviceVars
<1>3. CASE ListenerReconnects
  BY <1>3 DEF ListenerReconnects, dbVars, deviceVars
<1>4. CASE Enable
  BY <1>4 DEF Enable, serverVars, deviceVars
<1>5. CASE Flush
  <2>1. Undelivered \in SUBSET Rows
    BY DEF Undelivered, Inserted
  <2>2. wire' \in Seq(SUBSET Rows) /\ Len(wire') <= MaxWire
    BY <1>5, <2>1 DEF Flush
  <2>3. handler' \in {"off", "flush", "park", "wait", "check"}
    BY <1>5 DEF Flush
  <2> QED
    BY <1>5, <2>2, <2>3 DEF Flush, dbVars, deviceVars
<1>6. CASE Park \/ WaitTimesOut \/ CheckEnabled
  BY <1>6 DEF Park, WaitTimesOut, CheckEnabled, dbVars, deviceVars
<1>7. CASE Connect
  BY <1>7 DEF Connect, dbVars, deviceVars
<1>8. CASE ReadFrame
  BY <1>8 DEF ReadFrame, dbVars, serverVars
<1>9. CASE SendAck
  <2>1. acks' \subseteq SUBSET Rows /\ landed' \subseteq Rows /\ applying' \in BOOLEAN
    <3>1. landed \in SUBSET Rows
      OBVIOUS
    <3>2. acks' = acks \/ acks' = acks \cup {landed}
      BY <1>9 DEF SendAck
    <3>3. landed' = {} /\ applying' = FALSE
      BY <1>9 DEF SendAck
    <3> QED
      BY <3>1, <3>2, <3>3
  <2> QED
    BY <1>9, <2>1 DEF SendAck, dbVars, serverVars
<1>10. CASE EndOfStream
  BY <1>10 DEF EndOfStream, dbVars, serverVars, deviceVars
<1>11. ASSUME NEW r \in Rows, SkipDuplicate(r) PROVE TypeOK'
  BY <1>11 DEF SkipDuplicate, dbVars, serverVars
<1>12. ASSUME NEW r \in Rows, Inject(r) PROVE TypeOK'
  <2>1. /\ applied' \in Seq(Rows)
        /\ Len(applied') <= AppliedCap
    BY <1>12, RememberType DEF Inject
  <2>2. injected' \in [Rows -> Nat] /\ thisLife' \in [Rows -> Nat]
    BY <1>12 DEF Inject
  <2> QED
    BY <1>12, <2>1, <2>2 DEF Inject, dbVars, serverVars
<1>13. ASSUME NEW S \in acks, AckArrives(S) PROVE TypeOK'
  BY <1>13 DEF AckArrives, serverVars, deviceVars
<1>14. ASSUME NEW S \in acks, AckLost(S) PROVE TypeOK'
  BY <1>14 DEF AckLost, Fault, dbVars, serverVars, deviceVars
<1>15. CASE ListenerDrops
  BY <1>15, FaultType, EmptyType, ZeroType, Zenon DEF ListenerDrops, dbVars, deviceVars
<1>16. CASE Disable
  BY <1>16, FaultType, EmptyType, ZeroType, Zenon DEF Disable, serverVars, deviceVars
<1>17. ASSUME NEW r \in Rows, InjectRefused(r) PROVE TypeOK'
  BY <1>17 DEF InjectRefused, Fault, dbVars, serverVars
<1>22. ASSUME NEW r \in Rows, InjectDoubtful(r) PROVE TypeOK'
  <2>1. /\ injected' \in [Rows -> Nat] /\ thisLife' \in [Rows -> Nat]
        /\ doubtful' \in [Rows -> Nat] /\ todo' \subseteq Rows
    BY <1>22 DEF InjectDoubtful
  <2> QED
    BY <1>22, <2>1, FaultType DEF InjectDoubtful, dbVars, serverVars
<1>18. ASSUME NEW r \in Rows, InjectThrows(r) PROVE TypeOK'
  BY <1>18, FaultType, EmptyType, ZeroType, Zenon DEF InjectThrows, dbVars, serverVars
<1>19. CASE StreamBreaks
  BY <1>19, FaultType, EmptyType, ZeroType, Zenon DEF StreamBreaks, dbVars, deviceVars
<1>20. CASE DeviceRestarts
  BY <1>20, FaultType, EmptyType, ZeroType, Zenon DEF DeviceRestarts, dbVars
<1>21. CASE UNCHANGED vars
  BY <1>21 DEF vars, dbVars, serverVars, deviceVars
<1> QED
  BY <1>1, <1>2, <1>3, <1>4, <1>5, <1>6, <1>7, <1>8, <1>9, <1>10, <1>11,
     <1>12, <1>13, <1>14, <1>15, <1>16, <1>17, <1>18, <1>19, <1>20, <1>21, <1>22
  DEF Next, Server, Device, Faulty

-----------------------------------------------------------------------------
LEMMA FlowInit == Init => Flow
BY DEF Init, Flow

\* A frame takes rows that are in the database; acknowledgements and the
\* memory of the process only name rows that were handled.
LEMMA FlowStep == IInv /\ [Next]_vars => Flow'
<1> SUFFICES ASSUME TypeOK, Flow, [Next]_vars PROVE Flow'
  BY DEF IInv
<1>0. TypeOK'
  BY TypeStep
<1> DEFINE Kept == /\ \A s \in Rows : created'[s] >= created[s]
                   /\ \A s \in Rows : injected'[s] >= injected[s]
<1>a. ASSUME Kept PROVE \A r \in Rows : Settled(r) => Settled(r)'
  BY <1>0, <1>a, SettledStable
<1>b. ASSUME UNCHANGED <<created, injected, wire, todo, landed, applied, acks,
                         delivered>>
      PROVE  Flow'
  BY <1>b DEF Flow, Settled, Inserted, Handled
<1>1. ASSUME NEW r \in Rows, Enqueue(r) PROVE Flow'
  <2>1. Kept
    BY <1>1 DEF Enqueue, deviceVars, TypeOK, Inserted
  <2>2. Inserted \subseteq Inserted'
    <3> SUFFICES ASSUME NEW s \in Rows, created[s] > 0
                 PROVE  created'[s] > 0
      BY DEF Inserted
    <3> QED
      <4>1. created[s] \in Nat /\ created'[s] \in Nat
        BY <1>0 DEF TypeOK
      <4>2. created'[s] >= created[s]
        BY <2>1
      <4> QED
        BY <4>1, <4>2
  <2>3. \A s \in Rows : Settled(s) => Settled(s)'
    BY <1>a, <2>1
  <2>4. UNCHANGED <<wire, todo, landed, applied, acks, delivered>>
    BY <1>1 DEF Enqueue, deviceVars
  <2>5. \A i \in 1 .. Len(applied) : applied[i] \in Rows
    BY DEF TypeOK
  <2>6. landed \subseteq Rows /\ delivered \subseteq Rows /\ acks \subseteq SUBSET Rows
    BY DEF TypeOK
  <2>7. /\ \A i \in 1 .. Len(wire') : wire'[i] \subseteq Inserted'
        /\ todo' \subseteq Inserted'
    BY <2>2, <2>4 DEF Flow
  <2>8. /\ \A s \in landed' : Settled(s)'
        /\ \A s \in delivered' : Settled(s)'
        /\ \A S \in acks' : \A s \in S : Settled(s)'
    BY <2>3, <2>4, <2>6 DEF Flow
  <2>9. \A i \in 1 .. Len(applied) : Settled(applied[i])'
    BY <2>3, <2>4, <2>5 DEF Flow
  <2>10. applied' = applied
    BY <2>4
  <2> QED
    BY <2>7, <2>8, <2>9, <2>10 DEF Flow, Settled
<1>2. CASE NotifyArrives \/ ListenerReconnects \/ Enable \/ Park
           \/ WaitTimesOut \/ CheckEnabled \/ Connect \/ EndOfStream
           \/ ListenerDrops \/ Disable \/ UNCHANGED vars
  BY <1>2, <1>b, Zenon
  DEF NotifyArrives, ListenerReconnects, Enable, Park, WaitTimesOut,
      CheckEnabled, Connect, EndOfStream, ListenerDrops, Disable, vars,
      dbVars, serverVars, deviceVars
<1>3. CASE Flush
  <2>1. UNCHANGED <<created, injected, todo, landed, applied, acks, delivered>>
    BY <1>3 DEF Flush, dbVars, deviceVars
  <2>2. \A i \in 1 .. Len(wire') : wire'[i] \subseteq Inserted
    BY <1>3 DEF Flush, Undelivered, Flow, TypeOK
  <2> QED
    BY <2>1, <2>2 DEF Flow, Settled, Inserted, Handled
<1>4. CASE ReadFrame
  <2>1. UNCHANGED <<created, injected, applied, acks, delivered>>
    BY <1>4 DEF ReadFrame, dbVars, serverVars
  <2>a. /\ wire \in Seq(SUBSET Rows) /\ wire # <<>>
        /\ wire' = Tail(wire) /\ todo' = Head(wire)
    BY <1>4 DEF ReadFrame, TypeOK
  <2>2. todo' \subseteq Inserted
    <3>1. 1 \in 1 .. Len(wire) /\ todo' = wire[1]
      BY <2>a
    <3> QED
      BY <3>1 DEF Flow
  <2>3. \A i \in 1 .. Len(wire') : wire'[i] \subseteq Inserted
    <3>1. \A i \in 1 .. Len(wire') : i + 1 \in 1 .. Len(wire) /\ wire'[i] = wire[i + 1]
      BY <2>a
    <3> QED
      BY <3>1 DEF Flow
  <2>4. landed' = {}
    BY <1>4 DEF ReadFrame
  <2> QED
    BY <2>1, <2>2, <2>3, <2>4 DEF Flow, Settled, Inserted, Handled
<1>5. CASE SendAck
  <2>1. UNCHANGED <<created, injected, wire, todo, applied, delivered>>
    BY <1>5 DEF SendAck, dbVars, serverVars
  <2>2. landed' = {} /\ acks' \subseteq acks \cup {landed}
    BY <1>5 DEF SendAck
  <2> QED
    BY <2>1, <2>2 DEF Flow, Settled, Inserted, Handled
<1>6. ASSUME NEW r \in Rows, SkipDuplicate(r) PROVE Flow'
  <2>1. UNCHANGED <<created, injected, wire, applied, acks, delivered>>
    BY <1>6 DEF SkipDuplicate, dbVars, serverVars
  <2>2. landed' = landed \cup {r} /\ todo' \subseteq todo
    BY <1>6 DEF SkipDuplicate
  <2>3. Settled(r)
    BY <1>6, InSequence DEF SkipDuplicate, Flow
  <2> QED
    BY <2>1, <2>2, <2>3 DEF Flow, Settled, Inserted, Handled
<1>7. ASSUME NEW r \in Rows, Inject(r) PROVE Flow'
  <2>1. UNCHANGED <<created, wire, acks, delivered>>
    BY <1>7 DEF Inject, dbVars, serverVars
  <2>2. Kept
    BY <1>7, <2>1 DEF Inject, TypeOK
  <2>3. Settled(r)'
    BY <1>7, <2>1 DEF Inject, IsNext, Settled, Flow, Inserted, Handled, TypeOK
  <2>4. landed' = landed \cup {r} /\ todo' \subseteq todo
    BY <1>7 DEF Inject
  <2>5. (\A i \in 1 .. Len(applied) : Settled(applied[i]))'
    <3>1. \A x \in Rows : x = r \/ Settled(x) => Settled(x)'
      BY <1>a, <2>2, <2>3
    <3>2. \A i \in 1 .. Len(applied') :
            \/ applied'[i] = r
            \/ \E j \in 1 .. Len(applied) : applied'[i] = applied[j]
      BY <1>7, RememberElements DEF Inject
    <3>3. \A i \in 1 .. Len(applied') : applied'[i] \in Rows
      BY <1>0 DEF TypeOK
    <3> QED
      BY <3>1, <3>2, <3>3 DEF Flow
  <2>6. Inserted' = Inserted
    BY <2>1 DEF Inserted
  <2>7. \A x \in Rows : Settled(x) => Settled(x)'
    BY <1>a, <2>2
  <2>8. /\ (\A i \in 1 .. Len(wire) : wire[i] \subseteq Inserted)'
        /\ (todo \subseteq Inserted)'
    BY <2>1, <2>4, <2>6 DEF Flow
  <2>9. (\A x \in landed : Settled(x))'
    BY <2>3, <2>4, <2>7 DEF Flow, TypeOK
  <2>10. /\ (\A S \in acks : \A x \in S : Settled(x))'
         /\ (\A x \in delivered : Settled(x))'
    BY <2>1, <2>7 DEF Flow, TypeOK
  <2> QED
    BY <2>5, <2>8, <2>9, <2>10 DEF Flow
<1>8. ASSUME NEW S \in acks, AckArrives(S) PROVE Flow'
  <2>1. UNCHANGED <<created, injected, wire, todo, landed, applied>>
    BY <1>8 DEF AckArrives, serverVars, deviceVars
  <2>2. acks' \subseteq acks /\ delivered' = delivered \cup S
    BY <1>8 DEF AckArrives
  <2> QED
    BY <2>1, <2>2 DEF Flow, Settled, Inserted, Handled
<1>9. ASSUME NEW S \in acks, AckLost(S) PROVE Flow'
  <2>1. UNCHANGED <<created, injected, wire, todo, landed, applied, delivered>>
    BY <1>9 DEF AckLost, dbVars, serverVars, deviceVars
  <2>2. acks' \subseteq acks
    BY <1>9 DEF AckLost
  <2> QED
    BY <2>1, <2>2 DEF Flow, Settled, Inserted, Handled
<1>10. ASSUME NEW r \in Rows, InjectRefused(r) PROVE Flow'
  <2>1. UNCHANGED <<created, injected, wire, landed, applied, acks, delivered>>
    BY <1>10 DEF InjectRefused, dbVars, serverVars
  <2>2. todo' \subseteq todo
    BY <1>10 DEF InjectRefused
  <2> QED
    BY <2>1, <2>2 DEF Flow, Settled, Inserted, Handled
<1>11. ASSUME NEW r \in Rows, InjectThrows(r) PROVE Flow'
  <2>1. UNCHANGED <<created, injected, wire, applied, acks, delivered>>
    BY <1>11 DEF InjectThrows, dbVars, serverVars
  <2>2. todo' = {} /\ landed' = {}
    BY <1>11 DEF InjectThrows
  <2> QED
    BY <2>1, <2>2 DEF Flow, Settled, Inserted, Handled
<1>12. CASE StreamBreaks
  <2>1. /\ UNCHANGED <<created, injected, todo, landed, applied, acks, delivered>>
        /\ wire' = <<>>
    BY <1>12 DEF StreamBreaks, dbVars, deviceVars
  <2> QED
    BY <2>1 DEF Flow, Settled, Inserted, Handled
<1>13. CASE DeviceRestarts
  <2>1. /\ UNCHANGED <<created, injected, acks, delivered>>
        /\ wire' = <<>> /\ todo' = {} /\ landed' = {} /\ applied' = <<>>
    BY <1>13 DEF DeviceRestarts, dbVars
  <2> QED
    BY <2>1 DEF Flow, Settled, Inserted, Handled
<1>14. ASSUME NEW r \in Rows, InjectDoubtful(r) PROVE Flow'
  <2>1. /\ UNCHANGED <<created, wire, landed, applied, acks, delivered>>
        /\ todo' \subseteq todo
    BY <1>14 DEF InjectDoubtful, dbVars, serverVars
  <2>2. Kept
    BY <1>14, <2>1 DEF InjectDoubtful, TypeOK
  <2>3. \A s \in Rows : Settled(s) => Settled(s)'
    BY <1>a, <2>2
  <2>4. /\ \A i \in 1 .. Len(wire') : wire'[i] \subseteq Inserted'
        /\ todo' \subseteq Inserted'
    BY <2>1 DEF Flow, Inserted
  <2>5. \A i \in 1 .. Len(applied) : applied[i] \in Rows
    BY DEF TypeOK
  <2>6. landed \subseteq Rows /\ delivered \subseteq Rows /\ acks \subseteq SUBSET Rows
    BY DEF TypeOK
  <2>7. /\ \A s \in landed' : Settled(s)'
        /\ \A s \in delivered' : Settled(s)'
        /\ \A S \in acks' : \A s \in S : Settled(s)'
    BY <2>1, <2>3, <2>6 DEF Flow
  <2>8. \A i \in 1 .. Len(applied) : Settled(applied[i])'
    BY <2>1, <2>3, <2>5 DEF Flow
  <2> QED
    BY <2>1, <2>4, <2>7, <2>8 DEF Flow, Settled
<1> QED
  BY <1>1, <1>2, <1>3, <1>4, <1>5, <1>6, <1>7, <1>8, <1>9, <1>10, <1>11,
     <1>12, <1>13, <1>14
  DEF Next, Server, Device, Faulty

LEMMA Invariance == Spec => []IInv
<1>1. Init => IInv
  BY TypeInit, FlowInit DEF IInv
<1>2. IInv /\ [Next]_vars => IInv'
  BY TypeStep, FlowStep DEF IInv
<1> QED
  BY <1>1, <1>2, PTL DEF Spec

\* The types of the model hold throughout, and appliedInbox never outgrows its
\* cap.
THEOREM TypeCorrect == Spec => []TypeOK
BY Invariance, PTL DEF IInv

\* delivered_at is only ever set on a row that reached the agent.
THEOREM DeliveredCorrect == Spec => []DeliveredReachedAgent
<1>1. IInv => DeliveredReachedAgent
  BY DEF IInv, Flow, Settled, DeliveredReachedAgent
<1> QED
  BY <1>1, Invariance, PTL

-----------------------------------------------------------------------------
(* At most once per process.  The cap of appliedInbox is what makes this an *)
(* argument: as long as it has room for every row, nothing is ever evicted, *)
(* because no row is remembered twice.                                      *)

Distinct(s) == \A i, j \in 1 .. Len(s) : s[i] = s[j] => i = j

Once ==
  /\ Distinct(applied)
  /\ \A r \in Rows : thisLife[r] <= 1 + doubtful[r]
  /\ \A r \in Rows : thisLife[r] > doubtful[r] => r \in ToSet(applied)

LEMMA DistinctIsShort ==
  ASSUME NEW s \in Seq(Rows), Distinct(s)
  PROVE  Len(s) <= Cardinality(Rows)
<1>1. s \in Injection(1 .. Len(s), Rows)
  BY DEF Distinct, Injection, IsInjective
<1>2. Cardinality(1 .. Len(s)) = Len(s)
  <2>1. Len(s) \in Nat
    OBVIOUS
  <2> QED
    BY <2>1, FS_Interval, SMTT(20)
<1>3. Cardinality(1 .. Len(s)) <= Cardinality(Rows)
  BY <1>1, RowsAssumption, FS_Injection DEF RowsAssumption
<1> QED
  BY <1>2, <1>3

\* Remembering a new row keeps what was there, if the cap has room.
LEMMA RememberKeeps ==
  ASSUME TypeOK, Distinct(applied), Cardinality(Rows) <= AppliedCap,
         NEW r \in Rows, r \notin ToSet(applied), Remember(r)
  PROVE  applied' = Append(applied, r) /\ Distinct(applied')
<1> DEFINE all == Append(applied, r)
<1>1. all \in Seq(Rows) /\ Len(all) = Len(applied) + 1
  BY DEF TypeOK
<1>2. \A i \in 1 .. Len(applied) : all[i] = applied[i] /\ applied[i] # r
  BY DEF TypeOK, ToSet
<1>3. all[Len(all)] = r
  BY DEF TypeOK
<1>4. Distinct(all)
  <2> SUFFICES ASSUME NEW i \in 1 .. Len(all), NEW j \in 1 .. Len(all),
                      all[i] = all[j]
               PROVE  i = j
    BY DEF Distinct
  <2> HIDE DEF all
  <2>1. CASE i \in 1 .. Len(applied) /\ j \in 1 .. Len(applied)
    BY <1>2, <2>1 DEF Distinct
  <2>2. CASE i = Len(all) /\ j = Len(all)
    BY <2>2
  <2>3. CASE i = Len(all) /\ j \in 1 .. Len(applied)
    BY <1>2, <1>3, <2>3
  <2>4. CASE j = Len(all) /\ i \in 1 .. Len(applied)
    BY <1>2, <1>3, <2>4
  <2>5. Len(applied) \in Nat
    BY DEF TypeOK
  <2> QED
    BY <1>1, <2>1, <2>2, <2>3, <2>4, <2>5
<1>5. Len(all) <= AppliedCap
  <2>1. Len(all) <= Cardinality(Rows)
    BY <1>1, <1>4, DistinctIsShort
  <2>2. Cardinality(Rows) \in Nat
    BY RowsAssumption, FS_CardinalityType DEF RowsAssumption
  <2> QED
    BY <1>1, <2>1, <2>2, BoundsAssumption DEF BoundsAssumption
<1> QED
  BY <1>1, <1>4, <1>5, BoundsAssumption DEF Remember, BoundsAssumption

LEMMA OnceInit == Init => Once
BY DEF Init, Once, Distinct

LEMMA OnceStep ==
  ASSUME Cardinality(Rows) <= AppliedCap, TypeOK, Once, [Next]_vars
  PROVE  Once'
<1>1. ASSUME UNCHANGED <<applied, thisLife, doubtful>> PROVE Once'
  BY <1>1 DEF Once, Distinct, ToSet
<1>2. ASSUME NEW r \in Rows, Inject(r) PROVE Once'
  <2>1. applied' = Append(applied, r) /\ Distinct(applied')
    BY <1>2, RememberKeeps DEF Inject, Once
  <2>2. ToSet(applied') = ToSet(applied) \cup {r}
    BY <2>1, ToSetAppend DEF TypeOK
  <2>3. /\ doubtful' = doubtful
        /\ \A s \in Rows : \/ s # r /\ thisLife'[s] = thisLife[s]
                           \/ s = r /\ thisLife'[s] <= thisLife[s] + 1
    BY <1>2 DEF Inject, TypeOK
  <2>4. /\ r \notin ToSet(applied)
        /\ thisLife \in [Rows -> Nat] /\ thisLife' \in [Rows -> Nat]
        /\ doubtful \in [Rows -> Nat]
    BY <1>2 DEF Inject, TypeOK
  <2>5. \A s \in Rows : thisLife'[s] <= 1 + doubtful'[s]
    <3> TAKE s \in Rows
    <3>1. CASE s # r
      BY <2>3, <3>1 DEF Once
    <3>2. CASE s = r
      <4>1. ~(thisLife[r] > doubtful[r])
        BY <2>4 DEF Once
      <4> QED
        BY <2>3, <2>4, <3>2, <4>1
    <3> QED
      BY <3>1, <3>2
  <2>6. \A s \in Rows : thisLife'[s] > doubtful'[s] => s \in ToSet(applied')
    BY <2>2, <2>3 DEF Once
  <2> QED
    BY <2>1, <2>5, <2>6 DEF Once
<1>9. ASSUME NEW r \in Rows, InjectDoubtful(r) PROVE Once'
  <2>1. /\ applied' = applied
        /\ \A s \in Rows : \/ /\ s # r
                              /\ thisLife'[s] = thisLife[s]
                              /\ doubtful'[s] = doubtful[s]
                           \/ /\ s = r
                              /\ thisLife'[s] = thisLife[s] + 1
                              /\ doubtful'[s] = doubtful[s] + 1
    BY <1>9 DEF InjectDoubtful, TypeOK
  <2>2. \A s \in Rows : /\ thisLife[s] \in Nat /\ doubtful[s] \in Nat
                        /\ thisLife[s] <= 1 + doubtful[s]
                        /\ thisLife[s] > doubtful[s] => s \in ToSet(applied)
    BY DEF Once, TypeOK
  <2>3. \A s \in Rows : thisLife'[s] <= 1 + doubtful'[s]
    BY <2>1, <2>2
  <2>4. \A s \in Rows : thisLife'[s] > doubtful'[s] => s \in ToSet(applied')
    BY <2>1, <2>2
  <2> QED
    BY <2>1, <2>3, <2>4 DEF Once, Distinct
<1>3. CASE DeviceRestarts
  BY <1>3 DEF DeviceRestarts, Once, Distinct
<1>4. ASSUME NEW r \in Rows,
             Enqueue(r) \/ SkipDuplicate(r) \/ InjectRefused(r) \/ InjectThrows(r)
      PROVE  Once'
  BY <1>1, <1>4 DEF Enqueue, SkipDuplicate, InjectRefused, InjectThrows, deviceVars
<1>5. ASSUME NEW S \in acks, AckArrives(S) \/ AckLost(S) PROVE Once'
  BY <1>1, <1>5 DEF AckArrives, AckLost, deviceVars
<1>6. CASE Server
  BY <1>1, <1>6 DEF Server, Flush, Park, WaitTimesOut, CheckEnabled, deviceVars
<1>7. CASE Connect \/ ReadFrame \/ SendAck \/ EndOfStream
  BY <1>1, <1>7 DEF Connect, ReadFrame, SendAck, EndOfStream, deviceVars
<1>8. CASE NotifyArrives \/ ListenerReconnects \/ Enable \/ ListenerDrops
           \/ Disable \/ StreamBreaks \/ UNCHANGED vars
  BY <1>1, <1>8
  DEF NotifyArrives, ListenerReconnects, Enable, ListenerDrops, Disable,
      StreamBreaks, vars, deviceVars
<1> QED
  BY <1>2, <1>3, <1>4, <1>5, <1>6, <1>7, <1>8, <1>9 DEF Next, Device, Faulty

\* While appliedInbox has room for every row, no plugin process injects a row
\* twice, whatever is re-served to it, but once more for each turn that the
\* app-server queued without being heard to.
THEOREM OncePerProcessCorrect ==
  ASSUME Cardinality(Rows) <= AppliedCap
  PROVE  Spec => []OncePerProcess
<1>1. Init => TypeOK /\ Once
  BY TypeInit, OnceInit
<1>2. TypeOK /\ Once /\ [Next]_vars => (TypeOK /\ Once)'
  BY TypeStep, OnceStep
<1>3. Once => OncePerProcess
  BY DEF Once, OncePerProcess
<1> QED
  BY <1>1, <1>2, <1>3, PTL DEF Spec

-----------------------------------------------------------------------------
(* The inbox implements the at-least-once channel.                          *)

LEMMA AbstractInit == Init => Abstract!Init
BY DEF Init, Abstract!Init, Inserted

LEMMA AbstractStep == IInv /\ [Next]_vars => [Abstract!Next]_(Abstract!absVars)
<1> SUFFICES ASSUME TypeOK, Flow, [Next]_vars
             PROVE  [Abstract!Next]_(Abstract!absVars)
  BY DEF IInv
<1>1. ASSUME UNCHANGED <<created, injected, delivered>>
      PROVE  UNCHANGED Abstract!absVars
  BY <1>1 DEF Abstract!absVars, Inserted
<1>2. ASSUME NEW r \in Rows, Enqueue(r) PROVE Abstract!Next
  <2>1. Inserted' = Inserted \cup {r}
    BY <1>2 DEF Enqueue, Inserted, TypeOK
  <2>2. Abstract!Submit(r)
    BY <1>2, <2>1 DEF Enqueue, deviceVars, Abstract!Submit
  <2> QED
    BY <2>2 DEF Abstract!Next
<1>3. ASSUME NEW r \in Rows, Inject(r)
      PROVE  Abstract!Next \/ UNCHANGED Abstract!absVars
  <2>1. r \in Inserted /\ UNCHANGED <<created, delivered>>
    BY <1>3 DEF Inject, IsNext, Flow, dbVars
  <2>2. CASE r \in Unbound
    BY <1>1, <1>3, <2>1, <2>2 DEF Inject, TypeOK
  <2>3. CASE r \notin Unbound
    <3>1. injected' = [injected EXCEPT ![r] = @ + 1]
      BY <1>3, <2>3 DEF Inject
    <3>2. Abstract!Hand(r)
      BY <2>1, <2>3, <3>1 DEF Abstract!Hand, Inserted
    <3> QED
      BY <3>2 DEF Abstract!Next
  <2> QED
    BY <2>2, <2>3
<1>4. ASSUME NEW S \in acks, AckArrives(S) PROVE Abstract!Next
  <2>1. Abstract!Confirm(S)
    BY <1>4 DEF AckArrives, deviceVars, Abstract!Confirm, Flow, Settled,
                Handled, Inserted
  <2> QED
    BY <2>1 DEF Abstract!Next, TypeOK
<1>5. ASSUME NEW r \in Rows,
             SkipDuplicate(r) \/ InjectRefused(r) \/ InjectThrows(r)
      PROVE  UNCHANGED Abstract!absVars
  BY <1>1, <1>5 DEF SkipDuplicate, InjectRefused, InjectThrows, dbVars
<1>6. ASSUME NEW S \in acks, AckLost(S) PROVE UNCHANGED Abstract!absVars
  BY <1>1, <1>6 DEF AckLost, dbVars, deviceVars
<1>7. CASE Server
  BY <1>1, <1>7
  DEF Server, Flush, Park, WaitTimesOut, CheckEnabled, dbVars, deviceVars
<1>8. CASE Connect \/ ReadFrame \/ SendAck \/ EndOfStream
  BY <1>1, <1>8 DEF Connect, ReadFrame, SendAck, EndOfStream, dbVars, deviceVars
<1>9. CASE NotifyArrives \/ ListenerReconnects \/ Enable \/ ListenerDrops
           \/ Disable \/ StreamBreaks \/ DeviceRestarts \/ UNCHANGED vars
  BY <1>1, <1>9
  DEF NotifyArrives, ListenerReconnects, Enable, ListenerDrops, Disable,
      StreamBreaks, DeviceRestarts, vars, dbVars, deviceVars
<1>10. ASSUME NEW r \in Rows, InjectDoubtful(r) PROVE Abstract!Next
  <2>1. /\ r \in Inserted /\ r \notin Unbound
        /\ UNCHANGED <<created, delivered>>
        /\ injected' = [injected EXCEPT ![r] = @ + 1]
    BY <1>10, RowsAssumption
    DEF InjectDoubtful, IsNext, Flow, dbVars, RowsAssumption
  <2>2. Abstract!Hand(r)
    BY <2>1 DEF Abstract!Hand, Inserted
  <2> QED
    BY <2>2 DEF Abstract!Next
<1> QED
  BY <1>2, <1>3, <1>4, <1>5, <1>6, <1>7, <1>8, <1>9, <1>10 DEF Next, Device, Faulty

\* Every behaviour of the inbox is a behaviour of the at-least-once channel.
THEOREM Refinement == Spec => ImplementsAtLeastOnce
BY AbstractInit, AbstractStep, Invariance, PTL
DEF Spec, ImplementsAtLeastOnce, Abstract!Spec

-----------------------------------------------------------------------------

\* What a step of the watcher or of the machine does to the session rows.
LifeStep == LifeNext \/ LifeTick \/ UNCHANGED lifeVars

\* The row of every session and its requests, and the flags of the notice.
LifeTyped ==
  /\ LifeTypeOK /\ request \in [Sessions -> {"none", "storing", "open"}] /\ armed \in BOOLEAN

\* While the machine is armed, or a notice is still to be sent, nothing was announced since the
\* user's last text.
Announced == texts <= 1 /\ (armed => texts = 0 /\ notice # "due") /\ (notice = "due" => texts = 0)

Decided == {"ok", "given_up", "landed", "missed", "retracted", "cut"}
Watched == [pc : Waits \cup {"live1", "live2"} \cup Decided, left : 0 .. Debounce + Retract, checked : BOOLEAN,
            until : 0 .. Debounce]

WatchTyped ==
  /\ acked \subseteq Sessions /\ woken \subseteq acked /\ clock \in 0 .. Debounce
  /\ watch \in [Sessions -> Watched]

\* How far the clock is while a row is watched, if no query of it failed: each wait lasts to
\* its end, and nothing passes between two of them.
OnSchedule(s) ==
  /\ watch[s].pc = "live1" => clock = Quick
  /\ watch[s].pc = "grace" => clock + watch[s].left = Quick + Grace
  /\ watch[s].pc = "live2" => clock = Quick + Grace
  /\ watch[s].pc = "rest" => clock + watch[s].left = Debounce
  /\ watch[s].pc \in {"live1", "grace", "live2", "rest"} => watch[s].until = Debounce

Timed == \A s \in Sessions :
  /\ watch[s].pc = "quick" => clock + watch[s].left = Quick
  /\ s \notin failed => OnSchedule(s)

WatchInv == LifeTyped /\ Announced /\ WatchTyped /\ Timed

LEMMA LesserOfTwo ==
  ASSUME NEW a \in Int, NEW b \in Int
  PROVE  Min({a, b}) = IF a <= b THEN a ELSE b
<1>1. CASE a <= b
  <2>1. a \in {a, b} /\ \A y \in {a, b} : a =< y
    BY <1>1
  <2>2. \A x \in {a, b} : (\A y \in {a, b} : x =< y) => x = a
    BY <1>1
  <2> QED
    BY <1>1, <2>1, <2>2 DEF Min
<1>2. CASE ~ (a <= b)
  <2>1. b \in {a, b} /\ \A y \in {a, b} : b =< y
    BY <1>2
  <2>2. \A x \in {a, b} : (\A y \in {a, b} : x =< y) => x = b
    BY <1>2
  <2> QED
    BY <1>2, <2>1, <2>2 DEF Min
<1> QED
  BY <1>1, <1>2

\* What the watcher's own steps leave alone: every step of it is a step of the machine or none.
LEMMA WatchStepsLife ==
  WatchNext => LifeStep
BY DEF WatchNext, LifeStep, Watches, Check, AsksLive, Warn, Retracts, Restart, Tick, Ack

-----------------------------------------------------------------------------
(* The sessions. *)

SessionRow == [state : States \cup {"ended"}, age : 0 .. Offline]

LEMMA RowsInit ==
  WatchInit => LifeTyped /\ Announced
<1> SUFFICES ASSUME WatchInit
             PROVE  LifeTyped /\ Announced
  OBVIOUS
<1>1. Offline \in Nat /\ Chat \in Nat
  BY LifeAssumption
<1>2. [state |-> "active", age |-> 0] \in SessionRow
  BY <1>1 DEF SessionRow, States
<1>3. row \in [Sessions -> SessionRow]
  BY <1>2 DEF WatchInit, LifeInit
<1> QED
  BY <1>1, <1>3 DEF WatchInit, LifeInit, LifeTyped, LifeTypeOK, Announced, SessionRow

\* A written row is a row.
LEMMA UpsertedTyped ==
  ASSUME NEW r \in SessionRow, NEW state \in {"none", "waiting"}, NEW revive \in BOOLEAN
  PROVE  Upserted(r, state, revive) \in SessionRow
<1>1. Offline \in Nat
  BY LifeAssumption
<1> QED
  BY <1>1 DEF Upserted, SessionRow, States

LEMMA RowsStep ==
  LifeTyped /\ LifeStep => LifeTyped'
<1> SUFFICES ASSUME LifeTyped, LifeStep
             PROVE  LifeTyped'
  OBVIOUS
<1>n. Offline \in Nat /\ Chat \in Nat
  BY LifeAssumption
<1>t. row \in [Sessions -> SessionRow] /\ quiet \in 0 .. Chat /\ texts \in 0 .. 2 /\ armed \in BOOLEAN
      /\ notice \in {"none", "due", "overtaken"}
      /\ request \in [Sessions -> {"none", "storing", "open"}]
  BY DEF LifeTyped, LifeTypeOK, SessionRow
<1>s. \A t \in 0 .. Offline : Min({t + 1, Offline}) \in 0 .. Offline
  BY <1>n, LesserOfTwo
<1>q. Min({quiet + 1, Chat}) \in 0 .. Chat
  BY <1>n, <1>t, LesserOfTwo
<1>x. Min({texts + 1, 2}) \in 0 .. 2
  BY <1>t, LesserOfTwo
<1> SUFFICES row' \in [Sessions -> SessionRow] /\ quiet' \in 0 .. Chat /\ texts' \in 0 .. 2
             /\ armed' \in BOOLEAN /\ request' \in [Sessions -> {"none", "storing", "open"}]
             /\ notice' \in {"none", "due", "overtaken"}
  BY DEF LifeTyped, LifeTypeOK, SessionRow
<1>1. CASE Reap
  BY <1>1, <1>t DEF Reap, SessionRow, States, noticeVars
<1>2. CASE ClaimLost
  BY <1>2, <1>t DEF ClaimLost
<1>10. ASSUME NEW reached \in BOOLEAN, Announce(reached)
       PROVE  /\ notice' = "none" /\ texts' \in 0 .. 2 /\ UNCHANGED <<row, request, quiet, armed>>
  BY <1>10, <1>t, <1>x DEF Announce
<1>3. CASE ToggleAfk
  <2>1. UNCHANGED <<row, request, quiet, armed, texts, notice>>
    BY <1>3 DEF ToggleAfk, noticeVars
  <2> QED
    BY <1>t, <2>1
<1>9. CASE Inbound
  <2>1. quiet' = 0 /\ texts' = 0 /\ armed' = TRUE /\ UNCHANGED <<row, request>>
        /\ notice' \in {"none", "overtaken"}
    BY <1>9 DEF Inbound, Rearms
  <2>2. quiet' \in 0 .. Chat /\ texts' \in 0 .. 2
    BY <1>n, <2>1
  <2> QED
    BY <1>t, <2>1, <2>2
<1>4. ASSUME NEW s \in Sessions, PostBeat(s) \/ LoseBeat(s) \/ Heartbeat(s) \/ TailFlush(s)
      PROVE  row' \in [Sessions -> SessionRow] /\ UNCHANGED <<quiet, texts, armed, notice, request>>
  BY <1>4, <1>t, UpsertedTyped DEF PostBeat, LoseBeat, Heartbeat, TailFlush, Flushed, noticeVars
<1>5. ASSUME NEW s \in Sessions, AttentionArrives(s) \/ AttentionStored(s) \/ Resolve(s) \/ Exit(s)
      PROVE  row' \in [Sessions -> SessionRow] /\ request' \in [Sessions -> {"none", "storing", "open"}]
             /\ UNCHANGED <<quiet, texts, armed, notice>>
  <2>1. CASE AttentionArrives(s)
    BY <2>1, <1>t, UpsertedTyped DEF AttentionArrives, noticeVars
  <2>3. CASE AttentionStored(s)
    BY <2>3, <1>t, UpsertedTyped DEF AttentionStored, noticeVars
  <2>2. CASE Resolve(s) \/ Exit(s)
    BY <2>2, <1>t, UpsertedTyped DEF Resolve, Exit, noticeVars
  <2> QED
    BY <1>5, <2>1, <2>2, <2>3
<1>6. ASSUME NEW s \in Sessions, NEW state \in States, Ping(s, state)
      PROVE  row' \in [Sessions -> SessionRow] /\ UNCHANGED <<quiet, texts, armed, notice, request>>
  BY <1>6, <1>t DEF Ping, SessionRow, noticeVars
<1>7. CASE LifeTick
  <2>1. row' \in [Sessions -> SessionRow]
    BY <1>7, <1>t, <1>s DEF LifeTick, SessionRow
  <2> QED
    BY <1>7, <2>1, <1>t, <1>q DEF LifeTick
<1>8. CASE UNCHANGED lifeVars
  BY <1>8, <1>t DEF lifeVars, noticeVars
<1>11. CASE Announces
  BY <1>10, <1>11, <1>t DEF Announces
<1> QED
  BY <1>1, <1>2, <1>3, <1>4, <1>5, <1>6, <1>7, <1>8, <1>9, <1>11, <1>t DEF LifeStep, LifeNext

\* The claim takes the arming with it, and only the user's text gives it back.
LEMMA AnnouncedStep ==
  LifeTyped /\ Announced /\ LifeStep => Announced'
<1> SUFFICES ASSUME LifeTyped, Announced, LifeStep
             PROVE  Announced'
  OBVIOUS
<1>t. texts \in 0 .. 2 /\ armed \in BOOLEAN
  BY DEF LifeTyped, LifeTypeOK
<1>1. CASE ClaimLost
  <2>1. texts = 0 /\ armed' = FALSE /\ texts' = texts
    BY <1>1 DEF ClaimLost, Due, Announced
  <2> QED
    BY <2>1 DEF Announced
<1>2. CASE Inbound
  BY <1>2 DEF Inbound, Announced
<1>4. ASSUME NEW reached \in BOOLEAN, Announce(reached)
      PROVE  Announced'
  <2>1. notice' = "none" /\ armed' = armed
    BY <1>4 DEF Announce
  <2>2. CASE notice = "due" /\ reached
    <3>1. texts = 0 /\ ~armed
      BY <2>2 DEF Announced
    <3>2. texts' = 1
      BY <1>4, <2>2, <3>1, LesserOfTwo DEF Announce
    <3> QED
      BY <2>1, <3>1, <3>2 DEF Announced
  <2>3. CASE ~(notice = "due" /\ reached)
    <3>1. texts' = texts
      BY <1>4, <2>3 DEF Announce
    <3> QED
      BY <2>1, <3>1 DEF Announced
  <2> QED
    BY <2>2, <2>3
<1>3. CASE UNCHANGED <<texts, armed, notice>>
  BY <1>3 DEF Announced
<1> QED
  BY <1>1, <1>2, <1>3, <1>4 DEF LifeStep, LifeNext, LifeTick, lifeVars, noticeVars, Announces, Reap,
    ToggleAfk, PostBeat, LoseBeat, Heartbeat, TailFlush, AttentionArrives, AttentionStored, Resolve, Exit, Ping

\* No step brings an ended session back, unless it handles a beat of it that was on its way or
\* stores a request of it.
LEMMA NoGhostStep ==
  ASSUME LifeTyped, LifeStep, NEW s \in Sessions,
         row[s].state = "ended", s \notin beats \ beats', ~(request[s] = "none" /\ request'[s] = "storing")
  PROVE  row'[s].state = "ended"
<1>t. row \in [Sessions -> SessionRow] /\ request \in [Sessions -> {"none", "storing", "open"}]
  BY DEF LifeTyped, LifeTypeOK, SessionRow
<1>1. CASE Reap
  BY <1>1, <1>t DEF Reap, SessionRow
<1>2. CASE LifeTick
  BY <1>2, <1>t DEF LifeTick, SessionRow
<1>3. ASSUME NEW t \in Sessions, Heartbeat(t)
      PROVE  row'[s] = row[s]
  <2>1. t # s
    BY <1>3 DEF Heartbeat
  <2> QED
    BY <1>3, <1>t, <2>1 DEF Heartbeat
<1>4. ASSUME NEW t \in Sessions, TailFlush(t)
      PROVE  row'[s].state = "ended"
  BY <1>4, <1>t DEF TailFlush, Flushed, Upserted, SessionRow
<1>5. ASSUME NEW t \in Sessions, AttentionArrives(t)
      PROVE  row'[s] = row[s]
  <2>1. t # s
    BY <1>5, <1>t DEF AttentionArrives
  <2> QED
    BY <1>5, <1>t, <2>1 DEF AttentionArrives
<1>6. ASSUME NEW t \in Sessions, NEW state \in States, Ping(t, state)
      PROVE  row'[s] = row[s]
  BY <1>6, <1>t DEF Ping, Applies
<1>7. CASE UNCHANGED row
  BY <1>7
<1> QED
  BY <1>1, <1>2, <1>3, <1>4, <1>5, <1>6, <1>7 DEF LifeStep, LifeNext, lifeVars, ClaimLost,
    Announces, Announce, PostBeat, LoseBeat, Inbound, ToggleAfk, AttentionStored, Resolve, Exit

-----------------------------------------------------------------------------
(* The watches. *)

LEMMA Durations ==
  /\ Quick \in Nat /\ Grace \in Nat /\ Debounce \in Nat /\ Retract \in Nat /\ 0 < Quick
  /\ Quick + Grace < Debounce
BY WatchAssumption

\* What comes after each wait.
LEMMA AfterWaits ==
  ASSUME NEW pc \in Waits
  PROVE  /\ pc = "quick" => After(pc) = "live1"
         /\ pc = "grace" => After(pc) = "live2"
         /\ pc = "rest" => After(pc) = "given_up"
         /\ pc = "late" => After(pc) = "missed"
BY DEF After, Waits

\* A wait and a moment without one are watches.
LEMMA WaitingTyped ==
  ASSUME NEW pc \in Waits \cup {"live1", "live2"} \cup Decided, NEW time \in 0 .. Debounce + Retract,
         NEW until \in 0 .. Debounce
  PROVE  Waiting(pc, time, until) \in Watched /\ At(pc) \in Watched
<1>1. 0 \in 0 .. Debounce + Retract /\ 0 \in 0 .. Debounce
  BY Durations
<1> QED
  BY <1>1 DEF Waiting, At, Watched

LEMMA WatchInitial ==
  WatchInit => WatchTyped /\ Timed
<1> SUFFICES ASSUME WatchInit
             PROVE  WatchTyped /\ Timed
  OBVIOUS
<1>1. Quick \in 0 .. Debounce + Retract /\ 0 \in 0 .. Debounce
  BY Durations
<1>2. Waiting("quick", Quick, 0) \in Watched
  BY <1>1 DEF Waiting, Watched, Waits
<1>3. WatchTyped
  BY <1>1, <1>2 DEF WatchInit, WatchTyped
<1>4. \A s \in Sessions : watch[s].pc = "quick" /\ watch[s].left = Quick
  BY DEF WatchInit, Waiting
<1>5. Timed
  BY <1>4, Durations DEF WatchInit, Timed, OnSchedule
<1> QED
  BY <1>3, <1>5

\* What a check of one row's wait does to its watch: the ACK is seen, the wait goes on, or it
\* is over.
LEMMA CheckGoes ==
  ASSUME WatchTyped, NEW s \in Sessions, NEW works \in BOOLEAN, Check(s, works)
  PROVE  /\ watch[s].pc \in Waits
         /\ ~watch[s].checked \/ watch[s].left = 0 \/ s \in woken
         /\ watch' = [watch EXCEPT ![s] = watch'[s]]
         /\ \/ watch'[s] \in {At("landed"), At("ok")} /\ works /\ s \in acked
            \/ watch'[s] = [watch[s] EXCEPT !.checked = TRUE]
            \/ /\ watch[s].checked /\ ~(works /\ s \in acked)
               /\ watch'[s] = Waiting(After(watch[s].pc), 0,
                                IF watch[s].pc = "quick" THEN clock + Debounce - Quick ELSE watch[s].until)
         /\ works => failed' = failed
         /\ ~works => failed' = failed \cup {s}
  BY DEF WatchTyped, Check, Goes, Landed

LEMMA CheckTyped ==
  ASSUME WatchTyped, Timed, NEW s \in Sessions, NEW works \in BOOLEAN, Check(s, works)
  PROVE  WatchTyped'
<1>1. watch[s] \in Watched /\ clock \in 0 .. Debounce
  BY DEF WatchTyped
<1>2. At("landed") \in Watched /\ At("ok") \in Watched
  BY Durations DEF At, Waiting, Watched, Decided
<1>3. [watch[s] EXCEPT !.checked = TRUE] \in Watched
  BY <1>1 DEF Watched
<1>4. watch[s].pc = "quick" => clock + Debounce - Quick \in 0 .. Debounce
  BY <1>1, Durations DEF Timed, Watched
<1>5. watch[s].until \in 0 .. Debounce
  BY <1>1 DEF Watched
<1>6. ASSUME watch[s].pc \in Waits
      PROVE  After(watch[s].pc) \in Waits \cup {"live1", "live2"} \cup Decided
  BY <1>6, AfterWaits DEF Waits, Decided
<1>7. ASSUME watch[s].pc \in Waits
      PROVE  Waiting(After(watch[s].pc), 0,
               IF watch[s].pc = "quick" THEN clock + Debounce - Quick ELSE watch[s].until) \in Watched
  <2>1. 0 \in 0 .. Debounce + Retract
    BY Durations
  <2> QED
    BY <1>4, <1>5, <1>6, <1>7, <2>1, WaitingTyped
<1>8. watch'[s] \in Watched
  BY CheckGoes, <1>2, <1>3, <1>7
<1>9. watch' \in [Sessions -> Watched]
  <2>1. watch \in [Sessions -> Watched] /\ watch' = [watch EXCEPT ![s] = watch'[s]]
    BY CheckGoes DEF WatchTyped
  <2> QED
    BY <1>8, <2>1
<1> QED
  BY <1>9 DEF WatchTyped, Check

LEMMA CheckTimed ==
  ASSUME WatchTyped, Timed, NEW s \in Sessions, NEW works \in BOOLEAN, Check(s, works)
  PROVE  Timed'
<1>1. watch[s] \in Watched /\ clock \in 0 .. Debounce /\ woken \subseteq acked /\ clock' = clock
      /\ failed \subseteq failed'
  BY CheckGoes DEF WatchTyped, Check
<1>2. ASSUME NEW t \in Sessions, t # s
      PROVE  watch'[t] = watch[t]
  BY <1>2, CheckGoes DEF WatchTyped
<1>3. watch[s].pc = "quick" => clock + watch[s].left = Quick
  BY DEF Timed
<1>4. s \notin failed => OnSchedule(s)
  BY DEF Timed
<1>5. /\ watch'[s].pc = "quick" => clock + watch'[s].left = Quick
      /\ s \notin failed' => OnSchedule(s)'
  <2>1. CASE watch'[s] \in {At("landed"), At("ok")}
    BY <2>1 DEF At, Waiting, OnSchedule
  <2>2. CASE watch'[s] = [watch[s] EXCEPT !.checked = TRUE]
    <3>1. /\ watch'[s].pc = watch[s].pc /\ watch'[s].left = watch[s].left
          /\ watch'[s].until = watch[s].until
      BY <2>2, <1>1 DEF Watched
    <3> QED
      BY <3>1, <1>1, <1>3, <1>4 DEF OnSchedule
  <2>3. CASE /\ watch[s].checked /\ ~(works /\ s \in acked)
             /\ watch'[s] = Waiting(After(watch[s].pc), 0,
                              IF watch[s].pc = "quick" THEN clock + Debounce - Quick ELSE watch[s].until)
    <3> DEFINE following == After(watch[s].pc)
               until == IF watch[s].pc = "quick" THEN clock + Debounce - Quick ELSE watch[s].until
    <3>w. watch'[s] = Waiting(following, 0, until)
      BY <2>3
    <3>u. watch'[s].pc = following /\ watch'[s].until = until
      <4> HIDE DEF following, until
      <4> QED
        BY <3>w DEF Waiting
    <3>1. watch[s].pc \in Waits /\ watch'[s].pc = After(watch[s].pc)
          /\ watch'[s].until = (IF watch[s].pc = "quick" THEN clock + Debounce - Quick ELSE watch[s].until)
      BY <3>u, CheckGoes
    <3> HIDE DEF following, until
    <3>2. watch'[s].pc # "quick"
      BY <3>1, AfterWaits DEF Waits
    <3>3. ASSUME s \notin failed'
          PROVE  watch[s].left = 0 /\ OnSchedule(s)
      <4>1. works /\ s \notin failed
        BY <3>3, CheckGoes, <1>1
      <4>2. s \notin acked
        BY <4>1, <2>3
      <4> QED
        BY <4>1, <4>2, <1>1, <1>4, <2>3, CheckGoes
    <3>4. ASSUME s \notin failed'
          PROVE  OnSchedule(s)'
      <4>1. CASE watch[s].pc = "quick"
        <5>1. watch'[s].pc = "live1" /\ clock = Quick /\ watch'[s].until = clock + Debounce - Quick
          <6>1. watch'[s].pc = "live1" /\ watch'[s].until = clock + Debounce - Quick
            BY <4>1, <3>1, AfterWaits
          <6>2. watch[s].left = 0
            BY <3>3, <3>4
          <6>3. clock = Quick
            BY <4>1, <6>2, <1>3, <1>1, Durations
          <6> QED
            BY <6>1, <6>3
        <5> QED
          BY <5>1, <1>1, Durations DEF OnSchedule
      <4>2. CASE watch[s].pc = "grace"
        <5>1. watch'[s].pc = "live2" /\ watch'[s].until = watch[s].until
          BY <4>2, <3>1, AfterWaits
        <5>2. clock = Quick + Grace /\ watch[s].until = Debounce
          BY <4>2, <3>3, <3>4, <1>1, Durations DEF OnSchedule
        <5> QED
          BY <5>1, <5>2, <1>1 DEF OnSchedule
      <4>3. CASE watch[s].pc \in {"rest", "late"}
        BY <4>3, <3>1, AfterWaits DEF OnSchedule
      <4> QED
        BY <3>1, <4>1, <4>2, <4>3 DEF Waits
    <3> QED
      BY <3>2, <3>4
  <2> QED
    BY CheckGoes, <2>1, <2>2, <2>3
<1>6. ASSUME NEW t \in Sessions, t # s
      PROVE  /\ watch'[t].pc = "quick" => clock' + watch'[t].left = Quick
             /\ t \notin failed' => OnSchedule(t)'
  BY <1>6, <1>1, <1>2 DEF Timed, OnSchedule
<1> QED
  BY <1>1, <1>5, <1>6 DEF Timed

\* What asking whether the session lives does to its row's watch.
LEMMA AskGoes ==
  ASSUME WatchTyped, NEW s \in Sessions, NEW works \in BOOLEAN, AsksLive(s, works)
  PROVE  /\ watch[s].pc \in {"live1", "live2"}
         /\ watch' = [watch EXCEPT ![s] = watch'[s]]
         /\ \/ clock < watch[s].until /\ watch'[s] = Waiting("rest", watch[s].until - clock, watch[s].until)
            \/ clock >= watch[s].until /\ watch'[s] = At("given_up")
            \/ watch[s].pc = "live1" /\ watch'[s] = Waiting("grace", Grace, watch[s].until)
            \/ watch[s].pc = "live2" /\ ~Live(s) /\ watch'[s] = At("given_up")
         /\ failed \subseteq failed'
<1>1. clock \in Int /\ watch[s].until \in Int
  BY Durations DEF WatchTyped, Watched
<1>2. Rest(s) = IF clock < watch[s].until THEN Waiting("rest", watch[s].until - clock, watch[s].until)
                                          ELSE At("given_up")
  BY DEF Rest
<1>3. watch[s].pc \in {"live1", "live2"} /\ failed \subseteq failed'
      /\ watch' = [watch EXCEPT ![s] = watch'[s]]
  BY DEF AsksLive, Goes, WatchTyped
<1>4. CASE works => Live(s)
  <2>1. watch'[s] = Rest(s)
    BY <1>4 DEF AsksLive, Goes, WatchTyped
  <2>2. CASE clock < watch[s].until
    <3>1. watch'[s] = Waiting("rest", watch[s].until - clock, watch[s].until)
      BY <1>2, <2>1, <2>2
    <3> QED
      BY <1>3, <2>2, <3>1
  <2>3. CASE clock >= watch[s].until
    <3>1. watch'[s] = At("given_up")
      BY <1>1, <1>2, <2>1, <2>3
    <3> QED
      BY <1>3, <2>3, <3>1
  <2> QED
    BY <1>1, <2>2, <2>3
<1>5. CASE ~(works => Live(s)) /\ watch[s].pc = "live1"
  BY <1>3, <1>5 DEF AsksLive, Goes, WatchTyped
<1>6. CASE ~(works => Live(s)) /\ watch[s].pc # "live1"
  BY <1>3, <1>6 DEF AsksLive, Goes, WatchTyped
<1> QED
  BY <1>4, <1>5, <1>6

LEMMA AskTyped ==
  ASSUME WatchTyped, NEW s \in Sessions, NEW works \in BOOLEAN, AsksLive(s, works)
  PROVE  WatchTyped'
<1>1. watch[s].until \in 0 .. Debounce /\ clock \in 0 .. Debounce
  BY DEF WatchTyped, Watched
<1>2. CASE clock < watch[s].until /\ watch'[s] = Waiting("rest", watch[s].until - clock, watch[s].until)
  <2>1. watch[s].until - clock \in 0 .. Debounce + Retract
    BY <1>1, <1>2, Durations
  <2>2. watch'[s] \in Watched
    BY <1>1, <1>2, <2>1, WaitingTyped DEF Waits
  <2>3. watch' \in [Sessions -> Watched]
    BY <2>2, AskGoes DEF WatchTyped
  <2> QED
    BY <2>3 DEF WatchTyped, AsksLive
<1>3. CASE watch'[s] = At("given_up")
  <2>1. At("given_up") \in Watched
    BY Durations DEF At, Waiting, Watched, Decided
  <2> QED
    BY <1>3, <2>1, AskGoes DEF WatchTyped, AsksLive
<1>4. CASE watch'[s] = Waiting("grace", Grace, watch[s].until)
  <2>1. Grace \in 0 .. Debounce + Retract
    BY Durations
  <2>2. watch'[s] \in Watched
    BY <1>1, <1>4, <2>1, WaitingTyped DEF Waits
  <2>3. watch' \in [Sessions -> Watched]
    BY <2>2, AskGoes DEF WatchTyped
  <2> QED
    BY <2>3 DEF WatchTyped, AsksLive
<1> QED
  BY <1>2, <1>3, <1>4, AskGoes

LEMMA AskTimed ==
  ASSUME WatchTyped, Timed, NEW s \in Sessions, NEW works \in BOOLEAN, AsksLive(s, works)
  PROVE  Timed'
<1>1. watch[s] \in Watched /\ clock \in 0 .. Debounce /\ clock' = clock /\ failed \subseteq failed'
  BY AskGoes DEF WatchTyped, AsksLive
<1>2. ASSUME NEW t \in Sessions, t # s
      PROVE  watch'[t] = watch[t]
  BY <1>2, AskGoes DEF WatchTyped
<1>3. watch[s].until \in 0 .. Debounce
  BY <1>1 DEF Watched
<1>4. s \notin failed' => OnSchedule(s) /\ watch[s].until = Debounce
  BY <1>1, AskGoes DEF Timed, OnSchedule
<1>5. watch'[s].pc # "quick" /\ (s \notin failed' => OnSchedule(s)')
  <2>1. CASE clock < watch[s].until /\ watch'[s] = Waiting("rest", watch[s].until - clock, watch[s].until)
    <3>1. watch'[s].pc = "rest" /\ watch'[s].left = watch[s].until - clock /\ watch'[s].until = watch[s].until
      BY <2>1 DEF Waiting
    <3> QED
      BY <3>1, <1>1, <1>3, <1>4, Durations DEF OnSchedule
  <2>2. CASE watch'[s] = At("given_up")
    <3>1. watch'[s].pc = "given_up"
      BY <2>2 DEF At, Waiting
    <3> QED
      BY <3>1 DEF OnSchedule
  <2>3. CASE watch[s].pc = "live1" /\ watch'[s] = Waiting("grace", Grace, watch[s].until)
    <3>1. watch'[s].pc = "grace" /\ watch'[s].left = Grace /\ watch'[s].until = watch[s].until
      BY <2>3 DEF Waiting
    <3> QED
      BY <3>1, <2>3, <1>1, <1>4, Durations DEF OnSchedule
  <2> QED
    BY <2>1, <2>2, <2>3, AskGoes
<1>6. ASSUME NEW t \in Sessions, t # s
      PROVE  /\ watch'[t].pc = "quick" => clock' + watch'[t].left = Quick
             /\ t \notin failed' => OnSchedule(t)'
  BY <1>6, <1>1, <1>2 DEF Timed, OnSchedule
<1> QED
  BY <1>1, <1>5, <1>6 DEF Timed

\* Time passes while somebody waits, and only when no watcher has anything to do.
LEMMA TickKeeps ==
  ASSUME WatchTyped, Timed, Tick
  PROVE  WatchTyped' /\ Timed'
<1>1. clock \in 0 .. Debounce /\ watch \in [Sessions -> Watched] /\ acked' = acked /\ woken' = woken
      /\ failed' = failed
  BY DEF WatchTyped, Tick
<1>2. Min({clock + 1, Debounce}) = IF clock + 1 <= Debounce THEN clock + 1 ELSE Debounce
  BY <1>1, Durations, LesserOfTwo
<1>3. clock' \in 0 .. Debounce
  BY <1>1, <1>2, Durations DEF Tick
<1>4. ASSUME NEW s \in Sessions, watch[s].pc \in Waits
      PROVE  /\ watch[s].left > 0 /\ watch'[s] = [watch[s] EXCEPT !.left = @ - 1]
             /\ clock < Debounce => clock' = clock + 1
  <2>1. watch[s].left # 0
    BY <1>4 DEF Tick, Urgent
  <2>2. watch[s].left \in 0 .. Debounce + Retract
    BY <1>1 DEF Watched
  <2>3. watch'[s] = [watch[s] EXCEPT !.left = @ - 1]
    BY <1>4 DEF Tick
  <2>4. clock' = Min({clock + 1, Debounce})
    BY <1>4 DEF Tick, Counts
  <2> QED
    BY <1>1, <1>2, <2>1, <2>2, <2>3, <2>4, Durations
<1>5. ASSUME NEW s \in Sessions, watch[s].pc \notin Waits
      PROVE  watch'[s] = watch[s] /\ watch[s].pc \notin {"live1", "live2"}
  BY <1>5 DEF Tick, Urgent
<1>6. ASSUME NEW s \in Sessions
      PROVE  watch'[s] \in Watched
  <2>1. CASE watch[s].pc \in Waits
    <3>a. watch[s] \in Watched /\ watch[s].left > 0
      BY <1>1, <1>4, <2>1
    <3>b. watch[s].left \in 0 .. Debounce + Retract
      BY <3>a DEF Watched
    <3>1. watch[s] \in Watched /\ watch[s].left - 1 \in 0 .. Debounce + Retract
      BY <3>a, <3>b, Durations
    <3> QED
      BY <1>4, <2>1, <3>1 DEF Watched
  <2>2. CASE watch[s].pc \notin Waits
    BY <1>1, <1>5, <2>2
  <2> QED
    BY <2>1, <2>2
<1>7. watch' = [s \in Sessions |-> watch'[s]]
  BY DEF Tick
<1>8. WatchTyped'
  <2>1. watch' \in [Sessions -> Watched]
    BY <1>6, <1>7
  <2> QED
    BY <1>1, <1>3, <2>1 DEF WatchTyped
<1>9. ASSUME NEW s \in Sessions
      PROVE  /\ watch'[s].pc = "quick" => clock' + watch'[s].left = Quick
             /\ s \notin failed' => OnSchedule(s)'
  <2>1. CASE watch[s].pc \in Waits
    <3>1. watch[s] \in Watched
      BY <1>1
    <3>a. watch[s].left > 0 /\ watch'[s] = [watch[s] EXCEPT !.left = @ - 1]
          /\ (clock < Debounce => clock' = clock + 1)
      BY <1>4, <2>1
    <3>b. watch[s].left \in 0 .. Debounce + Retract
      BY <3>1 DEF Watched
    <3>2. watch'[s].pc = watch[s].pc /\ watch'[s].left = watch[s].left - 1 /\ watch[s].left > 0
          /\ watch'[s].until = watch[s].until /\ watch[s].left \in Nat
      BY <3>a, <3>b, <3>1, Durations DEF Watched
    <3>3. watch[s].pc = "quick" => clock + watch[s].left = Quick
      BY DEF Timed
    <3>4. watch'[s].pc = "quick" => clock' + watch'[s].left = Quick
      BY <1>1, <3>a, <3>2, <3>3, Durations
    <3>5. ASSUME s \notin failed'
          PROVE  OnSchedule(s)'
      <4>1. OnSchedule(s)
        BY <3>5, <1>1 DEF Timed
      <4>2. watch'[s].pc = "grace" => clock' + watch'[s].left = Quick + Grace
        BY <1>1, <3>a, <3>2, <4>1, Durations DEF OnSchedule
      <4>3. watch'[s].pc = "rest" => clock' + watch'[s].left = Debounce
        BY <1>1, <3>a, <3>2, <4>1, Durations DEF OnSchedule
      <4> QED
        BY <2>1, <3>2, <4>1, <4>2, <4>3 DEF OnSchedule, Waits
    <3> QED
      BY <3>4, <3>5
  <2>2. CASE watch[s].pc \notin Waits
    BY <1>5, <2>2 DEF OnSchedule, Waits
  <2> QED
    BY <2>1, <2>2
<1> QED
  BY <1>8, <1>9 DEF Timed

\* The decisions about all rows at once start no wait but a late one.
LEMMA DecidedTyped ==
  ASSUME WatchTyped, Warn \/ Retracts \/ Restart
  PROVE  WatchTyped' /\ Timed'
<1>1. {At("cut"), At("retracted"), Waiting("late", Retract, 0)} \subseteq Watched
  BY Durations DEF At, Waiting, Watched, Decided, Waits
<1>2. ASSUME NEW s \in Sessions
      PROVE  /\ watch'[s] \in Watched
             /\ watch'[s].pc \in {"ok", "missed", "cut", "retracted", "late"}
  <2>1. \/ watch'[s] \in {At("cut"), At("retracted"), Waiting("late", Retract, 0)}
        \/ watch'[s] = watch[s] /\ watch[s].pc \in {"ok", "missed"}
    BY DEF Warn, Retracts, Restart
  <2>2. CASE watch'[s] = watch[s] /\ watch[s].pc \in {"ok", "missed"}
    BY <2>2 DEF WatchTyped
  <2>3. CASE watch'[s] \in {At("cut"), At("retracted"), Waiting("late", Retract, 0)}
    <3>1. At("cut").pc = "cut" /\ At("retracted").pc = "retracted" /\ Waiting("late", Retract, 0).pc = "late"
      BY DEF At, Waiting
    <3> QED
      BY <1>1, <2>3, <3>1
  <2> QED
    BY <2>1, <2>2, <2>3
<1>3. watch' = [s \in Sessions |-> watch'[s]]
  BY DEF Warn, Retracts, Restart
<1>4. Timed'
  BY <1>2 DEF Timed, OnSchedule
<1>5. watch' \in [Sessions -> Watched]
  BY <1>2, <1>3
<1>6. acked' = acked /\ clock' = clock /\ woken' \subseteq woken
  BY DEF Warn, Retracts, Restart
<1> QED
  BY <1>4, <1>5, <1>6 DEF WatchTyped

-----------------------------------------------------------------------------
LEMMA WatchStep ==
  WatchInv /\ [WatchNext]_allVars => WatchInv'
<1> SUFFICES ASSUME WatchInv, [WatchNext]_allVars
             PROVE  WatchInv'
  OBVIOUS
<1>0. LifeStep
  BY WatchStepsLife DEF LifeStep, allVars
<1>1. LifeTyped' /\ Announced'
  BY <1>0, RowsStep, AnnouncedStep DEF WatchInv
<1> SUFFICES WatchTyped' /\ Timed'
  BY <1>1 DEF WatchInv
<1>2. ASSUME NEW s \in Sessions, NEW works \in BOOLEAN, Check(s, works)
      PROVE  WatchTyped' /\ Timed'
  BY <1>2, CheckTyped, CheckTimed DEF WatchInv
<1>3. ASSUME NEW s \in Sessions, NEW works \in BOOLEAN, AsksLive(s, works)
      PROVE  WatchTyped' /\ Timed'
  BY <1>3, AskTyped, AskTimed DEF WatchInv
<1>4. CASE Warn \/ Retracts \/ Restart
  BY <1>4, DecidedTyped DEF WatchInv
<1>5. CASE Tick
  BY <1>5, TickKeeps DEF WatchInv
<1>6. ASSUME NEW s \in Sessions, NEW heard \in BOOLEAN, Ack(s, heard)
      PROVE  WatchTyped' /\ Timed'
  <2>1. acked' \subseteq Sessions /\ woken' \subseteq acked' /\ UNCHANGED <<watch, clock, failed>>
    BY <1>6 DEF Ack, WatchInv, WatchTyped
  <2> QED
    BY <2>1 DEF WatchInv, WatchTyped, Timed, OnSchedule
<1>7. CASE UNCHANGED watchVars
  BY <1>7 DEF WatchInv, WatchTyped, Timed, OnSchedule, watchVars
<1> QED
  BY <1>2, <1>3, <1>4, <1>5, <1>6, <1>7 DEF WatchNext, Watches, allVars

LEMMA WatchInductive ==
  WatchSpec => []WatchInv
<1>1. WatchInit => WatchInv
  BY RowsInit, WatchInitial DEF WatchInv
<1> QED
  BY <1>1, WatchStep, PTL DEF WatchSpec

\* The rows of the sessions, and the watches of the delivered rows, keep their types.
THEOREM WatchTypes == WatchSpec => []WatchTypeOK
<1>1. WatchInv => WatchTypeOK
  BY DEF WatchInv, WatchTypeOK, LifeTyped, WatchTyped, Watched
<1> QED
  BY <1>1, WatchInductive, PTL

\* Texts at most once while the user stays away, however the machine flaps.
THEOREM AnnouncedOnce == WatchSpec => []OneTextPerEngagement
<1>1. WatchInv => OneTextPerEngagement
  BY DEF WatchInv, Announced, OneTextPerEngagement
<1> QED
  BY <1>1, WatchInductive, PTL

\* What shows an ended session again is a beat posted while it ran or a request of it: no tail of its
\* tap, no late hook, no sweep.
THEOREM EndedStaysEnded == WatchSpec => NoGhost
<1>1. WatchInv /\ [WatchNext]_allVars =>
        [\A s \in Sessions :
           row[s].state = "ended" /\ row'[s].state # "ended"
             => s \in beats \ beats' \/ (request[s] = "none" /\ request'[s] = "storing")]_lifeVars
  BY WatchStepsLife, NoGhostStep DEF LifeStep, WatchInv, allVars
<1> QED
  BY <1>1, WatchInductive, PTL DEF WatchSpec, NoGhost

\* A row is given up at the end of the debounce, or after the grace when its session is dead.
LEMMA GivesUpStep ==
  ASSUME WatchInv, [WatchNext]_allVars, NEW s \in Sessions,
         watch[s].pc # "given_up", watch'[s].pc = "given_up", s \notin failed'
  PROVE  clock = Debounce \/ (clock >= Quick + Grace /\ ~Live(s))
<1>1. WatchTyped /\ Timed
  BY DEF WatchInv
<1>2. ASSUME NEW works \in BOOLEAN, Check(s, works)
      PROVE  clock = Debounce
  <2> USE <1>2
  <2>1. works /\ s \notin failed /\ OnSchedule(s)
    BY <1>1, CheckGoes DEF Timed
  <2>2. watch[s].pc = "rest" /\ watch[s].checked /\ s \notin acked
    <3>1. watch'[s].pc # "ok" /\ watch'[s].pc # "landed" /\ watch'[s].pc # watch[s].pc
      OBVIOUS
    <3>2. watch'[s] \notin {At("landed"), At("ok")} /\ watch'[s] # [watch[s] EXCEPT !.checked = TRUE]
      BY <1>1, <3>1 DEF At, Waiting, WatchTyped, Watched
    <3>3. watch[s].checked /\ ~(works /\ s \in acked)
      BY <1>1, <3>2, CheckGoes
    <3> DEFINE until == IF watch[s].pc = "quick" THEN clock + Debounce - Quick ELSE watch[s].until
    <3>4. watch'[s] = Waiting(After(watch[s].pc), 0, until)
      BY <1>1, <3>2, CheckGoes
    <3> HIDE DEF until
    <3>5. watch[s].pc \in Waits
      BY <1>1, CheckGoes
    <3>6. After(watch[s].pc) = watch'[s].pc
      <4> DEFINE next == After(watch[s].pc)
      <4>1. watch'[s] = Waiting(next, 0, until)
        BY <3>4
      <4> HIDE DEF next
      <4>2. next = watch'[s].pc
        BY <4>1 DEF Waiting
      <4> QED
        BY <4>2 DEF next
    <3>7. watch[s].pc = "rest"
      BY <3>5, <3>6, AfterWaits DEF Waits
    <3> QED
      BY <2>1, <3>3, <3>7
  <2>3. watch[s].left = 0
    BY <1>1, <2>2, CheckGoes DEF WatchTyped
  <2> QED
    BY <1>1, <2>1, <2>2, <2>3, Durations DEF OnSchedule, WatchTyped
<1>3. ASSUME NEW works \in BOOLEAN, AsksLive(s, works)
      PROVE  clock = Debounce \/ (clock >= Quick + Grace /\ ~Live(s))
  <2> USE <1>3
  <2>1. OnSchedule(s) /\ watch[s].until = Debounce /\ clock \in 0 .. Debounce
        /\ watch[s].pc \in {"live1", "live2"}
    BY <1>1, AskGoes DEF Timed, OnSchedule, WatchTyped
  <2>2. watch[s].pc = "live2" => clock = Quick + Grace
    BY <2>1 DEF OnSchedule
  <2>3. clock >= watch[s].until \/ (watch[s].pc = "live2" /\ ~Live(s))
    <3>1. watch'[s] # Waiting("rest", watch[s].until - clock, watch[s].until)
          /\ watch'[s] # Waiting("grace", Grace, watch[s].until)
      BY DEF Waiting
    <3> QED
      BY <1>1, <3>1, AskGoes
  <2> QED
    BY <2>1, <2>2, <2>3, Durations
<1>4. watch'[s] # watch[s]
  OBVIOUS
<1>5. ASSUME NEW t \in Sessions, NEW works \in BOOLEAN, Check(t, works) \/ AsksLive(t, works)
      PROVE  t = s
  <2>1. watch' = [watch EXCEPT ![t] = watch'[t]]
    BY <1>1, <1>5, CheckGoes, AskGoes
  <2> QED
    BY <1>1, <1>4, <2>1 DEF WatchTyped
<1>6. ~(Warn \/ Retracts \/ Restart)
  BY DEF Warn, Retracts, Restart, At, Waiting
<1>7. ~Tick
  <2>1. Tick => watch'[s].pc = watch[s].pc
    BY <1>1 DEF Tick, WatchTyped, Watched
  <2> QED
    BY <2>1
<1>8. ~ (\E t \in Sessions, heard \in BOOLEAN : Ack(t, heard))
  BY <1>4 DEF Ack
<1>9. ~ UNCHANGED watchVars
  BY <1>4 DEF watchVars
<1> QED
  BY <1>2, <1>3, <1>5, <1>6, <1>7, <1>8, <1>9 DEF WatchNext, Watches, allVars

\* Without a failed query no row is given up before its time: watchOneDelivery's phases, together.
THEOREM GivenUpFairly == WatchSpec => GivesUpFairly
<1>1. WatchInv /\ [WatchNext]_allVars =>
        [\A s \in Sessions : watch[s].pc # "given_up" /\ watch'[s].pc = "given_up" /\ s \notin failed'
            => clock = Debounce \/ (clock >= Quick + Grace /\ ~Live(s))]_allVars
  BY GivesUpStep
<1> QED
  BY <1>1, WatchInductive, PTL DEF WatchSpec, GivesUpFairly
-----------------------------------------------------------------------------
(* A session's hooks and its title. *)

TapState == [pc : {"none", "started", "scan", "loop"}, term : BOOLEAN, reader : BOOLEAN, missed : BOOLEAN,
             rank : 0 .. 3, at : Titles, upto : Titles]

FilesTyped ==
  /\ agent \in BOOLEAN /\ ending \in BOOLEAN /\ shutdown \in BOOLEAN
  /\ auth \in {"paired", "revoked", "none"} /\ alive \in {"none", "fresh", "stale"}
  /\ pidFile \in Taps \cup {0}
  /\ hook \in [Hooks -> [pc : {"idle", "spawning", "claiming"}, tap : Taps \cup {0}]]

TapsTyped ==
  /\ lines \in Titles /\ file \in Titles /\ tap \in [Taps -> TapState]
  /\ \A p \in Taps : tap[p].upto <= lines

ShippingTyped ==
  /\ sent \in Titles /\ late \in Titles /\ title \in 0 .. Renamed /\ stray \in BOOLEAN
  /\ beat \in [pc : {"idle", "posted", "stored"}, title : Titles]

\* A beat that was stored is shown, or what overtook it; without one, that holds of the last
\* title that was answered.
ShownSince == ~stray => title >= (IF beat.pc = "stored" THEN beat.title ELSE sent)

HooksInv == FilesTyped /\ TapsTyped /\ ShippingTyped /\ ShownSince

\* The marker of the last shipped title never runs ahead of the dashboard: what it names is shown, or a
\* later title, or the user's own name (channel.ts: a title counts as shipped once its beat was
\* answered).  While an answer is out, or a beat given up on was overtaken, nothing is promised.
ShippedIsShown == beat.pc # "stored" /\ ~stray => title >= sent

LEMMA TitlesOfLines ==
  /\ Len(Transcript) \in Nat /\ Titles \subseteq Nat /\ Renamed \in Nat /\ Titles \subseteq 0 .. Renamed
BY HooksAssumption DEF Titles, Renamed

LEMMA RanksOfLines ==
  ASSUME NEW k \in Titles, k # 0
  PROVE  Transcript[k] \in 0 .. 3
BY HooksAssumption DEF Titles

LEMMA ShippedNumbers ==
  ASSUME ShippingTyped
  PROVE  {title, sent, late, beat.title} \subseteq Nat
BY HooksAssumption DEF ShippingTyped, Titles, Renamed

LEMMA HooksInitial ==
  HooksInit => HooksInv
<1> SUFFICES ASSUME HooksInit
             PROVE  HooksInv
  OBVIOUS
<1>1. 0 \in Titles /\ 0 \in 0 .. Renamed
  BY TitlesOfLines DEF Titles
<1>2. FilesTyped
  BY DEF HooksInit, FilesTyped, Idle
<1>3. TapsTyped
  BY <1>1 DEF HooksInit, TapsTyped, TapState, NoTap
<1>4. ShippingTyped
  BY <1>1 DEF HooksInit, ShippingTyped, NoBeat
<1>5. ShownSince
  BY DEF HooksInit, ShownSince, NoBeat
<1> QED
  BY <1>2, <1>3, <1>4, <1>5 DEF HooksInv

\* The hooks, the agent and the files that name the tap.
LEMMA FilesStep ==
  HooksInv /\ [HooksNext]_hooksVars => FilesTyped'
<1> SUFFICES ASSUME HooksInv, [HooksNext]_hooksVars
             PROVE  FilesTyped'
  OBVIOUS
<1> USE DEF HooksInv, FilesTyped
<1>1. CASE \/ Writes \/ SessionEnds \/ EndFinishes \/ Killed \/ Resumed \/ Auth \/ GoesStale \/ Sleeps
           \/ UNCHANGED hooksVars
  BY <1>1 DEF Writes, SessionEnds, EndFinishes, Killed, Resumed, Auth, GoesStale, Sleeps,
              hooksVars, sentinels
<1>2. ASSUME NEW h \in Hooks, Checks(h) \/ Spawns(h) \/ Claims(h)
      PROVE  FilesTyped'
  <2>1. CASE Checks(h)
    BY <2>1 DEF Checks, sentinels
  <2>2. CASE Spawns(h)
    <3>1. PICK p \in Taps : hook' = [hook EXCEPT ![h] = [pc |-> "claiming", tap |-> p]]
      BY <2>2 DEF Spawns
    <3> QED
      BY <2>2, <3>1 DEF Spawns, ClearedShutdown
  <2>3. CASE Claims(h)
    BY <2>3 DEF Claims, Idle
  <2> QED
    BY <1>2, <2>1, <2>2, <2>3
<1>3. ASSUME NEW p \in Taps, TapNext(p) \/ Halts(p) \/ TranscriptGone(p) \/ Crashes(p)
      PROVE  FilesTyped'
  <2>1. CASE Starts(p)
    BY <2>1 DEF Starts, Leaves
  <2>2. CASE Scans(p) \/ Crashes(p)
    BY <2>2 DEF Scans, Crashes, sentinels
  <2>3. CASE Ticks(p) \/ Looks(p)
    BY <2>3 DEF Ticks, Looks, Leaves
  <2>4. CASE Stops(p) \/ Halts(p) \/ TranscriptGone(p)
    BY <2>4 DEF Stops, Halts, TranscriptGone, Leaves
  <2> QED
    BY <1>3, <2>1, <2>2, <2>3, <2>4 DEF TapNext
<1>4. CASE \/ Beats \/ BeatStored \/ BeatAnswered \/ LateStored \/ Renames
           \/ \E coming \in BOOLEAN : BeatFails(coming)
  BY <1>4 DEF Beats, BeatStored, BeatAnswered, LateStored, Renames, BeatFails, sentinels
<1> QED
  BY <1>1, <1>2, <1>3, <1>4 DEF HooksNext, HookSteps

\* What a tap has read.
LEMMA TapReads ==
  ASSUME TapsTyped, NEW p \in Taps
  PROVE  /\ tap[p].at \in Titles /\ tap[p].at \in Nat /\ tap[p].upto \in Titles /\ tap[p].upto \in Nat
         /\ tap[p].upto <= lines /\ lines \in Titles /\ lines \in Nat /\ lines <= Len(Transcript)
         /\ tap[p].rank \in 0 .. 3 /\ tap[p].reader \in BOOLEAN /\ tap[p].missed \in BOOLEAN
         /\ tap[p].pc \in {"none", "started", "scan", "loop"} /\ file \in Titles
         /\ tap[p] \in TapState
<1>1. file \in Titles /\ tap[p] \in TapState /\ lines \in Titles /\ tap[p].upto <= lines
  BY DEF TapsTyped
<1>2. \A k \in Titles : k \in Nat /\ k <= Len(Transcript)
  BY TitlesOfLines DEF Titles
<1> QED
  BY <1>1, <1>2 DEF TapState

\* What changes one tap only, in its proper range.
LEMMA OneTap ==
  ASSUME TapsTyped, NEW p \in Taps, NEW t \in TapState, t.upto <= lines,
         tap' = [tap EXCEPT ![p] = t], file' \in Titles, lines' = lines
  PROVE  TapsTyped'
<1>1. tap \in [Taps -> TapState] /\ lines \in Titles /\ \A q \in Taps : tap[q].upto <= lines
  BY DEF TapsTyped
<1>2. tap' \in [Taps -> TapState] /\ \A q \in Taps : tap'[q].upto <= lines
  BY <1>1
<1> QED
  BY <1>1, <1>2 DEF TapsTyped

\* A tap's reader never stands behind the transcript's end, so each offer is a line's.
LEMMA TapsStep ==
  HooksInv /\ [HooksNext]_hooksVars => TapsTyped'
<1> SUFFICES ASSUME HooksInv, [HooksNext]_hooksVars
             PROVE  TapsTyped'
  OBVIOUS
<1>0. TapsTyped
  BY DEF HooksInv
<1> USE TitlesOfLines DEF TapsTyped, TapState
<1>1. CASE \/ EndFinishes \/ Killed \/ Resumed \/ Auth \/ GoesStale \/ Sleeps \/ UNCHANGED hooksVars
  BY <1>0, <1>1 DEF EndFinishes, Killed, Resumed, Auth, GoesStale, Sleeps, hooksVars
<1>2. CASE Writes
  <2>1. lines' \in Titles
    BY <1>0, <1>2 DEF Writes, Titles
  <2>2. ASSUME NEW p \in Taps
        PROVE  tap[p].upto <= lines + 1
    BY <1>0, TapReads
  <2> QED
    BY <1>0, <1>2, <2>1, <2>2 DEF Writes
<1>3. NoTap \in TapState /\ NoTap.upto = 0 /\ 0 <= lines
  BY <1>0 DEF NoTap, Titles
<1>4. CASE SessionEnds
  <2>1. ASSUME NEW p \in Taps
        PROVE  tap'[p] \in TapState /\ tap'[p].upto <= lines
    BY <1>0, <1>3, <1>4 DEF SessionEnds
  <2> QED
    BY <1>0, <1>4, <2>1 DEF SessionEnds
<1>5. ASSUME NEW h \in Hooks, Checks(h) \/ Spawns(h) \/ Claims(h)
      PROVE  TapsTyped'
  <2>1. CASE Checks(h) \/ Claims(h)
    BY <1>0, <2>1 DEF Checks, Claims
  <2>2. CASE Spawns(h)
    <3>1. PICK p \in Taps : tap' = [tap EXCEPT ![p].pc = "started"]
      BY <2>2 DEF Spawns, Becomes
    <3>2. UNCHANGED <<lines, file>>
      BY <2>2 DEF Spawns
    <3> DEFINE t == [tap[p] EXCEPT !.pc = "started"]
    <3>3. t \in TapState /\ t.upto <= lines
      BY <1>0, TapReads DEF TapState
    <3>4. tap' = [tap EXCEPT ![p] = t]
      BY <3>1
    <3>5. file' \in Titles /\ lines' = lines
      BY <1>0, <3>2, TapReads
    <3> HIDE DEF t
    <3> QED
      BY <1>0, <3>3, <3>4, <3>5, OneTap
  <2> QED
    BY <1>5, <2>1, <2>2
<1> HIDE DEF TapsTyped, TapState
<1>6. ASSUME NEW p \in Taps, TapNext(p) \/ Halts(p) \/ TranscriptGone(p) \/ Crashes(p)
      PROVE  TapsTyped'
  <2>1. CASE Leaves(p) /\ UNCHANGED <<lines, file>>
    BY <1>0, <1>3, <2>1 DEF Leaves, TapsTyped
  <2>2. CASE Crashes(p)
    BY <1>0, <1>3, <2>2 DEF Crashes, TapsTyped
  <2>3. CASE Starts(p) /\ auth # "none"
    <3>1. lines' = lines /\ file' = file
      BY <2>3 DEF Starts
    <3> DEFINE t == [tap[p] EXCEPT !.pc = "scan", !.upto = lines]
    <3>2. t \in TapState /\ t.upto <= lines
      <4>1. tap[p] \in TapState /\ lines \in Titles /\ lines \in Nat
        BY <1>0, TapReads
      <4>2. [tap[p] EXCEPT !.pc = "scan"] \in TapState
        BY <4>1 DEF TapState
      <4>3. t \in TapState
        BY <4>1, <4>2 DEF TapState
      <4>4. t.upto = lines
        BY <4>1 DEF TapState
      <4> QED
        BY <4>1, <4>3, <4>4
    <3>3. tap' = [tap EXCEPT ![p] = t]
      BY <1>0, <2>3 DEF Starts, TapsTyped
    <3>4. file' \in Titles
      BY <1>0, <3>1, TapReads
    <3> HIDE DEF t
    <3> QED
      BY <1>0, <3>1, <3>2, <3>3, <3>4, OneTap
  <2>4. CASE Scans(p)
    <3>1. CASE tap[p].at < tap[p].upto /\ UNCHANGED lines
      <4> DEFINE k == tap[p].at + 1
                 rank == IF Accepts(tap[p].rank, Transcript[k]) THEN Transcript[k] ELSE tap[p].rank
      <4>1. k \in Titles /\ k # 0
        BY <1>0, <3>1, TapReads DEF Titles
      <4>2. rank \in 0 .. 3
        BY <1>0, <4>1, TapReads, RanksOfLines
      <4>3. file' \in Titles
        BY <1>0, <2>4, <3>1, <4>1, TapReads DEF Scans
      <4>4. tap' = [tap EXCEPT ![p].at = k, ![p].rank = rank]
        BY <1>0, <2>4, <3>1, TapReads DEF Scans
      <4> HIDE DEF k, rank
      <4> DEFINE t == [tap[p] EXCEPT !.at = k, !.rank = rank]
      <4>5. t \in TapState /\ t.upto <= lines
        BY <1>0, <4>1, <4>2, TapReads DEF TapState
      <4>6. tap' = [tap EXCEPT ![p] = t]
        BY <1>0, <4>4 DEF TapsTyped
      <4> HIDE DEF t
      <4> QED
        BY <1>0, <3>1, <4>3, <4>5, <4>6, OneTap
    <3>2. CASE tap[p].at = tap[p].upto /\ Becomes(p, "loop") /\ UNCHANGED <<lines, file>>
      <4> DEFINE t == [tap[p] EXCEPT !.pc = "loop"]
      <4>1. t \in TapState /\ t.upto <= lines
        BY <1>0, TapReads DEF TapState
      <4>2. tap' = [tap EXCEPT ![p] = t]
        BY <3>2 DEF Becomes
      <4>3. file' \in Titles /\ lines' = lines
        BY <1>0, <3>2, TapReads
      <4> HIDE DEF t
      <4> QED
        BY <1>0, <4>1, <4>2, <4>3, OneTap
    <3> QED
      BY <2>4, <3>1, <3>2 DEF Scans
  <2>5. CASE Ticks(p)
    <3> DEFINE scans == tap[p].at < lines /\ tap[p].rank # CUSTOM
               pc == IF scans THEN "scan" ELSE "loop"
               at == IF scans THEN tap[p].at ELSE lines
    <3>1. pc \in {"scan", "loop"} /\ at \in Titles
      BY <1>0, TapReads
    <3>2. tap' = [tap EXCEPT ![p].pc = pc, ![p].at = at, ![p].upto = lines]
      BY <2>5 DEF Ticks
    <3>3. file' \in Titles /\ lines' = lines
      BY <1>0, <2>5, TapReads DEF Ticks
    <3> HIDE DEF scans, pc, at
    <3> DEFINE t == [tap[p] EXCEPT !.pc = pc, !.at = at, !.upto = lines]
    <3>4. t \in TapState /\ t.upto <= lines
      <4>1. tap[p] \in TapState /\ lines \in Titles /\ lines \in Nat
        BY <1>0, TapReads
      <4>2. t \in TapState
        BY <3>1, <4>1 DEF TapState
      <4>3. t.upto = lines
        BY <4>1 DEF TapState
      <4> QED
        BY <4>1, <4>2, <4>3
    <3>5. tap' = [tap EXCEPT ![p] = t]
      BY <1>0, <3>2 DEF TapsTyped
    <3> HIDE DEF t
    <3> QED
      BY <1>0, <3>3, <3>4, <3>5, OneTap
  <2>6. CASE Looks(p)
    <3>1. PICK has \in HasReader :
            Leaves(p) \/ tap' = [tap EXCEPT ![p].reader = @ \/ has, ![p].missed = ~has /\ tap[p].reader]
      BY <2>6 DEF Looks
    <3>2. has \in BOOLEAN
      BY <3>1 DEF HasReader
    <3>3. file' \in Titles /\ UNCHANGED <<lines, file>>
      BY <1>0, <2>6, TapReads DEF Looks
    <3>4. CASE Leaves(p)
      BY <1>0, <1>3, <3>3, <3>4 DEF Leaves, TapsTyped
    <3>5. CASE tap' = [tap EXCEPT ![p].reader = @ \/ has, ![p].missed = ~has /\ tap[p].reader]
      <4> DEFINE reader == tap[p].reader \/ has
                 missed == ~has /\ tap[p].reader
      <4>1. reader \in BOOLEAN /\ missed \in BOOLEAN
        OBVIOUS
      <4>2. tap' = [tap EXCEPT ![p].reader = reader, ![p].missed = missed]
        BY <3>5
      <4> HIDE DEF reader, missed
      <4> DEFINE t == [tap[p] EXCEPT !.reader = reader, !.missed = missed]
      <4>3. t \in TapState /\ t.upto <= lines
        BY <1>0, <4>1, TapReads DEF TapState
      <4>4. tap' = [tap EXCEPT ![p] = t]
        BY <1>0, <4>2 DEF TapsTyped
      <4> HIDE DEF t
      <4> QED
        BY <1>0, <3>3, <4>3, <4>4, OneTap
    <3> QED
      BY <3>1, <3>4, <3>5
  <2> QED
    BY <1>6, <2>1, <2>2, <2>3, <2>4, <2>5, <2>6 DEF TapNext, Starts, Stops, Halts, TranscriptGone
<1>7. CASE \/ Beats \/ BeatStored \/ BeatAnswered \/ LateStored \/ Renames
           \/ \E coming \in BOOLEAN : BeatFails(coming)
  BY <1>0, <1>7 DEF TapsTyped, Beats, BeatStored, BeatAnswered, LateStored, Renames, BeatFails
<1> QED
  BY <1>1, <1>2, <1>4, <1>5, <1>6, <1>7 DEF HooksNext, HookSteps

\* The heartbeat's way to the dashboard.
LEMMA ShippingStep ==
  HooksInv /\ [HooksNext]_hooksVars => ShippingTyped' /\ ShownSince'
<1> SUFFICES ASSUME HooksInv, [HooksNext]_hooksVars
             PROVE  ShippingTyped' /\ ShownSince'
  OBVIOUS
<1>0. ShippingTyped /\ ShownSince /\ file \in Titles
  BY DEF HooksInv, TapsTyped
<1> USE TitlesOfLines DEF ShippingTyped, ShownSince
<1>1. CASE UNCHANGED titleVars
  BY <1>0, <1>1 DEF titleVars
<1>2. CASE Beats
  BY <1>0, <1>2 DEF Beats, NoBeat
<1>3. CASE BeatStored
  BY <1>0, <1>3 DEF BeatStored
<1>4. CASE BeatAnswered
  BY <1>0, <1>4 DEF BeatAnswered, NoBeat, SentAfter, Titles
<1>5. ASSUME NEW coming \in BOOLEAN, BeatFails(coming)
      PROVE  ShippingTyped' /\ ShownSince'
  <2>1. 0 \in Titles
    BY DEF Titles
  <2>2. ShippingTyped'
    BY <1>0, <1>5, <2>1 DEF BeatFails, NoBeat, SentAfter
  <2>3. /\ title' = title /\ sent' = sent /\ beat'.pc = "idle"
        /\ ~stray' => ~stray /\ ~(beat.title < sent)
    BY <1>5 DEF BeatFails, NoBeat, SentAfter
  <2>4. title \in Nat /\ sent \in Nat /\ beat.title \in Nat
    BY <1>0, ShippedNumbers
  <2>5. ShownSince'
    BY <1>0, <2>3, <2>4
  <2> QED
    BY <2>2, <2>5
<1>6. CASE LateStored
  <2>1. 0 \in Titles
    BY DEF Titles
  <2>2. /\ UNCHANGED <<beat, sent>> /\ title' = late /\ late' = 0
        /\ stray' \in BOOLEAN
        /\ ~stray' => ~stray /\ ~(late < sent) /\ ~(beat.pc = "stored" /\ late < beat.title)
    BY <1>6 DEF LateStored
  <2>3. late \in Nat /\ sent \in Nat /\ beat.title \in Nat
    BY <1>0, ShippedNumbers
  <2>4. ShippingTyped'
    BY <1>0, <2>1, <2>2
  <2>5. ShownSince'
    BY <1>0, <2>2, <2>3
  <2> QED
    BY <2>4, <2>5
<1>7. CASE Renames
  BY <1>0, <1>7 DEF Renames, Renamed, Titles
<1>8. [HooksNext]_hooksVars =>
        \/ Beats \/ BeatStored \/ BeatAnswered \/ LateStored \/ Renames
        \/ \E coming \in BOOLEAN : BeatFails(coming)
        \/ UNCHANGED titleVars
  BY DEF HooksNext, HookSteps, TapNext, Writes, SessionEnds, EndFinishes, Killed, Resumed, Auth,
         GoesStale, Sleeps, Checks, Spawns, Claims, Starts, Scans, Stops, Ticks, Looks, Halts, Crashes,
         TranscriptGone,
         hooksVars
<1> QED
  BY <1>1, <1>2, <1>3, <1>4, <1>5, <1>6, <1>7, <1>8

LEMMA HooksInductive ==
  HooksSpec => []HooksInv
<1>1. HooksInv /\ [HooksNext]_hooksVars => HooksInv'
  BY FilesStep, TapsStep, ShippingStep DEF HooksInv
<1> QED
  BY <1>1, HooksInitial, PTL DEF HooksSpec

\* What is marked as shipped is on the dashboard, or something newer, whatever beats were lost.
THEOREM TitlesShown == HooksSpec => []ShippedIsShown
<1>1. HooksInv => ShippedIsShown
  BY DEF HooksInv, ShippedIsShown, ShownSince
<1> QED
  BY <1>1, HooksInductive, PTL
=============================================================================
