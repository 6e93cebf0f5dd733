-------------------------- MODULE PhoneTurns_proofs --------------------------
(***************************************************************************)
(* What the assistant's turns do with requests and relays, for any number  *)
(* of them: a tap-back approves the code's own description of the request  *)
(* it fronts and no other one, no request is passed over in silence, and   *)
(* a relay is not forwarded on top of a version of it that is known to be  *)
(* sent.                                                                   *)
(***************************************************************************)
EXTENDS PhoneTurns, FiniteSetTheorems, FunctionTheorems, WellFoundedInduction, TLAPS

TurnKinds == {"event", "relay", "exact", "user"}
Bindings == Requests \cup {None}

Types ==
  /\ kindOf \in [Requests -> {"none", "destructive", "edit", "plan", "question"}]
  /\ row \in [Requests -> {"absent", "pending", "allow", "deny"}]
  /\ notify \in [Requests -> [id : 0 .. MaxIds, about : Bindings, by : {"nobody", "code", "model", "blind"}]]
  /\ arrived \in Seq(Requests)
  /\ jobs \subseteq [kind : TurnKinds, of : Items \cup {None}, tap : 0 .. Old]
  /\ turn \in [kind : TurnKinds \cup {"none"}, of : Items \cup {None}, tap : 0 .. Old,
               pending : SUBSET Requests, bound : Bindings,
               said : {"nothing", "refused", "sent"}, calls : 0 .. MaxRounds]
  /\ verdict \in [Requests -> [tapped : BOOLEAN, bound : Bindings]]
  /\ fate \in [Items -> {"open", "accepted", "silent", "done"}]
  /\ heard \in [Relays -> SUBSET {"code", "model", "agent"}] /\ noId \subseteq Relays
  /\ inbound \in 0 .. MaxInbound

\* A turn, waiting or running, is about what started it.
Sound(w) ==
  /\ w.kind = "event" => w.of \in Requests /\ row[w.of] # "absent"
  /\ w.kind \in {"relay", "exact"} => w.of \in Relays
  /\ w.kind \in {"user", "none"} => w.of = None

\* Nobody refers to a row that is not there, and a row that is there has arrived.
Known ==
  /\ \A j \in jobs : Sound(j)
  /\ Sound(turn)
  /\ \A r \in Requests : row[r] = "absent" => notify[r].id = 0 /\ verdict[r].tapped = FALSE
  /\ \A r \in Requests : row[r] # "absent" => \E i \in DOMAIN arrived : arrived[i] = r
  /\ \A r \in turn.pending : row[r] # "absent"
  /\ turn.bound \in turn.pending \cup {None}
  /\ \A r \in Requests : verdict[r].bound # None => row[verdict[r].bound] # "absent"

\* Every tap-back that still waits, or is worked on, was one text of the user.
Taps == ({j.tap : j \in jobs} \cup {turn.tap}) \ {0}
FewTaps == IsFiniteSet(Taps) /\ Cardinality(Taps) <= inbound

-----------------------------------------------------------------------------
(* Identifiers, and the latest of some rows. *)

LEMMA FreeId ==
  ASSUME Types, FewTaps
  PROVE  NewId \in 1 .. MaxIds /\ NewId \notin InUse
<1> DEFINE f == [r \in Requests |-> notify[r].id]
           Ids == Range(f)
           Low == 1 .. MaxIds
<1>0. MaxIds \in Nat /\ MaxInbound \in Nat /\ IsFiniteSet(Requests)
      /\ MaxIds > Cardinality(Requests) + MaxInbound
  BY PhoneAssumption
<1>1. f \in [Requests -> 0 .. MaxIds]
  BY DEF Types
<1>2. f \in Surjection(Requests, Ids)
  <2> HIDE DEF f
  <2> QED BY <1>1, Fun_RangeProperties
<1>3. IsFiniteSet(Ids) /\ Cardinality(Ids) <= Cardinality(Requests)
  BY <1>0, <1>2, FS_Surjection
<1>4. \A r \in Requests : notify[r].id \in Ids
  BY DEF Range
<1> HIDE DEF Ids
<1>5. InUse \subseteq (Ids \cup Taps) \cup {0}
  BY <1>4 DEF InUse, Taps
<1>6. /\ IsFiniteSet(Ids \cup Taps)
      /\ Cardinality(Ids \cup Taps) = Cardinality(Ids) + Cardinality(Taps) - Cardinality(Ids \cap Taps)
  BY <1>3, FS_Union DEF FewTaps
<1>7. IsFiniteSet(Ids \cap Taps)
  BY <1>3, FS_Intersection
<1>8. /\ Cardinality(Ids) \in Nat /\ Cardinality(Taps) \in Nat /\ Cardinality(Ids \cap Taps) \in Nat
      /\ Cardinality(Requests) \in Nat /\ Cardinality(Ids \cup Taps) \in Nat
  BY <1>0, <1>3, <1>6, <1>7, FS_CardinalityType DEF FewTaps
<1>9. inbound \in Nat /\ inbound <= MaxInbound /\ Cardinality(Taps) <= inbound
  BY <1>0 DEF Types, FewTaps
<1>10. Cardinality(Ids \cup Taps) < MaxIds
  BY <1>0, <1>3, <1>6, <1>8, <1>9
<1>11. IsFiniteSet(Low) /\ Cardinality(Low) = MaxIds
  BY <1>0, FS_Interval
<1>12. \E i \in Low : i \notin InUse
  <2> SUFFICES ASSUME Low \subseteq InUse
               PROVE  FALSE
    OBVIOUS
  <2>1. Low \in SUBSET (Ids \cup Taps)
    BY <1>5
  <2>2. Cardinality(Low) <= Cardinality(Ids \cup Taps)
    BY <1>6, <2>1, FS_Subset
  <2> QED
    BY <2>2, <1>0, <1>8, <1>10, <1>11
<1> QED
  BY <1>12 DEF NewId

\* A non-empty set of positions has a last one.
LEMMA LastOfSome ==
  ASSUME NEW n \in Nat, NEW S, S \subseteq 1 .. n, S # {}
  PROVE  Max(S) \in S
<1> DEFINE T == {n - i : i \in S}
<1>1. T \subseteq Nat /\ T # {}
  <2>1. \A i \in S : n - i \in Nat
    OBVIOUS
  <2>2. T # {}
    OBVIOUS
  <2> QED
    BY <2>1, <2>2
<1>2. PICK t \in T : \A y \in T : ~ (<<y, t>> \in OpToRel(<, Nat))
  <2> HIDE DEF T
  <2> QED BY <1>1, NatLessThanWellFounded, WFMin
<1>3. PICK m \in S : t = n - m
  BY <1>2
<1>4. \A i \in S : ~ (n - i < t)
  <2> TAKE i \in S
  <2>1. n - i \in T /\ n - i \in Nat /\ t \in Nat
    BY <1>1
  <2>2. ~ (<<n - i, t>> \in OpToRel(<, Nat))
    BY <1>2, <2>1
  <2> QED
    BY <2>1, <2>2 DEF OpToRel
<1>5. \A i \in S : m >= i
  BY <1>3, <1>4
<1> QED
  BY <1>5 DEF Max

LEMMA LatestIsOne ==
  ASSUME Types, Known, NEW cands \in SUBSET Requests, cands # {},
         \A r \in cands : row[r] # "absent"
  PROVE  Latest(cands) \in cands
<1> DEFINE S == {i \in DOMAIN arrived : arrived[i] \in cands}
<1>1. Len(arrived) \in Nat /\ S \subseteq 1 .. Len(arrived)
  BY DEF Types
<1>2. S # {}
  BY DEF Known
<1>3. Max(S) \in S
  <2> HIDE DEF S
  <2> QED BY <1>1, <1>2, LastOfSome
<1> QED
  BY <1>3 DEF Latest

LEMMA PickIsOne ==
  ASSUME NEW cands \in SUBSET Requests, PickStrict(cands) # None
  PROVE  PickStrict(cands) \in cands
<1>1. IsFiniteSet(cands)
  BY PhoneAssumption, FS_Subset
<1>2. Cardinality(cands) = 1 => \E r : cands = {r}
  BY <1>1, FS_Singleton
<1> QED
  BY <1>2 DEF PickStrict

-----------------------------------------------------------------------------
(* The steps of a turn come in two shapes: it talks to the user, or it     *)
(* decides a request.                                                      *)

\* A message fronts a request that is there; the words of a model that knows a destructive
\* one do not front it.
Fronting ==
  \E r \in Requests, by \in {"code", "model", "blind"} :
    /\ row[r] # "absent" /\ (kindOf[r] = "destructive" => by # "model")
    /\ Fronts(r, r, by)

\* The user hears of the relay, from the model or with the agent's own words, whether the
\* turn knows of it or not.
Hearing ==
  \E by \in {"model", "agent"} :
    /\ turn.of \in Relays /\ heard' = [heard EXCEPT ![turn.of] = @ \cup {by}]
    /\ by = "agent" => turn.said # "sent" /\ turn' = Free
    /\ noId' \in {noId, noId \cup {turn.of}}
    /\ turn' = Free \/ turn'.said = "sent" \/ turn.of \in noId'

GoesOn ==
  /\ MayCall /\ UNCHANGED fate
  /\ \E said \in {"refused", "sent"} :
       (turn.said = "sent" => said = "sent") /\ turn' = [Called(turn) EXCEPT !.said = said]

Stops ==
  \E said \in {"nothing", "refused", "sent"} :
    Close(said) /\ (turn.kind = "event" => said # "nothing")

Talks ==
  /\ turn.kind # "none" /\ UNCHANGED <<kindOf, row, arrived, jobs, verdict, inbound>>
  /\ UNCHANGED notify \/ Fronting
  /\ UNCHANGED phoneVars \/ Hearing
  /\ GoesOn \/ Stops

\* What is allowed on a tap-back is what the tap-back bound to, where that was a permission.
Decides ==
  /\ MayCall /\ turn' = Called(turn)
  /\ \E r \in turn.pending, behavior \in {"allow", "deny"} :
       /\ Resolve(r, behavior)
       /\ behavior = "allow" =>
            \A q \in Requests : turn.bound = q /\ SessionOf[r] = SessionOf[q]
                                /\ Permission(r) /\ Permission(q) => r = q
  /\ UNCHANGED <<kindOf, notify, arrived, jobs, fate, phoneVars, inbound>>

LEMMA SendsHears ==
  ASSUME Types, NEW about, NEW by \in {"model", "agent"}, NEW out \in Outcomes,
         Sends(about, by, out)
  PROVE  \/ UNCHANGED phoneVars
         \/ /\ about \in Relays /\ heard' = [heard EXCEPT ![about] = @ \cup {by}]
            /\ noId' \in {noId, noId \cup {about}}
            /\ out = "sent" \/ about \in noId'
  BY DEF Sends, Outcomes, phoneVars

LEMMA StaticFronts ==
  ASSUME Types, NEW r \in Requests, row[r] # "absent", NEW out \in Outcomes, Static(r, out)
  PROVE  UNCHANGED phoneVars /\ (UNCHANGED notify \/ Fronting)
<1>1. r \notin Relays
  BY PhoneAssumption
<1>2. UNCHANGED phoneVars
  BY <1>1 DEF Static, Sends, phoneVars
<1>3. out = "sent" => Fronts(r, r, "code")
  BY DEF Static
<1>4. out # "sent" => UNCHANGED notify
  BY DEF Static
<1>5. Fronts(r, r, "code") => Fronting
  BY DEF Fronting
<1> QED
  BY <1>2, <1>3, <1>4, <1>5

LEMMA SaidOne ==
  ASSUME NEW out \in Outcomes
  PROVE  Said(out) \in {"refused", "sent"} /\ (turn.said = "sent" => Said(out) = "sent")
         /\ (out = "sent" => Said(out) = "sent")
  BY DEF Said

LEMMA SaidStops ==
  ASSUME NEW out \in Outcomes, Close(Said(out))
  PROVE  Stops /\ turn' = Free
  BY SaidOne DEF Stops, Close

LEMMA SpokeGoesOn ==
  ASSUME MayCall, UNCHANGED fate, NEW out \in Outcomes, Spoke(out)
  PROVE  GoesOn
  BY SaidOne DEF GoesOn, Spoke

\* Nothing else but words of the agent as they are, in a turn that asks no model.
Verbatim == turn.kind = "exact" => turn.said = "nothing"

LEMMA TurnShape ==
  ASSUME Types, Known, Verbatim, Turn
  PROVE  Talks \/ Decides
<1>0. /\ turn.kind = "event" => turn.of \in Requests /\ row[turn.of] # "absent"
      /\ turn.kind \in {"relay", "exact"} => turn.of \in Relays
      /\ turn.kind = "user" => turn.of = None
      /\ turn.kind \in TurnKinds \cup {"none"}
  BY DEF Known, Sound, Types
<1>1. ASSUME NEW out \in Outcomes, EndsWithProse(out)
      PROVE  Talks
  <2>0. Sends(turn.of, "model", out) /\ Close(Said(out))
    BY <1>1 DEF EndsWithProse
  <2>1. Stops /\ turn' = Free
    BY <2>0, SaidStops
  <2>2. UNCHANGED phoneVars \/ Hearing
    BY <2>0, <2>1, SendsHears DEF Hearing
  <2>3. CASE turn.kind = "event"
    <3>1. kindOf[turn.of] # "destructive"
      BY <1>1, <2>3 DEF EndsWithProse, AsksModel, AsksForUser, AsksForEvent, AsksForRelay, Bypasses
    <3>2. Fronting
      BY <1>0, <1>1, <2>3, <3>1 DEF EndsWithProse, Fronting
    <3> QED
      BY <1>1, <2>1, <2>2, <3>2 DEF EndsWithProse, AsksModel, AsksForUser, AsksForEvent, AsksForRelay, Talks, Stops
  <2>4. CASE turn.kind # "event"
    BY <1>1, <2>1, <2>2, <2>4 DEF EndsWithProse, AsksModel, AsksForUser, AsksForEvent, AsksForRelay, Talks, Stops
  <2> QED
    BY <2>3, <2>4
<1>2. ASSUME NEW out \in Outcomes, NotifyBypass(out)
      PROVE  Talks
  <2>1. turn.kind = "event" /\ Static(turn.of, out) /\ Close(Said(out))
    BY <1>2 DEF NotifyBypass, Bypasses
  <2>2. UNCHANGED phoneVars /\ (UNCHANGED notify \/ Fronting)
    BY <1>0, <2>1, StaticFronts
  <2>3. Stops
    BY <2>1, SaidStops
  <2> QED
    BY <1>2, <2>1, <2>2, <2>3 DEF NotifyBypass, Talks
<1>3. ASSUME NEW out \in Outcomes, RelayVerbatim(out)
      PROVE  Talks
  <2>1. turn.kind = "exact" /\ Sends(turn.of, "agent", out) /\ UNCHANGED notify /\ Close(Said(out))
    BY <1>3 DEF RelayVerbatim, AsIs, SendsOnly
  <2>2. Stops /\ turn' = Free
    BY <2>1, SaidStops
  <2>3. turn.said # "sent"
    BY <2>1 DEF Verbatim
  <2>4. UNCHANGED phoneVars \/ Hearing
    BY <2>1, <2>2, <2>3, SendsHears DEF Hearing
  <2> QED
    BY <1>3, <2>1, <2>2, <2>4 DEF RelayVerbatim, Talks
<1>4. ASSUME NEW out \in Outcomes, Ends(out)
      PROVE  Talks
  <2>1. CASE turn.kind = "event" /\ turn.said # "sent"
    <3>1. Static(turn.of, out) /\ Close(Said(out))
      BY <1>4, <2>1 DEF Ends, EndsAsIs
    <3>2. UNCHANGED phoneVars /\ (UNCHANGED notify \/ Fronting)
      BY <1>0, <2>1, <3>1, StaticFronts
    <3>3. Stops
      BY <3>1, SaidStops
    <3> QED
      BY <1>4, <2>1, <3>2, <3>3 DEF Ends, EndsAsIs, Talks
  <2>2. CASE ~ (turn.kind = "event" /\ turn.said # "sent")
    <3>1. UNCHANGED <<phoneVars, notify>> /\ Close(turn.said)
      BY <1>4, <2>2 DEF Ends, EndsAsIs
    <3>2. turn.said \in {"nothing", "refused", "sent"}
      BY DEF Types
    <3>3. Stops
      BY <2>2, <3>1, <3>2 DEF Stops
    <3> QED
      BY <1>4, <3>1, <3>3 DEF Ends, EndsAsIs, AsksModel, AsksForUser, AsksForEvent, AsksForRelay, Talks
  <2> QED
    BY <2>1, <2>2
<1>5. ASSUME NEW out \in Outcomes, Errs(out)
      PROVE  Talks
  <2>1. turn.kind \in {"event", "relay", "user"}
    BY <1>0, <1>5 DEF Errs, EndsAsIs, AsksModel, AsksForUser, AsksForEvent, AsksForRelay, AsIs, TurnKinds
  <2>2. CASE turn.kind = "event"
    <3>1. Static(turn.of, out) /\ Close(Said(out))
      BY <1>5, <2>2 DEF Errs, EndsAsIs
    <3>2. UNCHANGED phoneVars /\ (UNCHANGED notify \/ Fronting)
      BY <1>0, <2>2, <3>1, StaticFronts
    <3>3. Stops
      BY <3>1, SaidStops
    <3> QED
      BY <1>5, <2>2, <3>2, <3>3 DEF Errs, EndsAsIs, Talks
  <2>3. CASE turn.kind = "user"
    <3>1. SendsOnly(None, "code", out) /\ Close(Said(out))
      BY <1>5, <2>3 DEF Errs, EndsAsIs
    <3>2. UNCHANGED phoneVars /\ UNCHANGED notify
      BY <3>1, PhoneAssumption DEF SendsOnly, Sends, phoneVars
    <3>3. Stops
      BY <3>1, SaidStops
    <3> QED
      BY <1>5, <2>3, <3>2, <3>3 DEF Errs, EndsAsIs, Talks
  <2>4. CASE turn.kind = "relay" /\ turn.said # "sent"
    <3>1. Sends(turn.of, "agent", out) /\ UNCHANGED notify /\ Close(Said(out))
      BY <1>5, <2>4 DEF Errs, EndsAsIs, SendsOnly, Forwards
    <3>2. Stops /\ turn' = Free
      BY <3>1, SaidStops
    <3>3. UNCHANGED phoneVars \/ Hearing
      BY <2>4, <3>1, <3>2, SendsHears DEF Hearing
    <3> QED
      BY <1>5, <2>4, <3>1, <3>2, <3>3 DEF Errs, EndsAsIs, Talks
  <2>5. CASE turn.kind = "relay" /\ turn.said = "sent"
    <3>1. UNCHANGED <<phoneVars, notify>> /\ Close("sent")
      BY <1>5, <2>5 DEF Errs, EndsAsIs, Forwards
    <3> QED
      BY <1>5, <2>5, <3>1 DEF Errs, EndsAsIs, Talks, Stops
  <2> QED
    BY <2>1, <2>2, <2>3, <2>4, <2>5
<1>6. ASSUME NEW r \in Requests \cup {None}, NEW out \in Outcomes, MessageUser(r, out)
      PROVE  Talks
  <2>1. /\ MayCall /\ (r # None => row[r] # "absent") /\ Spoke(out) /\ Sends(turn.of, "model", out)
        /\ UNCHANGED <<kindOf, row, arrived, jobs, verdict, fate, inbound>>
    BY <1>6 DEF MessageUser
  <2>2. GoesOn
    BY <2>1, SpokeGoesOn
  <2>3. out = "sent" => turn'.said = "sent"
    BY <2>1, SaidOne DEF Spoke, Called, Types
  <2>4. UNCHANGED phoneVars \/ Hearing
    BY <2>1, <2>3, SendsHears DEF Hearing
  <2> DEFINE by == IF About(r) \in turn.pending THEN "model" ELSE "blind"
  <2>5. UNCHANGED notify \/ (MayFront(About(r)) /\ Fronts(About(r), About(r), by))
    BY <1>6 DEF MessageUser
  <2>6. ASSUME MayFront(About(r)), Fronts(About(r), About(r), by)
        PROVE  Fronting
    <3>1. CASE r # None
      <4>1. /\ About(r) = r /\ r \in Requests /\ row[r] # "absent"
            /\ kindOf[r] = "destructive" => by # "model"
        BY <2>1, <2>6, <3>1 DEF About, MayFront
      <4> QED
        BY <2>6, <3>1, <4>1 DEF Fronting
    <3>2. CASE r = None
      <4>1. turn.kind = "event" /\ About(r) = turn.of
        BY <2>6, <3>2 DEF About, MayFront
      <4>2. kindOf[turn.of] # "destructive"
        BY <2>1, <4>1 DEF MayCall, AsksModel, AsksForUser, AsksForEvent, AsksForRelay, Bypasses
      <4> QED
        BY <1>0, <2>6, <4>1, <4>2 DEF Fronting
    <3> QED
      BY <3>1, <3>2
  <2> QED
    BY <2>1, <2>2, <2>4, <2>5, <2>6 DEF MayCall, AsksModel, AsksForUser, AsksForEvent, AsksForRelay, Talks
<1>7. ASSUME NEW r \in Requests, NEW out \in Outcomes, Surface(r, out)
      PROVE  Talks
  <2>1. /\ MayCall /\ row[r] # "absent" /\ Static(r, out) /\ Spoke(out)
        /\ UNCHANGED <<kindOf, row, arrived, jobs, verdict, fate, inbound>>
    BY <1>7 DEF Surface
  <2> QED
    BY <2>1, StaticFronts, SpokeGoesOn DEF MayCall, AsksModel, AsksForUser, AsksForEvent, AsksForRelay, Talks
<1>8. ASSUME NEW s \in Sessions, NEW action \in {"allow", "approve", "deny"}, Decide(s, action)
      PROVE  Decides
  <2> DEFINE ofSession == {r \in turn.pending : SessionOf[r] = s}
             cands == CASE action = "allow" -> {r \in ofSession : Permission(r)}
                        [] action = "approve" -> {r \in ofSession : kindOf[r] = "plan"}
                        [] action = "deny" -> ofSession
             target == IF PickStrict(cands) # None \/ action = "allow"
                       THEN PickStrict(cands) ELSE Latest(cands)
             behavior == IF action = "deny" THEN "deny" ELSE "allow"
  <2>1. /\ MayCall /\ cands # {} /\ target # None /\ Resolve(target, behavior)
        /\ turn' = Called(turn)
        /\ UNCHANGED <<kindOf, notify, arrived, jobs, fate, phoneVars, inbound>>
    BY <1>8 DEF Decide
  <2>2. /\ ofSession \subseteq turn.pending
        /\ action = "allow" => cands = {r \in ofSession : Permission(r)}
        /\ action = "approve" => cands = {r \in ofSession : kindOf[r] = "plan"}
        /\ action = "deny" => cands = ofSession
    OBVIOUS
  <2>3. turn.pending \subseteq Requests /\ turn.bound \in turn.pending \cup {None}
        /\ \A r \in turn.pending : row[r] # "absent"
    BY DEF Types, Known
  <2>4. \A q \in turn.pending : q \in ofSession <=> SessionOf[q] = s
    OBVIOUS
  <2>5. behavior \in {"allow", "deny"} /\ (behavior = "allow" <=> action \in {"allow", "approve"})
    OBVIOUS
  <2> HIDE DEF ofSession, cands, behavior
  <2>6. cands \in SUBSET turn.pending
    BY <2>2
  <2>7. target \in cands
    <3>1. PickStrict(cands) # None => PickStrict(cands) \in cands
      BY <2>3, <2>6, PickIsOne
    <3>2. Latest(cands) \in cands
      BY <2>1, <2>3, <2>6, LatestIsOne
    <3> QED
      BY <2>1, <3>1, <3>2
  <2>8. action = "allow" => target = PickStrict(cands)
    OBVIOUS
  <2> HIDE DEF target
  <2>9. ASSUME behavior = "allow", NEW q \in Requests, turn.bound = q,
               SessionOf[target] = SessionOf[q], Permission(target), Permission(q)
        PROVE  target = q
    <3>1. q \in turn.pending
      BY <2>3, <2>9, PhoneAssumption
    <3>2. SessionOf[q] = s
      BY <2>2, <2>4, <2>6, <2>7, <2>9
    <3>3. q \in ofSession
      BY <2>4, <3>1, <3>2
    <3>4. action # "approve"
      BY <2>2, <2>7, <2>9 DEF Permission
    <3>5. action = "allow"
      BY <2>5, <2>9, <3>4
    <3>6. q \in cands
      BY <2>2, <2>9, <3>3, <3>5
    <3> QED
      BY <2>8, <2>9, <3>5, <3>6 DEF PickStrict
  <2> QED
    BY <2>1, <2>5, <2>6, <2>7, <2>9 DEF Decides
<1> QED
  BY <1>1, <1>2, <1>3, <1>4, <1>5, <1>6, <1>7, <1>8 DEF Turn

LEMMA TargetIsOne ==
  ASSUME NEW tap, NEW pending \in SUBSET Requests
  PROVE  Target(tap, pending) \in pending \cup {None}
<1> DEFINE fits == IF tap # 0 THEN {r \in pending : notify[r].id = tap} ELSE pending
<1>1. fits \in SUBSET pending /\ fits \in SUBSET Requests
  OBVIOUS
<1>2. IsFiniteSet(fits)
  BY <1>1, PhoneAssumption, FS_Subset
<1>3. Cardinality(fits) = 1 => \E r : fits = {r}
  <2> HIDE DEF fits
  <2> QED BY <1>2, FS_Singleton
<1> QED
  BY <1>1, <1>3 DEF Target

-----------------------------------------------------------------------------
(* Types, and what refers to what. *)

LEMMA TypesInit == Init => Types
<1>1. 0 \in 0 .. MaxIds /\ 0 \in 0 .. Old /\ 0 \in 0 .. MaxRounds /\ 0 \in 0 .. MaxInbound
  BY PhoneAssumption DEF Old
<1> QED
  BY <1>1 DEF Init, Types, Free, Message, Bindings, Items, TurnKinds

LEMMA TypesStep == Types /\ Known /\ Verbatim /\ FewTaps /\ [Next]_vars => Types'
<1> SUFFICES ASSUME Types, Known, Verbatim, FewTaps, [Next]_vars
             PROVE  Types'
  OBVIOUS
<1> USE DEF phoneVars
<1>0. /\ 0 \in 0 .. MaxIds /\ 0 \in 0 .. Old /\ 0 \in 0 .. MaxRounds
      /\ MaxIds \in Nat /\ MaxInbound \in Nat /\ MaxRounds \in Nat
      /\ Kinds \in [Requests -> SUBSET {"destructive", "edit", "plan", "question"}]
  BY PhoneAssumption DEF Old
<1>1. ASSUME NEW r \in Requests, NEW k \in Kinds[r], NEW away \in BOOLEAN, AttentionArrives(r, k, away)
      PROVE  Types'
  <2>1. k \in {"destructive", "edit", "plan", "question"}
    BY <1>0
  <2>2. Job("event", r, 0) \in [kind : TurnKinds, of : Items \cup {None}, tap : 0 .. Old]
    BY <1>0 DEF Job, TurnKinds, Items
  <2>3. Append(arrived, r) \in Seq(Requests)
    BY DEF Types
  <2>4. kindOf' \in [Requests -> {"none", "destructive", "edit", "plan", "question"}]
        /\ row' \in [Requests -> {"absent", "pending", "allow", "deny"}]
    BY <1>1, <2>1 DEF AttentionArrives, Types
  <2> QED
    BY <1>1, <2>2, <2>3, <2>4 DEF AttentionArrives, Types
<1>2. ASSUME NEW m \in Relays, NEW exact \in BOOLEAN, RelayArrives(m, exact)
      PROVE  Types'
  <2>1. Job(IF exact THEN "exact" ELSE "relay", m, 0) \in [kind : TurnKinds, of : Items \cup {None}, tap : 0 .. Old]
    BY <1>0 DEF Job, TurnKinds, Items
  <2> QED
    BY <1>2, <2>1 DEF RelayArrives, Types
<1>3. ASSUME NEW tap \in 0 .. Old, UserActs(tap)
      PROVE  Types'
  <2>1. Job("user", None, tap) \in [kind : TurnKinds, of : Items \cup {None}, tap : 0 .. Old]
    BY DEF Job, TurnKinds
  <2>2. inbound' \in 0 .. MaxInbound
    BY <1>0, <1>3 DEF UserActs, Types
  <2> QED
    BY <1>3, <2>1, <2>2 DEF UserActs, Types
<1>4. ASSUME NEW r \in Requests, DeadlineDenies(r)
      PROVE  Types'
  BY <1>4 DEF DeadlineDenies, Types
<1>5. ASSUME NEW j \in jobs, Begin(j)
      PROVE  Types'
  <2>1. Pending \subseteq Requests
    BY DEF Pending
  <2>2. (IF j.kind = "user" THEN Target(j.tap, Pending) ELSE None) \in Bindings
    BY <2>1, TargetIsOne DEF Bindings
  <2>3. j \in [kind : TurnKinds, of : Items \cup {None}, tap : 0 .. Old]
    BY DEF Types
  <2>4. turn' \in [kind : TurnKinds \cup {"none"}, of : Items \cup {None}, tap : 0 .. Old,
               pending : SUBSET Requests, bound : Bindings,
               said : {"nothing", "refused", "sent"}, calls : 0 .. MaxRounds]
    BY <1>0, <1>5, <2>1, <2>2, <2>3 DEF Begin, Free
  <2> QED
    BY <1>5, <2>4 DEF Begin, Types
<1>6. ASSUME Talks
      PROVE  Types'
  <2>1. notify' \in [Requests -> [id : 0 .. MaxIds, about : Bindings, by : {"nobody", "code", "model", "blind"}]]
    <3>1. NewId \in 0 .. MaxIds
      BY <1>0, FreeId
    <3>2. ASSUME NEW r \in Requests, NEW by \in {"code", "model", "blind"}
          PROVE  Message(NewId, r, by) \in [id : 0 .. MaxIds, about : Bindings, by : {"nobody", "code", "model", "blind"}]
      BY <3>1 DEF Message, Bindings
    <3>3. CASE Fronting
      <4>1. PICK r \in Requests, by \in {"code", "model", "blind"} : Fronts(r, r, by)
        BY <3>3 DEF Fronting
      <4>2. notify' = [notify EXCEPT ![r] = Message(NewId, r, by)]
        BY <4>1 DEF Fronts
      <4> QED
        BY <3>2, <4>2 DEF Types
    <3> QED
      BY <1>6, <3>3 DEF Talks, Types
  <2>2. heard' \in [Relays -> SUBSET {"code", "model", "agent"}]
    <3>1. CASE Hearing
      <4>1. PICK by \in {"model", "agent"} : turn.of \in Relays /\ heard' = [heard EXCEPT ![turn.of] = @ \cup {by}]
        BY <3>1 DEF Hearing
      <4>2. heard[turn.of] \cup {by} \in SUBSET {"code", "model", "agent"}
        BY <4>1 DEF Types
      <4> QED
        BY <4>1, <4>2 DEF Types
    <3> QED
      BY <1>6, <3>1 DEF Talks, Types
  <2>3. turn' \in [kind : TurnKinds \cup {"none"}, of : Items \cup {None}, tap : 0 .. Old,
               pending : SUBSET Requests, bound : Bindings,
               said : {"nothing", "refused", "sent"}, calls : 0 .. MaxRounds]
    <3>1. CASE GoesOn
      <4>1. turn.calls + 1 \in 0 .. MaxRounds
        BY <1>0, <3>1 DEF GoesOn, MayCall, Types
      <4> QED
        BY <3>1, <4>1 DEF GoesOn, Called, Types
    <3>2. CASE Stops
      BY <1>0, <3>2 DEF Stops, Close, Free, Bindings
    <3> QED
      BY <1>6, <3>1, <3>2 DEF Talks
  <2>4. fate' \in [Items -> {"open", "accepted", "silent", "done"}]
    BY <1>6 DEF Talks, GoesOn, Stops, Close, Types
  <2>5. noId' \subseteq Relays
    BY <1>6 DEF Talks, Hearing, Types
  <2> QED
    BY <1>6, <2>1, <2>2, <2>3, <2>4, <2>5 DEF Talks, Types
<1>7. ASSUME Decides
      PROVE  Types'
  <2>1. turn.calls + 1 \in 0 .. MaxRounds
    BY <1>0, <1>7 DEF Decides, MayCall, Types
  <2>2. turn' \in [kind : TurnKinds \cup {"none"}, of : Items \cup {None}, tap : 0 .. Old,
               pending : SUBSET Requests, bound : Bindings,
               said : {"nothing", "refused", "sent"}, calls : 0 .. MaxRounds]
    BY <1>7, <2>1 DEF Decides, Called, Types
  <2>3. row' \in [Requests -> {"absent", "pending", "allow", "deny"}]
        /\ verdict' \in [Requests -> [tapped : BOOLEAN, bound : Bindings]]
    <3>1. PICK r \in turn.pending, behavior \in {"allow", "deny"} : Resolve(r, behavior)
      BY <1>7 DEF Decides
    <3>2. r \in Requests /\ turn.bound \in Bindings /\ (turn.tap # 0) \in BOOLEAN
      BY DEF Types
    <3>3. [tapped |-> turn.tap # 0, bound |-> turn.bound] \in [tapped : BOOLEAN, bound : Bindings]
      BY <3>2
    <3> DEFINE v == [tapped |-> turn.tap # 0, bound |-> turn.bound]
    <3>4. \/ UNCHANGED <<row, verdict>>
          \/ row' = [row EXCEPT ![r] = behavior] /\ verdict' = [verdict EXCEPT ![r] = v]
      BY <3>1 DEF Resolve
    <3>5. behavior \in {"absent", "pending", "allow", "deny"}
      BY <3>1
    <3> HIDE DEF v
    <3>6. v \in [tapped : BOOLEAN, bound : Bindings]
      BY <3>3 DEF v
    <3>7. row' \in [Requests -> {"absent", "pending", "allow", "deny"}]
      BY <3>2, <3>4, <3>5 DEF Types
    <3> DEFINE Verdicts == [tapped : BOOLEAN, bound : Bindings]
    <3>8. v \in Verdicts /\ verdict \in [Requests -> Verdicts]
      BY <3>6 DEF Types
    <3> HIDE DEF Verdicts
    <3>9. verdict' \in [Requests -> Verdicts]
      BY <3>2, <3>4, <3>8
    <3> QED
      BY <3>7, <3>9 DEF Verdicts
  <2> QED
    BY <1>7, <2>2, <2>3 DEF Decides, Types
<1>8. CASE UNCHANGED vars
  BY <1>8 DEF vars, Types
<1> QED
  BY <1>1, <1>2, <1>3, <1>4, <1>5, <1>6, <1>7, <1>8, TurnShape DEF Next

\* A turn that talks goes on with the same trigger, or is over.
LEMMA TalksTurn ==
  ASSUME Types, Talks
  PROVE  \/ turn' = Free /\ Stops
         \/ /\ turn'.kind = turn.kind /\ turn'.of = turn.of /\ turn'.tap = turn.tap
            /\ turn'.pending = turn.pending /\ turn'.bound = turn.bound
            /\ turn'.said \in {"refused", "sent"} /\ (turn.said = "sent" => turn'.said = "sent")
            /\ turn.kind # "exact" /\ turn' # Free /\ UNCHANGED fate
<1>1. CASE Stops
  BY <1>1 DEF Stops, Close
<1>2. CASE GoesOn
  <2>1. PICK said \in {"refused", "sent"} :
          (turn.said = "sent" => said = "sent") /\ turn' = [Called(turn) EXCEPT !.said = said]
    BY <1>2 DEF GoesOn
  <2>2. /\ turn'.kind = turn.kind /\ turn'.of = turn.of /\ turn'.tap = turn.tap
        /\ turn'.pending = turn.pending /\ turn'.bound = turn.bound /\ turn'.said = said
    BY <2>1 DEF Called, Types
  <2>3. turn.kind # "exact" /\ UNCHANGED fate
    BY <1>2 DEF GoesOn, MayCall, AsksModel, AsksForUser, AsksForEvent, AsksForRelay, AsIs
  <2>4. turn' # Free
    BY <2>1, <2>2 DEF Free
  <2> QED
    BY <2>1, <2>2, <2>3, <2>4
<1> QED
  BY <1>1, <1>2 DEF Talks

LEMMA KnownInit == Init => Known
  BY DEF Init, Known, Sound, Free, Message

LEMMA KnownStep == Types /\ Known /\ Verbatim /\ FewTaps /\ [Next]_vars => Known'
<1> SUFFICES ASSUME Types, Known, Verbatim, FewTaps, [Next]_vars
             PROVE  Known'
  OBVIOUS
<1>1. ASSUME NEW r \in Requests, NEW k \in Kinds[r], NEW away \in BOOLEAN, AttentionArrives(r, k, away)
      PROVE  Known'
  <2>1. row' = [row EXCEPT ![r] = "pending"] /\ row \in [Requests -> {"absent", "pending", "allow", "deny"}]
        /\ UNCHANGED <<notify, turn, verdict>>
    BY <1>1 DEF AttentionArrives, Types
  <2>2. \A q \in Requests : row'[q] = "absent" <=> row[q] = "absent" /\ q # r
    BY <2>1
  <2>3. \A j \in jobs' : Sound(j)'
    BY <1>1, <2>2 DEF AttentionArrives, Known, Sound, Job
  <2>4. \A q \in Requests : row'[q] # "absent" => \E i \in DOMAIN arrived' : arrived'[i] = q
    <3>1. arrived' = Append(arrived, r) /\ arrived \in Seq(Requests) /\ Len(arrived) \in Nat
      BY <1>1 DEF AttentionArrives, Types
    <3>2. DOMAIN arrived' = 1 .. Len(arrived) + 1 /\ arrived'[Len(arrived) + 1] = r
          /\ \A i \in 1 .. Len(arrived) : arrived'[i] = arrived[i]
      BY <3>1
    <3>3. DOMAIN arrived = 1 .. Len(arrived) /\ Len(arrived) + 1 \in DOMAIN arrived'
          /\ DOMAIN arrived \subseteq DOMAIN arrived'
      BY <3>1, <3>2
    <3>4. \A q \in Requests : row[q] # "absent" => \E i \in DOMAIN arrived : arrived[i] = q
      BY DEF Known
    <3> QED
      BY <2>2, <3>2, <3>3, <3>4, Zenon
  <2>5. Sound(turn)'
    BY <2>1, <2>2 DEF Known, Sound
  <2>6. /\ \A q \in turn.pending : row'[q] # "absent"
        /\ \A q \in Requests : verdict[q].bound # None => row'[verdict[q].bound] # "absent"
    BY <2>2 DEF Known, Types, Bindings
  <2>7. /\ \A q \in Requests : row'[q] = "absent" => notify[q].id = 0 /\ verdict[q].tapped = FALSE
        /\ turn.bound \in turn.pending \cup {None}
    BY <2>2 DEF Known
  <2> QED
    BY <2>1, <2>3, <2>4, <2>5, <2>6, <2>7 DEF Known
<1>2. ASSUME NEW m \in Relays, NEW exact \in BOOLEAN, RelayArrives(m, exact)
      PROVE  Known'
  <2>1. UNCHANGED <<row, notify, arrived, turn, verdict>>
        /\ jobs' = jobs \cup {Job(IF exact THEN "exact" ELSE "relay", m, 0)}
    BY <1>2 DEF RelayArrives
  <2>2. \A j \in jobs' : Sound(j)'
    BY <2>1 DEF Known, Sound, Job
  <2> QED
    BY <2>1, <2>2 DEF Known, Sound
<1>3. ASSUME NEW tap \in 0 .. Old, UserActs(tap)
      PROVE  Known'
  <2>1. UNCHANGED <<row, notify, arrived, turn, verdict>>
        /\ jobs' = jobs \cup {Job("user", None, tap)}
    BY <1>3 DEF UserActs
  <2>2. \A j \in jobs' : Sound(j)'
    BY <2>1 DEF Known, Sound, Job
  <2> QED
    BY <2>1, <2>2 DEF Known, Sound
<1>4. ASSUME NEW r \in Requests, DeadlineDenies(r)
      PROVE  Known'
  <2>1. UNCHANGED <<notify, arrived, jobs, turn, verdict>>
        /\ \A q \in Requests : row'[q] = "absent" <=> row[q] = "absent"
    BY <1>4 DEF DeadlineDenies, Types
  <2> QED
    BY <2>1 DEF Known, Sound, Types, Bindings
<1>5. ASSUME NEW j \in jobs, Begin(j)
      PROVE  Known'
  <2>1. /\ UNCHANGED <<row, notify, arrived, verdict>> /\ jobs' \subseteq jobs
        /\ turn' = [Free EXCEPT !.kind = j.kind, !.of = j.of, !.tap = j.tap, !.pending = Pending,
                          !.bound = IF j.kind = "user" THEN Target(j.tap, Pending) ELSE None]
    BY <1>5 DEF Begin
  <2>2. turn'.kind = j.kind /\ turn'.of = j.of /\ turn'.pending = Pending
        /\ turn'.bound = IF j.kind = "user" THEN Target(j.tap, Pending) ELSE None
    BY <2>1 DEF Free
  <2>3. Pending \in SUBSET Requests /\ \A r \in Pending : row[r] # "absent"
    BY DEF Pending
  <2>4. turn'.bound \in turn'.pending \cup {None}
    BY <2>2, <2>3, TargetIsOne
  <2>5. Sound(turn)'
    BY <2>1, <2>2 DEF Known, Sound
  <2> QED
    BY <2>1, <2>2, <2>3, <2>4, <2>5 DEF Known, Sound
<1>6. ASSUME Talks
      PROVE  Known'
  <2>1. UNCHANGED <<row, arrived, jobs, verdict>>
    BY <1>6 DEF Talks
  <2>2. \A q \in Requests : row[q] = "absent" => notify'[q].id = 0
    <3>1. CASE Fronting
      <4>1. PICK r \in Requests, by \in {"code", "model", "blind"} : row[r] # "absent" /\ Fronts(r, r, by)
        BY <3>1 DEF Fronting
      <4>2. \A q \in Requests : q # r => notify'[q] = notify[q]
        BY <4>1 DEF Fronts, Types
      <4> QED
        BY <4>1, <4>2 DEF Known
    <3> QED
      BY <1>6, <3>1 DEF Talks, Known
  <2>3. \/ turn' = Free
        \/ turn'.kind = turn.kind /\ turn'.of = turn.of /\ turn'.pending = turn.pending
           /\ turn'.bound = turn.bound
    BY <1>6, TalksTurn
  <2>4. /\ Sound(turn)' /\ turn'.bound \in turn'.pending \cup {None}
        /\ \A r \in turn'.pending : row[r] # "absent"
    <3>1. CASE turn' = Free
      BY <3>1 DEF Free, Sound
    <3>2. CASE turn' # Free
      BY <2>1, <2>3, <3>2 DEF Known, Sound
    <3> QED
      BY <3>1, <3>2
  <2> QED
    BY <2>1, <2>2, <2>4 DEF Known, Sound
<1>7. ASSUME Decides
      PROVE  Known'
  <2>1. UNCHANGED <<notify, arrived, jobs>> /\ turn' = Called(turn)
    BY <1>7 DEF Decides
  <2>2. turn'.kind = turn.kind /\ turn'.of = turn.of /\ turn'.pending = turn.pending
        /\ turn'.bound = turn.bound
    BY <2>1 DEF Called, Types
  <2>3. PICK r \in turn.pending, behavior \in {"allow", "deny"} : Resolve(r, behavior)
    BY <1>7 DEF Decides
  <2>4. r \in Requests /\ row[r] # "absent" /\ (turn.bound # None => row[turn.bound] # "absent")
    BY DEF Types, Known
  <2>5. \A q \in Requests : row'[q] = "absent" <=> row[q] = "absent"
    BY <2>3, <2>4 DEF Resolve, Types
  <2>6. \A q \in Requests : verdict'[q] = verdict[q]
                            \/ (q = r /\ verdict'[q].bound = turn.bound)
    BY <2>3, <2>4 DEF Resolve, Types
  <2>7. \A q \in Requests : verdict'[q].bound # None => row'[verdict'[q].bound] # "absent"
    <3> TAKE q \in Requests
    <3>1. verdict'[q].bound \in Bindings
      BY <2>6 DEF Types
    <3>2. verdict'[q].bound # None => row[verdict'[q].bound] # "absent"
      BY <2>4, <2>6 DEF Known
    <3> QED
      BY <2>5, <3>1, <3>2 DEF Bindings
  <2>8. \A q \in Requests : row'[q] = "absent" => notify'[q].id = 0 /\ verdict'[q].tapped = FALSE
    BY <2>1, <2>4, <2>5, <2>6 DEF Known
  <2>9. (\A j \in jobs : Sound(j)') /\ Sound(turn)'
    BY <2>1, <2>2, <2>5 DEF Known, Sound
  <2> QED
    BY <2>1, <2>2, <2>5, <2>7, <2>8, <2>9 DEF Known, Types
<1>8. CASE UNCHANGED vars
  BY <1>8 DEF vars, Known, Sound
<1> QED
  BY <1>1, <1>2, <1>3, <1>4, <1>5, <1>6, <1>7, <1>8, TurnShape DEF Next

LEMMA VerbatimStep == Types /\ Known /\ Verbatim /\ [Next]_vars => Verbatim'
<1> SUFFICES ASSUME Types, Known, Verbatim, [Next]_vars
             PROVE  Verbatim'
  OBVIOUS
<1>1. ASSUME NEW j \in jobs, Begin(j)
      PROVE  Verbatim'
  BY <1>1 DEF Begin, Free, Verbatim
<1>2. ASSUME Talks
      PROVE  Verbatim'
  BY <1>2, TalksTurn DEF Free, Verbatim
<1>3. ASSUME Decides
      PROVE  Verbatim'
  BY <1>3 DEF Decides, Called, Verbatim, Types
<1>4. UNCHANGED turn => Verbatim'
  BY DEF Verbatim
<1> QED
  BY <1>1, <1>2, <1>3, <1>4, TurnShape
  DEF Next, vars, AttentionArrives, RelayArrives, UserActs, DeadlineDenies

\* A finite set of taps and no more than there were texts.
LEMMA FewTapsStep == Types /\ Known /\ Verbatim /\ FewTaps /\ [Next]_vars => FewTaps'
<1> SUFFICES ASSUME Types, Known, Verbatim, FewTaps, [Next]_vars
             PROVE  FewTaps'
  OBVIOUS
<1>0. inbound \in Nat /\ Cardinality(Taps) \in Nat /\ IsFiniteSet(Taps) /\ Cardinality(Taps) <= inbound
  BY PhoneAssumption, FS_CardinalityType DEF Types, FewTaps
<1>1. ASSUME Taps' \subseteq Taps, UNCHANGED inbound
      PROVE  FewTaps'
  <2>1. Taps' \in SUBSET Taps
    BY <1>1
  <2>2. IsFiniteSet(Taps') /\ Cardinality(Taps') <= Cardinality(Taps)
    BY <1>0, <2>1, FS_Subset
  <2>3. Cardinality(Taps') \in Nat
    BY <2>2, FS_CardinalityType
  <2> QED
    BY <1>0, <1>1, <2>2, <2>3 DEF FewTaps
<1>2. ASSUME NEW tap \in 0 .. Old, UserActs(tap)
      PROVE  FewTaps'
  <2>1. Taps' \subseteq Taps \cup {tap} /\ inbound' = inbound + 1
    BY <1>2 DEF UserActs, Taps, Job
  <2>2. IsFiniteSet(Taps \cup {tap}) /\ Cardinality(Taps \cup {tap}) <= Cardinality(Taps) + 1
        /\ Cardinality(Taps \cup {tap}) \in Nat
    <3>1. /\ IsFiniteSet(Taps \cup {tap})
          /\ Cardinality(Taps \cup {tap}) = IF tap \in Taps THEN Cardinality(Taps) ELSE Cardinality(Taps) + 1
      BY <1>0, FS_AddElement
    <3>2. Cardinality(Taps \cup {tap}) \in {Cardinality(Taps), Cardinality(Taps) + 1}
      BY <3>1
    <3> DEFINE c == Cardinality(Taps)
               d == Cardinality(Taps \cup {tap})
    <3>3. c \in Nat /\ d \in {c, c + 1}
      BY <1>0, <3>2
    <3> HIDE DEF c, d
    <3>4. d \in Nat /\ d <= c + 1
      BY <3>3
    <3> QED
      BY <3>1, <3>4 DEF c, d
  <2>3. Taps' \in SUBSET (Taps \cup {tap})
    BY <2>1
  <2>4. IsFiniteSet(Taps') /\ Cardinality(Taps') <= Cardinality(Taps \cup {tap})
    BY <2>2, <2>3, FS_Subset
  <2>5. Cardinality(Taps') \in Nat
    BY <2>4, FS_CardinalityType
  <2> QED
    BY <1>0, <2>1, <2>2, <2>4, <2>5 DEF FewTaps
<1>3. ASSUME NEW r \in Requests, NEW k \in Kinds[r], NEW away \in BOOLEAN, AttentionArrives(r, k, away)
      PROVE  FewTaps'
  BY <1>1, <1>3 DEF AttentionArrives, Taps, Job
<1>4. ASSUME NEW m \in Relays, NEW exact \in BOOLEAN, RelayArrives(m, exact)
      PROVE  FewTaps'
  BY <1>1, <1>4 DEF RelayArrives, Taps, Job
<1>5. ASSUME NEW j \in jobs, Begin(j)
      PROVE  FewTaps'
  BY <1>1, <1>5 DEF Begin, Taps, Free
<1>6. ASSUME Talks
      PROVE  FewTaps'
  <2>1. turn'.tap \in {0, turn.tap}
    BY <1>6, TalksTurn DEF Free
  <2> QED
    BY <1>1, <1>6, <2>1 DEF Talks, Taps
<1>7. ASSUME Decides
      PROVE  FewTaps'
  <2>1. turn'.tap = turn.tap
    BY <1>7 DEF Decides, Called, Types
  <2> QED
    BY <1>1, <1>7, <2>1 DEF Decides, Taps
<1>8. UNCHANGED <<jobs, turn, inbound>> => FewTaps'
  BY <1>1 DEF Taps
<1> QED
  BY <1>2, <1>3, <1>4, <1>5, <1>6, <1>7, <1>8, TurnShape DEF Next, vars, DeadlineDenies

-----------------------------------------------------------------------------
(* The four properties. *)

LEMMA FrontStep ==
  Types /\ Known /\ Verbatim /\ FewTaps /\ FrontIsTruthful /\ [Next]_vars => FrontIsTruthful'
<1> SUFFICES ASSUME Types, Known, Verbatim, FewTaps, FrontIsTruthful, [Next]_vars
             PROVE  FrontIsTruthful'
  OBVIOUS
<1>1. ASSUME NEW r \in Requests, NEW k \in Kinds[r], NEW away \in BOOLEAN, AttentionArrives(r, k, away)
      PROVE  FrontIsTruthful'
  <2>1. UNCHANGED notify /\ notify[r].id = 0 /\ \A q \in Requests : q # r => kindOf'[q] = kindOf[q]
    BY <1>1 DEF AttentionArrives, Known, Types
  <2> QED
    BY <2>1 DEF FrontIsTruthful
<1>2. ASSUME Talks, Fronting
      PROVE  FrontIsTruthful'
  <2>1. PICK r \in Requests, by \in {"code", "model", "blind"} :
          (kindOf[r] = "destructive" => by # "model") /\ Fronts(r, r, by)
    BY <1>2 DEF Fronting
  <2>2. notify' = [notify EXCEPT ![r] = Message(NewId, r, by)] /\ UNCHANGED kindOf
    BY <1>2, <2>1 DEF Fronts, Talks
  <2>3. /\ notify'[r].id = NewId /\ notify'[r].about = r /\ notify'[r].by = by
        /\ \A q \in Requests : q # r => notify'[q] = notify[q]
    BY <2>2 DEF Types, Message
  <2>4. \A q \in Requests : q # r => notify[q].id # NewId
    BY FreeId DEF InUse
  <2>5. ASSUME NEW q \in Requests, notify'[q].id # 0
        PROVE  /\ kindOf'[q] = "destructive" => notify'[q].about = q /\ notify'[q].by \in {"code", "blind"}
               /\ \A x \in Requests \ {q} : notify'[x].id # notify'[q].id
    <3>1. CASE q = r
      BY <2>1, <2>2, <2>3, <2>4, <3>1
    <3>2. CASE q # r
      BY <2>2, <2>3, <2>4, <2>5, <3>2 DEF FrontIsTruthful
    <3> QED
      BY <3>1, <3>2
  <2> QED
    BY <2>5 DEF FrontIsTruthful
<1>3. UNCHANGED <<kindOf, notify>> => FrontIsTruthful'
  BY DEF FrontIsTruthful
<1> QED
  BY <1>1, <1>2, <1>3, TurnShape
  DEF Next, vars, RelayArrives, UserActs, DeadlineDenies, Begin, Talks, Decides

LEMMA TapbackStep ==
  Types /\ Known /\ Verbatim /\ TapbackAllowsItsOwn /\ [Next]_vars => TapbackAllowsItsOwn'
<1> SUFFICES ASSUME Types, Known, Verbatim, TapbackAllowsItsOwn, [Next]_vars
             PROVE  TapbackAllowsItsOwn'
  OBVIOUS
<1>1. ASSUME NEW x \in Requests, NEW k \in Kinds[x], NEW away \in BOOLEAN, AttentionArrives(x, k, away)
      PROVE  TapbackAllowsItsOwn'
  <2>1. /\ row' = [row EXCEPT ![x] = "pending"] /\ UNCHANGED verdict /\ row[x] = "absent"
        /\ \A q \in Requests : q # x => kindOf'[q] = kindOf[q]
    BY <1>1 DEF AttentionArrives, Types
  <2>2. \A r \in Requests : row'[r] = "allow" => r # x /\ row[r] = "allow"
    BY <2>1 DEF Types
  <2>3. \A r \in Requests : verdict[r].bound # x
    BY <2>1, PhoneAssumption DEF Known
  <2> QED
    BY <2>1, <2>2, <2>3 DEF TapbackAllowsItsOwn, Permission
<1>2. ASSUME NEW x \in Requests, DeadlineDenies(x)
      PROVE  TapbackAllowsItsOwn'
  <2>1. \A r \in Requests : row'[r] = "allow" => row[r] = "allow"
    BY <1>2 DEF DeadlineDenies, Types
  <2> QED
    BY <1>2, <2>1 DEF DeadlineDenies, TapbackAllowsItsOwn, Permission
<1>3. ASSUME Decides
      PROVE  TapbackAllowsItsOwn'
  <2>1. PICK x \in turn.pending, behavior \in {"allow", "deny"} :
          /\ Resolve(x, behavior)
          /\ behavior = "allow" =>
               \A q \in Requests : turn.bound = q /\ SessionOf[x] = SessionOf[q]
                                   /\ Permission(x) /\ Permission(q) => x = q
    BY <1>3 DEF Decides
  <2>2. x \in Requests /\ UNCHANGED kindOf
    BY <1>3 DEF Types, Decides
  <2>3. CASE row[x] # "pending"
    BY <2>1, <2>2, <2>3 DEF Resolve, TapbackAllowsItsOwn, Permission
  <2>4. CASE row[x] = "pending"
    <3>1. /\ row'[x] = behavior /\ verdict'[x].bound = turn.bound
          /\ \A r \in Requests : r # x => row'[r] = row[r] /\ verdict'[r] = verdict[r]
      BY <2>1, <2>2, <2>4 DEF Resolve, Types
    <3> QED
      BY <2>1, <2>2, <3>1 DEF TapbackAllowsItsOwn, Permission
  <2> QED
    BY <2>3, <2>4
<1>4. UNCHANGED <<kindOf, row, verdict>> => TapbackAllowsItsOwn'
  BY DEF TapbackAllowsItsOwn, Permission
<1> QED
  BY <1>1, <1>2, <1>3, <1>4, TurnShape DEF Next, vars, RelayArrives, UserActs, Begin, Talks

LEMMA NeverEatenStep ==
  Types /\ Known /\ Verbatim /\ NeverEaten /\ [Next]_vars => NeverEaten'
<1> SUFFICES ASSUME Types, Known, Verbatim, NeverEaten, [Next]_vars
             PROVE  NeverEaten'
  OBVIOUS
<1>1. ASSUME NEW m \in Relays, NEW exact \in BOOLEAN, RelayArrives(m, exact)
      PROVE  NeverEaten'
  BY <1>1, PhoneAssumption DEF RelayArrives, NeverEaten, Types, Items
<1>2. ASSUME Talks, Stops
      PROVE  NeverEaten'
  <2>1. PICK said \in {"nothing", "refused", "sent"} :
          Close(said) /\ (turn.kind = "event" => said # "nothing")
    BY <1>2 DEF Stops
  <2>2. turn.of \in Requests => turn.kind = "event"
    BY PhoneAssumption DEF Known, Sound, Types, TurnKinds
  <2>3. \A r \in Requests :
          fate'[r] = fate[r] \/ (r = turn.of /\ fate'[r] = IF said = "nothing" THEN "silent" ELSE "done")
    BY <2>1 DEF Close, Types, Items
  <2> QED
    BY <2>1, <2>2, <2>3 DEF NeverEaten
<1>3. UNCHANGED fate => NeverEaten'
  BY DEF NeverEaten
<1> QED
  BY <1>1, <1>2, <1>3, TurnShape
  DEF Next, vars, AttentionArrives, UserActs, DeadlineDenies, Begin, Talks, GoesOn, Decides

\* A relay waits in one job, until then nobody has heard of it, and its turn has told the
\* user of it only in the model's words, once it says so, or where an id did not come back.
Once ==
  \A m \in Relays :
    /\ fate[m] = "open" => heard[m] = {} /\ turn.of # m /\ \A j \in jobs : j.of # m
    /\ \A j, k \in jobs : j.of = m /\ k.of = m => j = k
    /\ \A j \in jobs : j.of = m => heard[m] = {} /\ turn.of # m
    /\ turn.of = m /\ m \notin noId =>
         heard[m] \subseteq {"model"} /\ (turn.said # "sent" => heard[m] = {})
    /\ m \notin noId => \E by : heard[m] \subseteq {by}

LEMMA OnceStep == Types /\ Known /\ Verbatim /\ Once /\ [Next]_vars => Once'
<1> SUFFICES ASSUME Types, Known, Verbatim, Once, [Next]_vars
             PROVE  Once'
  OBVIOUS
<1> USE DEF phoneVars
<1>0. Requests \cap Relays = {} /\ None \notin Relays
  BY PhoneAssumption
<1>1. ASSUME NEW r \in Requests, NEW k \in Kinds[r], NEW away \in BOOLEAN, AttentionArrives(r, k, away)
      PROVE  Once'
  <2>1. \A j \in jobs' : j \in jobs \/ j.of = r
    BY <1>1 DEF AttentionArrives, Job
  <2> QED
    BY <1>0, <1>1, <2>1 DEF AttentionArrives, Once
<1>2. ASSUME NEW m \in Relays, NEW exact \in BOOLEAN, RelayArrives(m, exact)
      PROVE  Once'
  <2> DEFINE n == Job(IF exact THEN "exact" ELSE "relay", m, 0)
  <2>1. /\ jobs' = jobs \cup {n} /\ n.of = m
        /\ fate[m] = "open" /\ UNCHANGED <<turn, heard, noId>>
        /\ fate' = [fate EXCEPT ![m] = "accepted"]
    BY <1>2 DEF RelayArrives, Job
  <2>2. fate'[m] # "open" /\ \A x \in Relays : x # m => fate'[x] = fate[x]
    BY <2>1 DEF Types, Items
  <2> HIDE DEF n
  <2> QED
    BY <2>1, <2>2 DEF Once
<1>3. ASSUME NEW tap \in 0 .. Old, UserActs(tap)
      PROVE  Once'
  <2>1. \A j \in jobs' : j \in jobs \/ j.of = None
    BY <1>3 DEF UserActs, Job
  <2> QED
    BY <1>0, <1>3, <2>1 DEF UserActs, Once
<1>4. ASSUME NEW j \in jobs, Begin(j)
      PROVE  Once'
  <2>1. /\ jobs' = jobs \ {j} /\ turn'.of = j.of /\ UNCHANGED <<fate, heard, noId>>
    BY <1>4 DEF Begin, Free
  <2> QED
    BY <2>1 DEF Once
<1>5. ASSUME Talks
      PROVE  Once'
  <2> SUFFICES ASSUME NEW m \in Relays
               PROVE  /\ fate'[m] = "open" => heard'[m] = {} /\ turn'.of # m /\ \A j \in jobs' : j.of # m
                      /\ \A j, k \in jobs' : j.of = m /\ k.of = m => j = k
                      /\ \A j \in jobs' : j.of = m => heard'[m] = {} /\ turn'.of # m
                      /\ turn'.of = m /\ m \notin noId' =>
                           heard'[m] \subseteq {"model"} /\ (turn'.said # "sent" => heard'[m] = {})
                      /\ m \notin noId' => \E by : heard'[m] \subseteq {by}
    BY DEF Once
  <2>1. UNCHANGED jobs /\ turn'.of \in {turn.of, None}
    BY <1>5, TalksTurn DEF Talks, Free
  <2>2. CASE turn.of # m
    <3>1. heard'[m] = heard[m] /\ (m \in noId => m \in noId')
      BY <1>5, <2>2 DEF Talks, Hearing, Types, phoneVars
    <3>2. fate'[m] = fate[m]
      <4>1. CASE GoesOn
        BY <4>1 DEF GoesOn
      <4>2. CASE Stops
        BY <2>2, <4>2 DEF Stops, Close, Types, Items
      <4> QED
        BY <1>5, <4>1, <4>2 DEF Talks
    <3>3. turn'.of # m
      BY <1>0, <2>1, <2>2
    <3> QED
      BY <2>1, <3>1, <3>2, <3>3 DEF Once
  <2>3. CASE turn.of = m
    <3>1. /\ m \notin noId => heard[m] \subseteq {"model"} /\ (turn.said # "sent" => heard[m] = {})
          /\ fate[m] # "open" /\ \A j \in jobs : j.of # m
      BY <2>3 DEF Once
    <3>2. fate'[m] # "open"
      <4>1. CASE UNCHANGED fate
        BY <3>1, <4>1
      <4>2. CASE Stops
        BY <1>0, <2>3, <4>2 DEF Stops, Close, Types, Items
      <4> QED
        BY <1>5, <4>1, <4>2 DEF Talks, GoesOn
    <3>3. CASE Hearing
      <4>1. PICK by \in {"model", "agent"} :
              /\ heard' = [heard EXCEPT ![turn.of] = @ \cup {by}]
              /\ by = "agent" => turn.said # "sent" /\ turn' = Free
              /\ noId' \in {noId, noId \cup {turn.of}}
              /\ turn' = Free \/ turn'.said = "sent" \/ turn.of \in noId'
        BY <3>3 DEF Hearing
      <4>2. heard'[m] = heard[m] \cup {by}
        BY <2>3, <4>1 DEF Types
      <4>3. turn' = Free => turn'.of # m
        BY <1>0 DEF Free
      <4>4. m \notin noId' => /\ heard'[m] \subseteq {by} /\ (by = "agent" => turn'.of # m)
                             /\ (turn'.of = m => turn'.said = "sent")
        BY <2>3, <3>1, <4>1, <4>2, <4>3
      <4> QED
        BY <2>1, <3>1, <3>2, <4>1, <4>4
    <3>4. CASE UNCHANGED <<heard, noId>>
      <4>1. turn'.of = m => (turn'.said # "sent" => turn.said # "sent")
        BY <1>0, <1>5, TalksTurn DEF Free
      <4> QED
        BY <2>1, <3>1, <3>2, <3>4, <4>1
    <3> QED
      BY <1>5, <3>3, <3>4 DEF Talks, phoneVars
  <2> QED
    BY <2>2, <2>3
<1>6. ASSUME Decides
      PROVE  Once'
  <2>1. turn'.of = turn.of /\ turn'.said = turn.said /\ UNCHANGED <<jobs, fate, heard, noId>>
    BY <1>6 DEF Decides, Called, Types
  <2> QED
    BY <2>1 DEF Once
<1>7. UNCHANGED <<jobs, turn, fate, heard, noId>> => Once'
  BY DEF Once
<1> QED
  BY <1>1, <1>2, <1>3, <1>4, <1>5, <1>6, <1>7, TurnShape DEF Next, vars, DeadlineDenies

-----------------------------------------------------------------------------
(* Together. *)

PhoneInv ==
  Types /\ Known /\ Verbatim /\ FewTaps /\ FrontIsTruthful /\ TapbackAllowsItsOwn /\ NeverEaten /\ Once

LEMMA PhoneInit == Init => PhoneInv
<1> SUFFICES ASSUME Init
             PROVE  PhoneInv
  OBVIOUS
<1>1. Verbatim /\ FrontIsTruthful /\ TapbackAllowsItsOwn
  BY DEF Init, Verbatim, FrontIsTruthful, TapbackAllowsItsOwn, Free, Message
<1>2. NeverEaten /\ Once
  BY PhoneAssumption DEF Init, NeverEaten, Once, Free, Items
<1>3. FewTaps
  <2>1. Taps = {} /\ inbound = 0
    BY DEF Init, Taps, Free
  <2> QED
    BY <2>1, FS_EmptySet DEF FewTaps
<1> QED
  BY <1>1, <1>2, <1>3, TypesInit, KnownInit DEF PhoneInv

LEMMA PhoneStep == PhoneInv /\ [Next]_vars => PhoneInv'
  BY TypesStep, KnownStep, VerbatimStep, FewTapsStep, FrontStep, TapbackStep, NeverEatenStep, OnceStep
  DEF PhoneInv

LEMMA PhoneInvariant == Spec => []PhoneInv
  BY PhoneInit, PhoneStep, PTL DEF Spec

\* Every variable has its type, and a turn works only on rows that have arrived.
THEOREM TypeCorrect == Spec => []TypeOK
<1>1. PhoneInv => TypeOK
  BY PhoneAssumption DEF PhoneInv, Types, Known, TypeOK, ToSet
<1> QED
  BY <1>1, PhoneInvariant, PTL

\* What a tap-back approves is the code's own description of the request: no message fronts
\* two, and the model's prose fronts no destructive permission unless its turn had not loaded
\* the row (execMessageUser, surfaceRequestMessage, notifyStatic).
THEOREM TruthfulFronts == Spec => []FrontIsTruthful
<1>1. PhoneInv => FrontIsTruthful
  BY DEF PhoneInv
<1> QED
  BY <1>1, PhoneInvariant, PTL

\* A turn that was bound by a tap-back allows no other permission of the session, however
\* the model calls its tool and whatever the deadline closed meanwhile (pickStrict).
THEOREM TapbackBinds == Spec => []TapbackAllowsItsOwn
<1>1. PhoneInv => TapbackAllowsItsOwn
  BY DEF PhoneInv
<1> QED
  BY <1>1, PhoneInvariant, PTL

\* The turn of a request never ends without a word to the user having been tried.
THEOREM NothingEaten == Spec => []NeverEaten
<1>1. PhoneInv => NeverEaten
  BY DEF PhoneInv
<1> QED
  BY <1>1, PhoneInvariant, PTL

\* The user gets a relay from the model or with the agent's words, not both, as long as each
\* message that reached the phone came back with its id (relayAgentMessageLocked).
THEOREM OneForward == Spec => []ForwardedOnce
<1>1. ASSUME PhoneInv
      PROVE  ForwardedOnce
  <2> SUFFICES ASSUME NEW m \in Relays \ noId
               PROVE  Cardinality(heard[m]) <= 1
    BY DEF ForwardedOnce
  <2>1. PICK by : heard[m] \in SUBSET {by}
    BY <1>1 DEF PhoneInv, Once
  <2>2. IsFiniteSet({by}) /\ Cardinality({by}) = 1
    BY FS_Singleton
  <2> QED
    BY <2>1, <2>2, FS_Subset
<1> QED
  BY <1>1, PhoneInvariant, PTL
=============================================================================
