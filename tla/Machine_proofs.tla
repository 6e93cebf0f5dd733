-------------------------- MODULE Machine_proofs --------------------------
(***************************************************************************)
(* What the machine keeps, and what the control plane keeps of it.         *)
(*                                                                         *)
(* The two copies of the AFK state, for any number of processes, toggles   *)
(* and faults: a remote toggle that found the device at rest stands, a new *)
(* stream makes the copies agree, and caffeinate runs exactly while AFK is *)
(* on.                                                                     *)
(*                                                                         *)
(* The machine's installation, for any number of tokens, runs and mishaps: *)
(* one machine has one device row, a whole uninstall leaves nothing of     *)
(* ours, and only a later exchange takes the row from a stored token.      *)
(***************************************************************************)
EXTENDS AfkState, Enrollment, SequenceTheorems, TLAPS

Pcs == {"no", "begun", "sent", "handled", "late", "over"}
Requested == [pc : Pcs, afk : BOOLEAN, asserts : BOOLEAN]
Kept == [pc : {"no", "look", "act"}, afk : BOOLEAN, saw : Nat]

Types ==
  /\ local \in BOOLEAN /\ dirty \in BOOLEAN /\ server \in BOOLEAN
  /\ request \in [Processes -> Requested]
  /\ last \in [Channels -> BOOLEAN \cup {None}]
  /\ frames \in [Channels -> Seq(BOOLEAN)]
  /\ keep \in [Processes -> Kept]
  /\ alive \subseteq 1 .. MaxSpawns /\ pid \in Nat
  /\ disturbed \in BOOLEAN /\ synced \in BOOLEAN

LEMMA TypesInit == Init => Types
<1>1. Unsent \in Requested /\ Asleep \in Kept
  BY DEF Unsent, Asleep, Requested, Kept, Pcs
<1>2. /\ [p \in Processes |-> Unsent] \in [Processes -> Requested]
      /\ [p \in Processes |-> Asleep] \in [Processes -> Kept]
  BY <1>1
<1>3. /\ [c \in Channels |-> None] \in [Channels -> BOOLEAN \cup {None}]
      /\ [c \in Channels |-> <<>>] \in [Channels -> Seq(BOOLEAN)]
  OBVIOUS
<1> SUFFICES ASSUME Init
             PROVE  Types
  OBVIOUS
<1>4. request \in [Processes -> Requested] /\ keep \in [Processes -> Kept]
  BY <1>2 DEF Init
<1>5. last \in [Channels -> BOOLEAN \cup {None}] /\ frames \in [Channels -> Seq(BOOLEAN)]
  BY <1>3 DEF Init
<1> QED
  BY <1>4, <1>5 DEF Init, Types

LEMMA TypesStep == Types /\ [Next]_vars => Types'
<1> SUFFICES ASSUME Types, [Next]_vars
             PROVE  Types'
  OBVIOUS
<1>0. /\ Unsent \in Requested /\ Asleep \in Kept /\ Processes = Channels \cup Commands
      /\ \A pc \in Pcs : [Unsent EXCEPT !.pc = pc] \in Requested
      /\ \A p \in Processes, pc \in Pcs : [request[p] EXCEPT !.pc = pc] \in Requested
  <2>1. Unsent \in Requested /\ \A pc \in Pcs : [Unsent EXCEPT !.pc = pc] \in Requested
    BY DEF Unsent, Requested, Pcs
  <2>2. Asleep \in Kept /\ Processes = Channels \cup Commands
    BY DEF Asleep, Kept, Processes
  <2>3. ASSUME NEW p \in Processes, NEW pc \in Pcs
        PROVE  [request[p] EXCEPT !.pc = pc] \in Requested
    <3>1. request[p] \in Requested
      BY DEF Types
    <3> QED
      BY <3>1 DEF Requested
  <2> QED
    BY <2>1, <2>2, <2>3
<1>1. ASSUME NEW p \in Processes, NEW afk \in BOOLEAN, Reconciles(p, afk)
      PROVE  keep' \in [Processes -> Kept] /\ disturbed' \in BOOLEAN
  <2>1. [pc |-> "look", afk |-> afk, saw |-> 0] \in Kept
    BY DEF Kept
  <2>2. keep' \in [Processes -> Kept]
    BY <1>1, <2>1 DEF Reconciles, Types
  <2>3. disturbed' \in BOOLEAN
    BY <1>1 DEF Reconciles
  <2> QED
    BY <2>2, <2>3
<1>2. ASSUME NEW p \in Commands, NEW next \in BOOLEAN, Toggle(p, next)
      PROVE  Types'
  <2>1. [pc |-> "begun", afk |-> next, asserts |-> TRUE] \in Requested
    BY DEF Requested, Pcs
  <2> QED
    BY <1>0, <1>1, <1>2, <2>1 DEF Toggle, Types, streams
<1>3. ASSUME NEW p \in Commands, CommandDies(p)
      PROVE  Types'
  <2>1. request' \in [Processes -> Requested] /\ keep' \in [Processes -> Kept]
    BY <1>0, <1>3 DEF CommandDies, Types, Pcs
  <2>2. dirty' \in BOOLEAN /\ disturbed' \in BOOLEAN
    BY <1>3 DEF CommandDies, Types
  <2> QED
    BY <1>3, <2>1, <2>2 DEF CommandDies, Types, streams
<1>4. ASSUME NEW p \in Commands, Posts(p)
      PROVE  Types'
  <2>1. request' \in [Processes -> Requested]
    BY <1>0, <1>4 DEF Posts, Types, Pcs
  <2> QED
    BY <1>4, <2>1 DEF Posts, Types, files, streams, awake
<1>5. ASSUME RemoteToggle
      PROVE  Types'
  BY <1>5 DEF RemoteToggle, Asked, Types, files, streams, awake
<1>6. ASSUME NEW c \in Channels, Beat(c)
      PROVE  Types'
  <2>1. [pc |-> "sent", afk |-> local, asserts |-> TRUE] \in Requested
    BY DEF Requested, Pcs, Types
  <2> QED
    BY <1>0, <1>6, <2>1 DEF Beat, Types, files, streams, awake
<1>7. ASSUME NEW p \in Processes, Handle(p) \/ Fails(p)
      PROVE  Types'
  <2>1. request' \in [Processes -> Requested]
    BY <1>0, <1>7 DEF Handle, Fails, Types, Pcs
  <2>2. server' \in BOOLEAN
    BY <1>7 DEF Handle, Fails, Types, Requested
  <2> QED
    BY <1>7, <2>1, <2>2 DEF Handle, Fails, Types, files, streams, awake
<1>8. ASSUME NEW p \in Commands, CommandDone(p)
      PROVE  Types'
  <2>1. request' \in [Processes -> Requested]
    BY <1>0, <1>8 DEF CommandDone, Types, Pcs
  <2> QED
    BY <1>8, <2>1 DEF CommandDone, Types, streams, awake
<1>9. ASSUME NEW c \in Channels, BeatDone(c)
      PROVE  Types'
  <2>1. request' \in [Processes -> Requested] /\ dirty' \in BOOLEAN
    BY <1>0, <1>9 DEF BeatDone, Types
  <2> QED
    BY <1>9, <2>1 DEF BeatDone, Types, streams, awake
<1>10. ASSUME NEW c \in Channels, Flush(c)
       PROVE  Types'
  BY <1>10 DEF Flush, Types, files, awake
<1>11. ASSUME NEW c \in Channels, Reconnect(c)
       PROVE  Types'
  BY <1>11 DEF Reconnect, Anew, Nothing, AtRest, Types, files, awake
<1>12. ASSUME NEW c \in Channels, Boot(c)
       PROVE  Types'
  <2>1. request' \in [Processes -> Requested]
    BY <1>0, <1>12 DEF Boot, Types, Pcs
  <2>2. keep' \in [Processes -> Kept] /\ disturbed' \in BOOLEAN
    BY <1>0, <1>1, <1>12 DEF Boot, Types
  <2> QED
    BY <1>12, <2>1, <2>2 DEF Boot, Anew, Nothing, AtRest, Types, files
<1>13. ASSUME NEW c \in Channels, Receive(c)
       PROVE  Types'
  <2>1. Head(frames[c]) \in BOOLEAN /\ Tail(frames[c]) \in Seq(BOOLEAN)
    BY <1>13 DEF Receive, Types
  <2>2. frames' \in [Channels -> Seq(BOOLEAN)]
    BY <1>13, <2>1 DEF Receive, Types
  <2>3. keep' \in [Processes -> Kept] /\ disturbed' \in BOOLEAN
    BY <1>0, <1>1, <1>13, <2>1 DEF Receive, Types
  <2>4. local' \in BOOLEAN /\ dirty' \in BOOLEAN
    BY <1>13, <2>1 DEF Receive, Types
  <2> QED
    BY <1>13, <2>2, <2>3, <2>4 DEF Receive, Types
<1>14. ASSUME NEW p \in Processes, Look(p)
       PROVE  Types'
  <2>1. [[keep[p] EXCEPT !.pc = "act"] EXCEPT !.saw = IF pid \in alive THEN pid ELSE 0] \in Kept
    BY DEF Types, Kept
  <2>2. keep' \in [Processes -> Kept]
    BY <1>14, <2>1 DEF Look, Types, Kept
  <2> QED
    BY <1>14, <2>2 DEF Look, Types, files, streams
<1>15. ASSUME NEW p \in Processes, Act(p)
       PROVE  Types'
  <2>1. MaxSpawns \in Nat
    BY AfkAssumption
  <2>2. keep' \in [Processes -> Kept]
    BY <1>0, <1>15 DEF Act, Types
  <2>3. alive' \subseteq 1 .. MaxSpawns /\ pid' \in Nat
    <3> DEFINE new == CHOOSE n \in 1 .. MaxSpawns : n \notin alive
    <3>1. CASE keep[p].afk /\ keep[p].saw = 0
      <4>1. 1 .. MaxSpawns # alive /\ alive' = alive \cup {new} /\ pid' = new
        BY <1>15, <3>1 DEF Act
      <4>2. \E n \in 1 .. MaxSpawns : n \notin alive
        BY <4>1 DEF Types
      <4>3. new \in 1 .. MaxSpawns
        BY <4>2
      <4> HIDE DEF new
      <4> QED
        BY <2>1, <4>1, <4>3 DEF Types
    <3>2. CASE ~ keep[p].afk
      BY <1>15, <3>2 DEF Act, Types
    <3>3. CASE keep[p].afk /\ keep[p].saw # 0
      BY <1>15, <3>3 DEF Act, Types
    <3> QED
      BY <3>1, <3>2, <3>3
  <2> QED
    BY <1>15, <2>2, <2>3 DEF Act, Types, files, streams
<1>16. (\E c \in Channels : Switch(c)) \/ UNCHANGED vars => Types'
  BY DEF Switch, vars, files, streams, awake, Types
<1> QED
  BY <1>0, <1>2, <1>3, <1>4, <1>5, <1>6, <1>7, <1>8, <1>9, <1>10, <1>11, <1>12, <1>13, <1>14, <1>15, <1>16
  DEF Next, Syncs

-----------------------------------------------------------------------------
(* What finds everything at rest stays at rest, until the user toggles. *)

LEMMA RestKept ==
  ASSUME Types, AtRest, [Next]_vars
  PROVE  AtRest' \/ \E p \in Commands : CommandDies(p) \/ \E next \in BOOLEAN : Toggle(p, next)
<1>1. ASSUME NEW p \in Commands, Posts(p) \/ CommandDone(p)
      PROVE  AtRest'
  BY <1>1 DEF Posts, CommandDone, AtRest, Types, Requested, files, Unsent, Processes
<1>2. ASSUME NEW c \in Channels, Beat(c)
      PROVE  AtRest'
  BY <1>2 DEF Beat, Asserts, AtRest
<1>3. ASSUME NEW p \in Processes, Handle(p) \/ Fails(p)
      PROVE  AtRest'
  <2>1. \A q \in Processes : request'[q] = request[q] \/ request'[q].pc = "handled"
          \/ ~ request'[q].asserts
    <3>1. request' = [request EXCEPT ![p] = request'[p]]
      BY <1>3 DEF Handle, Fails, Types
    <3>2. Handle(p) => request'[p].pc = "handled" \/ ~ request'[p].asserts
      BY DEF Handle, Types, Requested, Unsent
    <3>3. request[p].pc = "sent" => ~ request[p].asserts
      BY DEF AtRest
    <3>4. Fails(p) => ~ request'[p].asserts
      BY <3>3 DEF Fails, Types, Requested, Unsent
    <3> QED
      BY <1>3, <3>1, <3>2, <3>4 DEF Types
  <2> QED
    BY <1>3, <2>1 DEF Handle, Fails, files, AtRest
<1>4. ASSUME NEW c \in Channels, BeatDone(c)
      PROVE  AtRest'
  BY <1>4 DEF BeatDone, AtRest, Types, Requested, Unsent
<1>5. ASSUME NEW c \in Channels, Boot(c)
      PROVE  AtRest'
  BY <1>5 DEF Boot, AtRest, Types, Requested, files, Unsent
<1>6. ASSUME NEW c \in Channels, Receive(c)
      PROVE  AtRest'
  BY <1>6 DEF Receive, ShouldAdopt, AtRest
<1>7. UNCHANGED <<dirty, request>> => AtRest'
  BY DEF AtRest
<1> QED
  BY <1>1, <1>2, <1>3, <1>4, <1>5, <1>6, <1>7
  DEF Next, Syncs, RemoteToggle, Asked, Flush, Reconnect, Switch, Look, Act, vars, files

\* A remote toggle that is owed was made at rest, which it still is.
Stands == owed # None => AtRest /\ server = owed

LEMMA StandsStep == Types /\ Stands /\ [Next]_vars => Stands'
<1> SUFFICES ASSUME Types, Stands, [Next]_vars
             PROVE  Stands'
  OBVIOUS
<1>1. ASSUME NEW p \in Commands, CommandDies(p) \/ \E next \in BOOLEAN : Toggle(p, next)
      PROVE  Stands'
  BY <1>1 DEF CommandDies, Toggle, Stands
<1>2. CASE RemoteToggle
  BY <1>2 DEF RemoteToggle, Asked, Stands, AtRest, files
<1>3. ASSUME AtRest, AtRest', server = owed, UNCHANGED <<server, owed>>
      PROVE  Stands'
  BY <1>3 DEF Stands
<1>4. ASSUME NEW p \in Processes, Handle(p), AtRest
      PROVE  UNCHANGED <<server, owed>>
  BY <1>4 DEF Handle, AtRest, Types, Requested
<1>5. UNCHANGED owed /\ owed = None => Stands'
  BY DEF Stands
<1>6. \/ RemoteToggle
      \/ \E p \in Commands : CommandDies(p) \/ \E next \in BOOLEAN : Toggle(p, next)
      \/ UNCHANGED <<server, owed>>
      \/ \E p \in Processes : Handle(p)
  BY DEF Next, Syncs, Posts, CommandDone, Beat, BeatDone, Flush, Receive, Look, Act, Fails,
         Reconnect, Boot, Switch, vars
<1>7. \A p \in Processes : Handle(p) => UNCHANGED owed
  BY DEF Handle
<1> QED
  BY <1>1, <1>2, <1>3, <1>4, <1>5, <1>6, <1>7, RestKept DEF Stands

-----------------------------------------------------------------------------
(* Streams. *)

LEMMA Ends ==
  ASSUME NEW s \in Seq(BOOLEAN)
  PROVE  /\ \A v \in BOOLEAN : Append(s, v) # <<>> /\ Append(s, v)[Len(Append(s, v))] = v
         /\ s # <<>> /\ Tail(s) = <<>> => s[Len(s)] = Head(s)
         /\ s # <<>> /\ Tail(s) # <<>> => Tail(s)[Len(Tail(s))] = s[Len(s)]
<1>1. ASSUME NEW v \in BOOLEAN
      PROVE  Append(s, v) # <<>> /\ Append(s, v)[Len(Append(s, v))] = v
  <2>1. Len(Append(s, v)) = Len(s) + 1 /\ Append(s, v)[Len(s) + 1] = v /\ Len(s) \in Nat
    OBVIOUS
  <2> QED
    BY <2>1
<1>2. ASSUME s # <<>>
      PROVE  Len(s) \in Nat \ {0} /\ Tail(s) \in Seq(BOOLEAN) /\ Len(Tail(s)) = Len(s) - 1
             /\ Head(s) = s[1]
  BY <1>2
<1>3. ASSUME s # <<>>, Tail(s) = <<>>
      PROVE  s[Len(s)] = Head(s)
  <2>1. Len(Tail(s)) = 0
    BY <1>2, <1>3, EmptySeq
  <2>2. Len(s) = 1
    BY <1>2, <1>3, <2>1
  <2> QED
    BY <1>2, <1>3, <2>2
<1>4. ASSUME s # <<>>, Tail(s) # <<>>
      PROVE  Tail(s)[Len(Tail(s))] = s[Len(s)]
  <2>1. Len(Tail(s)) \in 1 .. Len(s) - 1 /\ Len(Tail(s)) + 1 = Len(s)
    BY <1>2, <1>4
  <2>2. \A i \in 1 .. Len(s) - 1 : Tail(s)[i] = s[i + 1]
    BY <1>2, <1>4
  <2> QED
    BY <2>1, <2>2
<1> QED
  BY <1>1, <1>3, <1>4

\* The newest frame on its way is what the stream sent last.
Newest == \A c \in Channels : frames[c] # <<>> => frames[c][Len(frames[c])] = last[c]

LEMMA NewestStep == Types /\ Newest /\ [Next]_vars => Newest'
<1> SUFFICES ASSUME Types, Newest, [Next]_vars, NEW x \in Channels, frames'[x] # <<>>
             PROVE  frames'[x][Len(frames'[x])] = last'[x]
  BY DEF Newest
<1>1. ASSUME NEW c \in Channels, Flush(c)
      PROVE  frames'[x][Len(frames'[x])] = last'[x]
  <2>1. CASE x = c
    <3>1. frames'[c] = Append(frames[c], server) /\ last'[c] = server /\ frames[c] \in Seq(BOOLEAN)
      BY <1>1 DEF Flush, Types
    <3> QED
      BY <2>1, <3>1, Ends DEF Types
  <2>2. CASE x # c
    BY <1>1, <2>2 DEF Flush, Types, Newest
  <2> QED
    BY <2>1, <2>2
<1>2. ASSUME NEW c \in Channels, Anew(c)
      PROVE  frames'[x][Len(frames'[x])] = last'[x]
  BY <1>2 DEF Anew, Types, Newest
<1>3. ASSUME NEW c \in Channels, Receive(c)
      PROVE  frames'[x][Len(frames'[x])] = last'[x]
  <2>1. CASE x = c
    <3>1. frames'[c] = Tail(frames[c]) /\ last' = last /\ frames[c] \in Seq(BOOLEAN) /\ frames[c] # <<>>
      BY <1>3 DEF Receive, Types
    <3> QED
      BY <2>1, <3>1, Ends DEF Newest
  <2>2. CASE x # c
    BY <1>3, <2>2 DEF Receive, Types, Newest
  <2> QED
    BY <2>1, <2>2
<1>4. UNCHANGED streams => frames'[x][Len(frames'[x])] = last'[x]
  BY DEF streams, Newest
<1>5. UNCHANGED streams \/ \E c \in Channels : Flush(c) \/ Anew(c) \/ Receive(c)
  BY DEF Next, Syncs, Posts, CommandDone, Beat, BeatDone, Look, Act, Fails, Handle, RemoteToggle, Asked,
         CommandDies, Toggle, Reconnect, Boot, Switch, vars
<1> QED
  BY <1>1, <1>2, <1>3, <1>4, <1>5

\* Some stream has something to say still, or its last word is the local value.
Heals ==
  synced => AtRest /\ \E c \in Channels : frames[c] # <<>> \/ last[c] \in {None, local}

LEMMA HealsStep == Types /\ Newest /\ Heals /\ [Next]_vars => Heals'
<1> SUFFICES ASSUME Types, Newest, Heals, [Next]_vars, synced'
             PROVE  AtRest' /\ \E c \in Channels : frames'[c] # <<>> \/ last'[c] \in {None, local'}
  BY DEF Heals
<1>1. AtRest
  BY DEF Heals, Next, Syncs, Posts, CommandDone, Beat, BeatDone, Look, Act, Fails, Handle, RemoteToggle, Asked,
         CommandDies, Toggle, Reconnect, Boot, Switch, Anew, Flush, Receive, vars
<1>2. AtRest'
  BY <1>1, RestKept DEF CommandDies, Toggle
<1>3. ASSUME NEW c \in Channels, Anew(c)
      PROVE  last'[c] = None
  BY <1>3 DEF Anew, Nothing, Types
<1>4. ASSUME NEW c \in Channels, Flush(c)
      PROVE  frames'[c] # <<>>
  <2>1. frames'[c] = Append(frames[c], server) /\ frames[c] \in Seq(BOOLEAN)
    BY <1>4 DEF Flush, Types
  <2> QED
    BY <2>1, Ends DEF Types
<1>5. ASSUME NEW c \in Channels, Receive(c), frames'[c] = <<>>
      PROVE  last'[c] = local'
  <2>1. /\ frames[c] # <<>> /\ frames[c] \in Seq(BOOLEAN) /\ frames'[c] = Tail(frames[c])
        /\ last' = last /\ local' = Head(frames[c])
    BY <1>1, <1>5 DEF Receive, Types, ShouldAdopt, AtRest, Reconciles
  <2> QED
    BY <1>5, <2>1, Ends DEF Newest
<1>6. ASSUME UNCHANGED <<streams, local>>, synced
      PROVE  \E c \in Channels : frames'[c] # <<>> \/ last'[c] \in {None, local'}
  BY <1>6 DEF streams, Heals
<1>7. \/ UNCHANGED <<streams, local>> /\ synced
      \/ \E c \in Channels : Flush(c) \/ Anew(c) \/ Receive(c)
  BY DEF Next, Syncs, Posts, CommandDone, Beat, BeatDone, Look, Act, Fails, Handle, RemoteToggle, Asked,
         CommandDies, Toggle, Reconnect, Boot, Switch, vars, files
<1> QED
  BY <1>2, <1>3, <1>4, <1>5, <1>6, <1>7

-----------------------------------------------------------------------------
(* Keep-awake. *)

\* While nobody was overtaken, one reconcile runs at a time, with the value that was written
\* last, and the pid file names the only caffeinate there is.
Awake ==
  Mac /\ ~disturbed =>
    /\ \A p, q \in Processes : ~Idle(p) /\ ~Idle(q) => p = q
    /\ \A p \in Processes : ~Idle(p) => keep[p].afk = local
    /\ \A p \in Processes : keep[p].pc = "act" => keep[p].saw = IF pid \in alive THEN pid ELSE 0
    /\ alive \subseteq {pid}
    /\ (\A p \in Processes : Idle(p)) => (local <=> alive # {})

LEMMA ReconcilesAwake ==
  ASSUME Types, Awake, NEW p \in Processes, NEW afk \in BOOLEAN, Reconciles(p, afk), local' = afk,
         UNCHANGED <<alive, pid>>
  PROVE  Awake'
<1> SUFFICES ASSUME Mac, ~disturbed'
             PROVE  Awake'
  BY DEF Awake
<1>1. ~disturbed /\ \A q \in Processes : Idle(q)
  BY DEF Reconciles
<1>2. keep' = [keep EXCEPT ![p] = [pc |-> "look", afk |-> afk, saw |-> 0]]
  BY DEF Reconciles
<1>3. keep'[p].pc = "look" /\ keep'[p].afk = afk /\ \A q \in Processes : q # p => keep'[q] = keep[q]
  BY <1>2 DEF Types
<1>4. alive \subseteq {pid}
  BY <1>1 DEF Awake
<1>5. \A q \in Processes : Idle(q)' <=> q # p
  BY <1>1, <1>3 DEF Idle
<1>6. \A q \in Processes : keep'[q].pc # "act"
  BY <1>1, <1>3 DEF Idle
<1> QED
  BY <1>3, <1>4, <1>5, <1>6 DEF Awake

LEMMA AwakeStep == Types /\ Awake /\ [Next]_vars => Awake'
<1> SUFFICES ASSUME Types, Awake, [Next]_vars
             PROVE  Awake'
  OBVIOUS
<1>0. Commands \subseteq Processes /\ Channels \subseteq Processes
  BY DEF Processes
<1>1. ASSUME NEW p \in Commands, NEW next \in BOOLEAN, Toggle(p, next)
      PROVE  Awake'
  BY <1>0, <1>1, ReconcilesAwake DEF Toggle
<1>2. ASSUME NEW p \in Commands, CommandDies(p)
      PROVE  Awake'
  <2> SUFFICES ASSUME Mac, ~disturbed'
               PROVE  Awake'
    BY DEF Awake
  <2>1. ~disturbed /\ Idle(p) /\ keep' = [keep EXCEPT ![p] = Asleep] /\ UNCHANGED <<local, alive, pid>>
    BY <1>2 DEF CommandDies
  <2>2. \A q \in Processes : (Idle(q)' <=> Idle(q)) /\ (~Idle(q) => keep'[q] = keep[q])
    BY <1>0, <2>1 DEF Idle, Types, Asleep
  <2>3. \A q \in Processes : keep'[q].pc = "act" => ~Idle(q)
    BY <2>2 DEF Idle
  <2> QED
    BY <2>1, <2>2, <2>3 DEF Awake
<1>3. ASSUME NEW c \in Channels, Boot(c)
      PROVE  Awake'
  BY <1>0, <1>3, ReconcilesAwake DEF Boot, files, Types
<1>4. ASSUME NEW c \in Channels, Receive(c), ShouldAdopt(Head(frames[c]))
      PROVE  Awake'
  <2>1. Head(frames[c]) \in BOOLEAN
    BY <1>4 DEF Receive, Types
  <2> QED
    BY <1>0, <1>4, <2>1, ReconcilesAwake DEF Receive
<1>5. ASSUME NEW p \in Processes, Look(p)
      PROVE  Awake'
  <2>1. /\ keep[p].pc = "look" /\ UNCHANGED <<local, alive, pid, disturbed>>
        /\ keep'[p].pc = "act" /\ keep'[p].afk = keep[p].afk
        /\ keep'[p].saw = IF pid \in alive THEN pid ELSE 0
        /\ \A q \in Processes : q # p => keep'[q] = keep[q]
    BY <1>5 DEF Look, Types, Kept, files
  <2>2. \A q \in Processes : Idle(q)' <=> Idle(q)
    BY <2>1 DEF Idle
  <2> QED
    BY <2>1, <2>2 DEF Awake
<1>6. ASSUME NEW p \in Processes, Act(p)
      PROVE  Awake'
  <2> SUFFICES ASSUME Mac, ~disturbed
               PROVE  Awake'
    BY <1>6 DEF Awake, Act
  <2>1. /\ keep[p].pc = "act" /\ UNCHANGED <<local, disturbed>> /\ keep' = [keep EXCEPT ![p] = Asleep]
    BY <1>6 DEF Act, files
  <2>2. /\ keep[p].afk = local /\ keep[p].saw = (IF pid \in alive THEN pid ELSE 0) /\ alive \subseteq {pid}
        /\ \A q \in Processes : q # p => Idle(q)
    BY <2>1 DEF Awake, Idle
  <2>3. \A q \in Processes : Idle(q)'
    BY <2>1, <2>2 DEF Idle, Asleep, Types
  <2>4. \A q \in Processes : keep'[q].pc # "act"
    BY <2>3 DEF Idle
  <2>5. 0 \notin alive
    BY AfkAssumption DEF Types
  <2>6. alive' \subseteq {pid'} /\ (local <=> alive' # {})
    <3> DEFINE new == CHOOSE n \in 1 .. MaxSpawns : n \notin alive
    <3>1. CASE keep[p].afk /\ keep[p].saw = 0
      <4>1. alive' = alive \cup {new} /\ pid' = new
        BY <1>6, <3>1 DEF Act
      <4>2. alive = {}
        BY <2>2, <2>5, <3>1
      <4> HIDE DEF new
      <4> QED
        BY <2>2, <3>1, <4>1, <4>2
    <3>2. CASE ~ keep[p].afk
      <4>1. alive' = alive \ {keep[p].saw}
        BY <1>6, <3>2 DEF Act
      <4>2. alive' = {}
        BY <2>2, <4>1
      <4> QED
        BY <2>2, <3>2, <4>2
    <3>3. CASE keep[p].afk /\ keep[p].saw # 0
      <4>1. alive' = alive /\ pid' = pid
        BY <1>6, <3>3 DEF Act
      <4> QED
        BY <2>2, <3>3, <4>1
    <3> QED
      BY <3>1, <3>2, <3>3
  <2> QED
    BY <2>1, <2>3, <2>4, <2>6 DEF Awake
<1>7. UNCHANGED <<local, awake>> => Awake'
  BY DEF awake, Awake, Idle
<1>8. \/ UNCHANGED <<local, awake>>
      \/ \E p \in Commands : CommandDies(p) \/ \E next \in BOOLEAN : Toggle(p, next)
      \/ \E c \in Channels : Boot(c) \/ (Receive(c) /\ ShouldAdopt(Head(frames[c])))
      \/ \E p \in Processes : Look(p) \/ Act(p)
  BY DEF Next, Syncs, Posts, CommandDone, Beat, BeatDone, Flush, Receive, Fails, Handle, RemoteToggle, Asked,
         Reconnect, Switch, vars, awake, files
<1> QED
  BY <1>1, <1>2, <1>3, <1>4, <1>5, <1>6, <1>7, <1>8

-----------------------------------------------------------------------------
(* Together. *)

AfkInv == Types /\ Stands /\ Newest /\ Heals /\ Awake

LEMMA AfkInit == Init => AfkInv
<1> SUFFICES ASSUME Init
             PROVE  AfkInv
  OBVIOUS
<1>1. AtRest
  BY DEF Init, AtRest, Unsent
<1>2. Stands /\ Newest
  BY DEF Init, Stands, Newest
<1>3. Heals
  BY <1>1, AfkAssumption DEF Init, Heals
<1>4. Awake
  BY DEF Init, Awake, Idle, Asleep
<1> QED
  BY <1>2, <1>3, <1>4, TypesInit DEF AfkInv

LEMMA AfkStep == AfkInv /\ [Next]_vars => AfkInv'
  BY TypesStep, StandsStep, NewestStep, HealsStep, AwakeStep DEF AfkInv

LEMMA AfkInvariant == Spec => []AfkInv
  BY AfkInit, AfkStep, PTL DEF Spec

\* No late request, stale frame, beat or restart undoes a toggle of the dashboard that found
\* the device at rest (heartbeatLoop asserts a dirty value only, channel.ts:812).
THEOREM RemoteToggleStands == Spec => []RemoteStands
<1>1. AfkInv => RemoteStands
  BY DEF AfkInv, Stands, RemoteStands
<1> QED
  BY <1>1, AfkInvariant, PTL

\* A new stream sends the value again, and from then on the file follows the column.
THEOREM StreamHeals == Spec => []HealsOnReconnect
<1>1. ASSUME AfkInv, synced, Settled
      PROVE  local = server
  <2>1. PICK c \in Channels : frames[c] # <<>> \/ last[c] \in {None, local}
    BY <1>1 DEF AfkInv, Heals
  <2>2. last[c] = server /\ frames[c] = <<>> /\ server \in BOOLEAN
    BY <1>1 DEF AfkInv, Settled, Types
  <2> QED
    BY <2>1, <2>2, AfkAssumption
<1>2. AfkInv => HealsOnReconnect
  BY <1>1 DEF HealsOnReconnect
<1> QED
  BY <1>2, AfkInvariant, PTL

\* caffeinate runs exactly while AFK is on, unless two reconciles ran into each other.
THEOREM KeepsAwake == Spec => []AwakeIffAway
<1>1. AfkInv => AwakeIffAway
  BY DEF AfkInv, Awake, AwakeIffAway
<1> QED
  BY <1>1, AfkInvariant, PTL

-----------------------------------------------------------------------------

\* The script that runs has agents left, and while install.sh runs none of them counts as reverted.
Script == [does : {"nothing", "install", "uninstall"}, left : Seq(Agents),
           pc : {"none", "stage", "configure", "pair", "answer", "alias", "revert", "remove"},
           bun : Buns \cup {0}, token : Nat, paired : BOOLEAN]

Running ==
  /\ script \in Script
  /\ script.does # "nothing" => script.left # <<>>
  /\ script.does = "install" => ToSet(script.left) \cap reverted = {}

\* What install.sh put over the person's settings can be taken off again: the line that was
\* saved is the person's, and without a saved one nothing of ours is there.
Undoable ==
  /\ backup = {} => settings.ours = 0
  /\ \A line \in backup : line.ours = 0

DiskInv == Running /\ Undoable /\ Reverts

Exchanged == [pc : {"none", "sent", "locked", "refused", "paired", "void"}, token : Nat, found : Nat]

ServerTyped ==
  /\ overlap \in BOOLEAN /\ minting \in [Pages -> BOOLEAN]
  /\ tokens \in Seq({"live", "locked", "spent"})
  /\ exchange \in [Runs -> Exchanged]
  /\ devices \in Seq(Runs)
  /\ installs \in 0 .. MaxInstalls
  /\ script.does = "install" => installs # 0 /\ script.token \in 0 .. Len(tokens)

\* Unless two mints ran at once, one token can still be used, and none while a mint is half done.
OneToken ==
  ~overlap =>
    /\ \A j, k \in DOMAIN tokens : tokens[j] # "spent" /\ tokens[k] # "spent" => j = k
    /\ \A p \in Pages : minting[p] => \A k \in DOMAIN tokens : tokens[k] = "spent"
    /\ \A p, q \in Pages : minting[p] /\ minting[q] => p = q

\* Every running exchange has a token, one that holds the lock has it locked for itself.
Holds ==
  /\ \A r \in Runs : exchange[r].pc \in {"sent", "locked"} => exchange[r].token \in DOMAIN tokens
  /\ \A r \in Runs : exchange[r].pc = "locked" =>
       tokens[exchange[r].token] = "locked" /\ exchange[r].found \in 0 .. Len(devices)
  /\ \A r, q \in Runs : exchange[r].pc = "locked" /\ exchange[q].pc = "locked"
       /\ exchange[r].token = exchange[q].token => r = q

\* What an exchange that found no row relies on.
Alone ==
  ~overlap =>
    /\ Len(devices) <= 1
    /\ \A r \in Runs : exchange[r].pc = "locked" /\ exchange[r].found = 0 => devices = <<>>

\* A run sends its request once.
SentOnce ==
  /\ \A r \in Runs : r > installs => exchange[r].pc = "none"
  /\ script.does = "install" /\ script.pc # "answer" /\ ~script.paired => exchange[installs].pc = "none"

\* An exchange that has paired leaves no earlier one with a token of use.
Overtakes ==
  ~overlap => \A r, q \in Runs : exchange[q].pc = "paired" /\ r < q =>
    /\ exchange[r].pc # "locked"
    /\ exchange[r].pc = "sent" => tokens[exchange[r].token] = "spent"

\* The last exchange that paired is the one the device row answers to.
LastAnswers ==
  ~overlap =>
    \A r \in Runs : exchange[r].pc = "paired" => Known(r) \/ \E q \in Runs : q > r /\ exchange[q].pc = "paired"

\* The device's stores hold what exchanges gave.
Stored == \A token \in {file, keychain} : token # 0 => token \in Runs /\ exchange[token].pc \in {"paired", "void"}

ServerInv ==
  ServerTyped /\ OneToken /\ Holds /\ Alone /\ SentOnce /\ Overtakes /\ LastAnswers /\ Stored

-----------------------------------------------------------------------------
(* The machine's disk. *)

LEMMA RestOfScript ==
  ASSUME NEW left \in Seq(Agents), left # <<>>
  PROVE  /\ Head(left) \in Agents /\ Head(left) \in ToSet(left)
         /\ Tail(left) \in Seq(Agents) /\ ToSet(Tail(left)) \subseteq ToSet(left)
         /\ Len(left) # 1 => Tail(left) # <<>>
<1>1. left[1] = Head(left) /\ Head(left) \in Agents /\ 1 \in DOMAIN left
  BY HeadTailProperties, LenProperties, EmptySeq
<1>2. Tail(left) \in Seq(Agents) /\ Len(Tail(left)) = Len(left) - 1 /\ Len(left) \in Nat \ {0}
      /\ \A i \in 1 .. Len(Tail(left)) : Tail(left)[i] = left[i + 1]
  BY HeadTailProperties, LenProperties, EmptySeq
<1>3. DOMAIN Tail(left) = 1 .. Len(left) - 1 /\ DOMAIN left = 1 .. Len(left)
  BY <1>2, LenProperties
<1>4. ASSUME NEW i \in DOMAIN Tail(left)
      PROVE  Tail(left)[i] \in ToSet(left)
  <2>1. i + 1 \in DOMAIN left /\ Tail(left)[i] = left[i + 1]
    BY <1>2, <1>3
  <2> QED
    BY <2>1 DEF ToSet
<1>5. Len(left) # 1 => Tail(left) # <<>>
  <2>1. Len(<<>>) = 0
    BY EmptySeq
  <2>2. Len(left) # 1 => Len(Tail(left)) # 0
    BY <1>2
  <2>3. Tail(left) = <<>> => Len(Tail(left)) = 0
    BY <2>1, Zenon
  <2> QED
    BY <2>2, <2>3
<1> QED
  BY <1>1, <1>2, <1>4, <1>5 DEF ToSet

\* What a script is given to do.
LEMMA TargetsAreAgents ==
  /\ \A target \in Targets : target \in Seq(Agents) /\ target # <<>>
  /\ <<"claude">> \in Seq(Agents) /\ <<>> \in Seq(Agents)
<1>1. <<"claude">> \in Seq(Agents)
  BY DEF Agents
<1>2. <<"codex">> \in Seq(Agents)
  BY DEF Agents
<1>3. <<"claude", "codex">> \in Seq(Agents)
  BY DEF Agents
<1>4. <<"claude">> # <<>> /\ <<"codex">> # <<>> /\ <<"claude", "codex">> # <<>>
  OBVIOUS
<1> QED
  BY <1>1, <1>2, <1>3, <1>4, InstallAssumption, EmptySeq

\* A script that goes on is a script.
LEMMA ScriptGoesOn ==
  ASSUME Running, NEW pc \in {"none", "stage", "configure", "pair", "answer", "alias", "revert", "remove"},
         NEW left \in Seq(Agents), NEW paired \in BOOLEAN
  PROVE  /\ [script EXCEPT !.pc = pc] \in Script /\ [script EXCEPT !.left = left, !.pc = pc] \in Script
         /\ [script EXCEPT !.pc = pc, !.paired = paired] \in Script /\ [script EXCEPT !.left = left] \in Script
         /\ [script EXCEPT !.pc = pc].left = script.left /\ [script EXCEPT !.pc = pc].does = script.does
         /\ [script EXCEPT !.pc = pc, !.paired = paired].left = script.left
         /\ [script EXCEPT !.pc = pc, !.paired = paired].does = script.does
         /\ [script EXCEPT !.left = left, !.pc = pc].left = left
         /\ [script EXCEPT !.left = left, !.pc = pc].does = script.does
         /\ [script EXCEPT !.left = left].left = left /\ [script EXCEPT !.left = left].does = script.does
BY DEF Running, Script

LEMMA NoScriptRuns ==
  NoScript \in Script /\ NoScript.does = "nothing" /\ NoScript.token = 0
<1>1. <<>> \in Seq(Agents)
  BY TargetsAreAgents
<1> QED
  BY <1>1 DEF NoScript, Script

LEMMA DiskInit ==
  EnrollInit => DiskInv
<1> SUFFICES ASSUME EnrollInit
             PROVE  DiskInv
  OBVIOUS
<1>1. Running
  BY NoScriptRuns DEF EnrollInit, InstInit, Running
<1> QED
  BY <1>1 DEF EnrollInit, InstInit, DiskInv, Undoable, Reverts

\* No script runs, or the one that runs goes on with what it has left.
LEMMA StopsRunning ==
  Stops => Running'
BY NoScriptRuns DEF Stops, Running

LEMMA ScriptKept ==
  ASSUME Running, reverted' = reverted,
         \/ script' = script
         \/ \E pc \in {"configure", "pair", "answer", "alias"} : script' = [script EXCEPT !.pc = pc]
         \/ script' = [script EXCEPT !.pc = "alias", !.paired = TRUE]
  PROVE  Running'
<1>1. script.left \in Seq(Agents)
  BY DEF Running, Script
<1>2. ASSUME NEW pc \in {"configure", "pair", "answer", "alias"}, script' = [script EXCEPT !.pc = pc]
      PROVE  script' \in Script /\ script'.left = script.left /\ script'.does = script.does
  BY <1>1, <1>2, ScriptGoesOn
<1>3. ASSUME script' = [script EXCEPT !.pc = "alias", !.paired = TRUE]
      PROVE  script' \in Script /\ script'.left = script.left /\ script'.does = script.does
  BY <1>1, <1>3, ScriptGoesOn
<1>4. script' \in Script /\ script'.left = script.left /\ script'.does = script.does
  BY <1>2, <1>3 DEF Running
<1> QED
  BY <1>4 DEF Running

LEMMA ScriptMovesOn ==
  ASSUME Running, reverted' = reverted, script.does = "install",
         NEW left \in Seq(Agents), left # <<>>, ToSet(left) \subseteq ToSet(script.left),
         script' = [script EXCEPT !.left = left, !.pc = "stage"]
  PROVE  Running'
<1>1. script' \in Script /\ script'.left = left /\ script'.does = script.does
  BY ScriptGoesOn
<1> QED
  BY <1>1 DEF Running

LEMMA DiskStep ==
  DiskInv /\ InstNext => DiskInv'
<1> SUFFICES ASSUME DiskInv, InstNext
             PROVE  DiskInv'
  OBVIOUS
<1>0. Running /\ Undoable /\ Reverts
  BY DEF DiskInv
<1>s. ASSUME script.does # "nothing"
      PROVE  /\ Agent \in Agents /\ Agent \in ToSet(script.left)
             /\ Tail(script.left) \in Seq(Agents) /\ ToSet(Tail(script.left)) \subseteq ToSet(script.left)
             /\ Len(script.left) # 1 => Tail(script.left) # <<>>
  <2>1. script.left \in Seq(Agents) /\ script.left # <<>>
    BY <1>0, <1>s DEF Running, Script
  <2> QED
    BY <2>1, RestOfScript DEF Agent
<1>1. ASSUME NEW target \in Targets, StartUninstall(target)
      PROVE  DiskInv'
  <2>1. target \in Seq(Agents) /\ target # <<>>
    BY TargetsAreAgents
  <2>2. script'.does = "uninstall" /\ script'.left = target /\ script' \in Script
    BY <1>1, <2>1 DEF StartUninstall, NoScript, Script
  <2> QED
    BY <1>0, <1>1, <2>1, <2>2 DEF StartUninstall, diskVars, DiskInv, Running, Undoable, Reverts
<1>2. ASSUME NEW target \in Targets, NEW bun \in Buns, NEW token \in 0 .. Len(tokens), NEW codexCli \in BOOLEAN,
             StartInstall(target, bun, token, codexCli)
      PROVE  DiskInv'
  <2> DEFINE left == IF codexCli THEN target ELSE IF Contains(target, "claude") THEN <<"claude">> ELSE <<>>
  <2>1. left \in Seq(Agents)
    BY TargetsAreAgents
  <2>2. left # <<>> /\ reverted' = reverted \ ToSet(left)
        /\ script' = [NoScript EXCEPT !.does = "install", !.left = left, !.pc = "stage", !.bun = bun, !.token = token]
        /\ UNCHANGED <<staged, enabled, aliased, settings, backup, flag>>
    BY <1>2 DEF StartInstall
  <2> HIDE DEF left
  <2>3. script'.does = "install" /\ script'.left = left
    BY <2>2 DEF NoScript
  <2>4. script' \in Script
    <3>1. token \in Nat
      OBVIOUS
    <3> QED
      BY <2>1, <2>2, <3>1 DEF NoScript, Script
  <2> QED
    BY <1>0, <2>2, <2>3, <2>4 DEF DiskInv, Running, Undoable, Reverts
<1>3. ASSUME NEW ok \in BOOLEAN, Stage(ok)
      PROVE  DiskInv'
  <2>1. Agent \notin reverted
    BY <1>0, <1>3, <1>s DEF Stage, Step, Running
  <2>2. Running'
    <3>1. CASE ok
      <4>1. script' = [script EXCEPT !.pc = "configure"] /\ reverted' = reverted
        BY <1>3, <3>1 DEF Stage
      <4> QED
        BY <1>0, <4>1, ScriptKept
    <3>2. CASE ~ok
      BY <1>3, <3>2, StopsRunning DEF Stage
    <3> QED
      BY <3>1, <3>2
  <2> QED
    BY <1>0, <1>3, <2>1, <2>2 DEF Stage, DiskInv, Undoable, Reverts
<1>4. ASSUME NEW works \in BOOLEAN, Configure(works)
      PROVE  DiskInv'
  <2>1. Agent \notin reverted /\ Agent \in Agents
    BY <1>0, <1>4, <1>s DEF Configure, Step, Running
  <2>2. Running'
    <3>1. script' = [script EXCEPT !.pc = "pair"] /\ reverted' = reverted
      BY <1>4 DEF Configure
    <3> QED
      BY <1>0, <3>1, ScriptKept
  <2>3. Undoable'
    <3>1. CASE Agent = "claude"
      <4>1. backup' = Saved(backup, settings)
        BY <1>4, <3>1 DEF Configure
      <4>2. CASE backup = {}
        BY <1>0, <4>1, <4>2 DEF Saved, Undoable
      <4>3. CASE backup # {}
        BY <1>0, <4>1, <4>3 DEF Saved, Undoable
      <4> QED
        BY <4>2, <4>3
    <3>2. CASE Agent # "claude"
      BY <1>0, <1>4, <3>2 DEF Configure, Undoable
    <3> QED
      BY <3>1, <3>2
  <2>4. Reverts'
    BY <1>0, <1>4, <2>1 DEF Configure, Reverts, Agents
  <2> QED
    BY <2>2, <2>3, <2>4 DEF DiskInv
<1>5. CASE Alias
  <2>1. Agent \notin reverted
    BY <1>0, <1>5, <1>s DEF Alias, Step, Running
  <2>2. Running'
    <3>1. CASE Len(script.left) = 1
      BY <1>5, <3>1, StopsRunning DEF Alias
    <3>2. CASE Len(script.left) # 1
      <4>1. script' = [script EXCEPT !.left = Tail(@), !.pc = "stage"] /\ reverted' = reverted
            /\ script.does = "install"
        BY <1>5, <3>2 DEF Alias, Step
      <4> QED
        BY <1>0, <1>s, <3>2, <4>1, ScriptMovesOn
    <3> QED
      BY <3>1, <3>2
  <2> QED
    BY <1>0, <1>5, <2>1, <2>2 DEF Alias, DiskInv, Undoable, Reverts
<1>6. ASSUME NEW bun \in BOOLEAN, NEW cli \in BOOLEAN, Revert(bun, cli)
      PROVE  DiskInv'
  <2>1. script.does = "uninstall" /\ Agent \in Agents
    BY <1>6, <1>s DEF Revert, Step
  <2>2. Running'
    <3>1. CASE Len(script.left) = 1
      <4>1. script' = [script EXCEPT !.pc = "remove"]
        BY <1>6, <3>1 DEF Revert
      <4>2. script.left \in Seq(Agents)
        BY <1>0 DEF Running, Script
      <4>3. script' \in Script /\ script'.left = script.left /\ script'.does = script.does
        BY <1>0, <4>1, <4>2, ScriptGoesOn
      <4> QED
        BY <1>0, <2>1, <4>3 DEF Running
    <3>2. CASE Len(script.left) # 1
      <4>1. script' = [script EXCEPT !.left = Tail(@)]
        BY <1>6, <3>2 DEF Revert
      <4>2. script'.left = Tail(script.left) /\ script'.does = script.does /\ script' \in Script
        BY <1>0, <1>s, <2>1, <4>1 DEF Running, Script
      <4> QED
        BY <1>s, <2>1, <3>2, <4>2 DEF Running
    <3> QED
      BY <3>1, <3>2
  <2>3. Agent = "claude" => settings'.ours = 0 /\ backup' = {}
    <3>1. backup # {} => (CHOOSE line \in backup : TRUE) \in backup
      OBVIOUS
    <3> QED
      BY <1>0, <1>6, <3>1 DEF Revert, Undoable
  <2>4. Agent # "claude" => settings' = settings /\ backup' = backup
    BY <1>6 DEF Revert
  <2>5. Undoable'
    BY <1>0, <2>3, <2>4 DEF Undoable
  <2>6. Agent = "claude" => flag' = flag
    BY <1>6 DEF Revert
  <2>7. Agent # "claude" /\ flag' = "ours" => ~bun /\ flag = "ours"
    BY <1>6 DEF Revert
  <2>8. ASSUME NEW a \in reverted'
        PROVE  /\ a \notin staged' \cup enabled' \cup aliased'
               /\ a = "claude" => settings'.ours = 0
               /\ a = "codex" => flag' # "ours"
    <3>1. CASE a \in reverted
      <4>1. a \notin staged' \cup enabled' \cup aliased'
        BY <1>0, <1>6, <3>1 DEF Revert, Reverts
      <4> QED
        BY <1>0, <2>1, <2>3, <2>4, <2>6, <2>7, <3>1, <4>1 DEF Reverts, Agents
    <3>2. CASE a \notin reverted
      <4>1. bun /\ cli /\ a = Agent
        BY <1>6, <2>8, <3>2 DEF Revert
      <4> QED
        BY <1>6, <2>3, <2>7, <4>1 DEF Revert
    <3> QED
      BY <3>1, <3>2
  <2> QED
    BY <2>2, <2>5, <2>8 DEF DiskInv, Reverts
<1>7. CASE /\ UNCHANGED diskVars
           /\ \/ Stops \/ script' = script
              \/ \E pc \in {"configure", "pair", "answer", "alias"} : script' = [script EXCEPT !.pc = pc]
              \/ script' = [script EXCEPT !.pc = "alias", !.paired = TRUE]
  <2>1. Running'
    <3>1. reverted' = reverted
      BY <1>7 DEF diskVars
    <3> QED
      BY <1>0, <1>7, <3>1, StopsRunning, ScriptKept
  <2> QED
    BY <1>0, <1>7, <2>1 DEF DiskInv, Undoable, Reverts, diskVars
<1> QED
  BY <1>1, <1>2, <1>3, <1>4, <1>5, <1>6, <1>7 DEF InstNext, PairFails, RemoveState, Interrupt, SyncHalts,
    Lock, Commit, Abort, TokenExpires, Burn, Insert, SkipPair, SendPair, Paired

-----------------------------------------------------------------------------
(* The server: tokens, exchanges, device rows. *)

TokenStates == {"live", "locked", "spent"}

LEMMA ServerInit ==
  EnrollInit => ServerInv
<1> SUFFICES ASSUME EnrollInit
             PROVE  ServerInv
  OBVIOUS
<1>1. /\ minting = [p \in Pages |-> FALSE] /\ tokens = <<>> /\ overlap = FALSE /\ devices = <<>>
      /\ exchange = [r \in Runs |-> [pc |-> "none", token |-> 0, found |-> 0]]
      /\ file = 0 /\ keychain = 0 /\ script = NoScript /\ installs = 0
  BY DEF EnrollInit, InstInit
<1>2. <<>> \in Seq(TokenStates) /\ <<>> \in Seq(Runs) /\ Len(<<>>) = 0
  BY EmptySeq
<1>3. DOMAIN tokens = {}
  BY <1>1
<1>4. [pc |-> "none", token |-> 0, found |-> 0] \in Exchanged
  BY DEF Exchanged
<1>5. \A r \in Runs : exchange[r].pc = "none"
  BY <1>1
<1>6. ServerTyped
  <2>1. overlap \in BOOLEAN /\ minting \in [Pages -> BOOLEAN] /\ script.does # "install"
    BY <1>1, NoScriptRuns
  <2>2. tokens \in Seq(TokenStates) /\ devices \in Seq(Runs)
    BY <1>1, <1>2
  <2>3. exchange \in [Runs -> Exchanged] /\ installs \in 0 .. MaxInstalls
    BY <1>1, <1>4, InstallAssumption
  <2> QED
    BY <2>1, <2>2, <2>3 DEF ServerTyped, TokenStates
<1>7. OneToken /\ Holds /\ Overtakes /\ LastAnswers
  BY <1>1, <1>3, <1>5 DEF OneToken, Holds, Overtakes, LastAnswers
<1>8. Alone
  BY <1>1, <1>2, <1>5 DEF Alone
<1>9. SentOnce /\ Stored
  BY <1>1, <1>5, NoScriptRuns DEF SentOnce, Stored
<1> QED
  BY <1>6, <1>7, <1>8, <1>9 DEF ServerInv

\* What a step of a script does to the script, as far as the exchanges depend on it.
Proceeds ==
  script'.does = "install" =>
    /\ script.does = "install" /\ script'.token = script.token
    /\ script'.pc # "answer" /\ ~script'.paired => script.pc # "answer" /\ ~script.paired

\* A step that leaves the server alone.
LEMMA ServerKept ==
  ASSUME ServerInv, UNCHANGED serverVars, installs' = installs, Proceeds,
         \A token \in {file', keychain'} : token \in {0, file, keychain} \/
           (token \in Runs /\ exchange[token].pc \in {"paired", "void"})
  PROVE  ServerInv'
<1> USE DEF ServerInv
<1>1. UNCHANGED <<minting, tokens, overlap, exchange, devices>>
  BY DEF serverVars
<1>2. ServerTyped'
  BY <1>1 DEF ServerTyped, Proceeds
<1>3. OneToken' /\ Holds' /\ Alone' /\ Overtakes'
  BY <1>1 DEF OneToken, Holds, Alone, Overtakes
<1>4. LastAnswers'
  BY <1>1 DEF LastAnswers, Known
<1>5. SentOnce'
  BY <1>1 DEF SentOnce, Proceeds
<1>6. Stored'
  BY <1>1 DEF Stored
<1> QED
  BY <1>2, <1>3, <1>4, <1>5, <1>6

LEMMA ScriptSteps ==
  ASSUME Running, ServerInv,
         \/ \E target \in Targets : StartUninstall(target)
         \/ \E ok \in BOOLEAN : Stage(ok) \/ Configure(ok) \/ Paired(ok)
         \/ SkipPair \/ PairFails \/ Alias \/ RemoveState \/ Interrupt \/ SyncHalts
         \/ \E bun, cli \in BOOLEAN : Revert(bun, cli)
  PROVE  ServerInv'
<1>1. script \in Script /\ script.left \in Seq(Agents) /\ script.does # "nothing" => script.left # <<>>
  BY DEF Running, Script
<1>2. ASSUME script' = script \/ Stops \/ script'.does = "uninstall"
      PROVE  Proceeds
  BY <1>2, NoScriptRuns DEF Proceeds, Stops
<1>3. ASSUME NEW pc \in {"configure", "pair", "alias"}, script' = [script EXCEPT !.pc = pc],
             script.pc # "answer"
      PROVE  Proceeds
  BY <1>3 DEF Proceeds, Running, Script
<1>4. ASSUME UNCHANGED credVars
      PROVE  \A token \in {file', keychain'} : token \in {0, file, keychain}
  BY <1>4 DEF credVars
<1>5. ASSUME UNCHANGED serverVars, installs' = installs, UNCHANGED credVars, Proceeds
      PROVE  ServerInv'
  BY <1>4, <1>5, ServerKept
<1>6. CASE \E target \in Targets : StartUninstall(target)
  <2>1. script'.does = "uninstall"
    BY <1>6 DEF StartUninstall, NoScript
  <2> QED
    BY <1>2, <1>5, <1>6, <2>1 DEF StartUninstall
<1>7. ASSUME NEW ok \in BOOLEAN, Stage(ok)
      PROVE  ServerInv'
  BY <1>2, <1>3, <1>5, <1>7 DEF Stage, Step
<1>8. ASSUME NEW ok \in BOOLEAN, Configure(ok)
      PROVE  ServerInv'
  BY <1>3, <1>5, <1>8 DEF Configure, Step, runVars
<1>9. ASSUME NEW ok \in BOOLEAN, Paired(ok)
      PROVE  ServerInv'
  <2>1. Proceeds
    <3>1. script'.does = script.does /\ script'.token = script.token /\ script'.paired = TRUE
      BY <1>9 DEF Paired, Running, Script
    <3> QED
      BY <3>1 DEF Proceeds
  <2>2. installs \in Runs /\ exchange[installs].pc \in {"paired", "void"}
    BY <1>9 DEF Paired, Step, ServerInv, ServerTyped, Runs
  <2>3. \A token \in {file', keychain'} : token \in {installs, keychain}
    BY <1>9 DEF Paired, Saves
  <2> QED
    BY <1>9, <2>1, <2>2, <2>3, ServerKept DEF Paired
<1>10. CASE SkipPair
  BY <1>3, <1>5, <1>10 DEF SkipPair, Step, runVars
<1>11. CASE PairFails \/ Interrupt
  BY <1>2, <1>5, <1>11 DEF PairFails, Interrupt
<1>12. CASE Alias
  <2>1. Proceeds
    <3>1. CASE Len(script.left) = 1
      BY <1>2, <1>12, <3>1 DEF Alias
    <3>2. CASE Len(script.left) # 1
      <4>1. script' = [script EXCEPT !.left = Tail(@), !.pc = "stage"] /\ script.pc = "alias"
        BY <1>12, <3>2 DEF Alias, Step
      <4> QED
        BY <4>1 DEF Proceeds, Running, Script
    <3> QED
      BY <3>1, <3>2
  <2> QED
    BY <1>5, <1>12, <2>1 DEF Alias, runVars
<1>13. CASE RemoveState
  <2>1. Proceeds
    BY <1>2, <1>13 DEF RemoveState
  <2>2. file' = 0 /\ keychain' = keychain
    BY <1>13 DEF RemoveState
  <2> QED
    BY <1>13, <2>1, <2>2, ServerKept DEF RemoveState, runVars
<1>14. CASE SyncHalts
  <2>1. Proceeds
    BY <1>2, <1>14 DEF SyncHalts
  <2>2. file' = 0 /\ keychain' = 0
    BY <1>14 DEF SyncHalts, Clears
  <2> QED
    BY <1>14, <2>1, <2>2, ServerKept DEF SyncHalts, runVars
<1>15. ASSUME NEW bun \in BOOLEAN, NEW cli \in BOOLEAN, Revert(bun, cli)
       PROVE  ServerInv'
  <2>1. script'.does = "uninstall"
    <3>1. script.does = "uninstall"
      BY <1>15 DEF Revert, Step
    <3>2. CASE Len(script.left) = 1
      BY <1>15, <3>1, <3>2 DEF Revert, Running, Script
    <3>3. CASE Len(script.left) # 1
      BY <1>15, <3>1, <3>3 DEF Revert, Running, Script
    <3> QED
      BY <3>2, <3>3
  <2> QED
    BY <1>2, <1>5, <1>15, <2>1 DEF Revert, runVars
<1> QED
  BY <1>6, <1>7, <1>8, <1>9, <1>10, <1>11, <1>12, <1>13, <1>14, <1>15

LEMMA StartKeeps ==
  ASSUME ServerInv, NEW target \in Targets, NEW bun \in Buns, NEW token \in 0 .. Len(tokens),
         NEW codexCli \in BOOLEAN, StartInstall(target, bun, token, codexCli)
  PROVE  ServerInv'
<1> USE DEF ServerInv
<1>0. /\ UNCHANGED <<minting, tokens, overlap, exchange, devices, file, keychain>>
      /\ installs' = installs + 1 /\ installs < MaxInstalls /\ installs \in Nat /\ MaxInstalls \in Nat
  BY InstallAssumption DEF StartInstall, serverVars, credVars, ServerTyped
<1>1. script'.token = token
  BY DEF StartInstall, NoScript
<1>2. ServerTyped'
  BY <1>0, <1>1 DEF ServerTyped
<1>3. OneToken' /\ Holds' /\ Alone' /\ Overtakes' /\ Stored'
  BY <1>0 DEF OneToken, Holds, Alone, Overtakes, Stored
<1>4. LastAnswers'
  BY <1>0 DEF LastAnswers, Known
<1>5. SentOnce'
  <2>1. installs' \in Runs /\ installs' > installs
    BY <1>0 DEF Runs
  <2>2. exchange[installs'].pc = "none"
    BY <2>1 DEF SentOnce
  <2>3. \A r \in Runs : r > installs' => r > installs
    BY <1>0 DEF Runs
  <2> QED
    BY <1>0, <2>2, <2>3 DEF SentOnce
<1> QED
  BY <1>2, <1>3, <1>4, <1>5

LEMMA SendKeeps ==
  ASSUME Running, ServerInv, SendPair
  PROVE  ServerInv'
<1> USE DEF ServerInv
<1> DEFINE sent == [pc |-> "sent", token |-> script.token, found |-> 0]
<1>0. /\ UNCHANGED <<minting, tokens, overlap, devices, file, keychain, installs>>
      /\ script.does = "install" /\ script.pc = "pair" /\ ~script.paired /\ script.token # 0
      /\ exchange' = [exchange EXCEPT ![installs] = sent] /\ script' = [script EXCEPT !.pc = "answer"]
  BY DEF SendPair, Step, credVars, runVars
<1>1. installs \in Runs /\ exchange \in [Runs -> Exchanged]
  BY <1>0 DEF ServerTyped, Runs
<1>2. script.token \in Nat /\ script.token \in DOMAIN tokens
  <2>1. DOMAIN tokens = 1 .. Len(tokens) /\ Len(tokens) \in Nat
    BY LenProperties DEF ServerTyped
  <2>2. script.token \in 0 .. Len(tokens)
    BY <1>0 DEF ServerTyped
  <2> QED
    BY <1>0, <2>1, <2>2
<1>3. script'.pc = "answer" /\ script'.token = script.token
  BY <1>0 DEF Running, Script
<1>4. exchange[installs].pc = "none"
  BY <1>0 DEF SentOnce
<1>5. exchange'[installs] = sent /\ \A r \in Runs : r # installs => exchange'[r] = exchange[r]
  BY <1>0, <1>1
<1>6. ServerTyped'
  <2>1. sent \in Exchanged
    BY <1>2 DEF Exchanged
  <2>2. exchange' \in [Runs -> Exchanged]
    BY <1>0, <1>1, <2>1
  <2> QED
    BY <1>0, <1>3, <2>2 DEF ServerTyped
<1>7. OneToken' /\ Holds'
  <2>1. OneToken'
    BY <1>0 DEF OneToken
  <2>2. \A r \in Runs : exchange'[r].pc = "locked" => r # installs /\ exchange'[r] = exchange[r]
    BY <1>5
  <2>3. \A r \in Runs : exchange'[r].pc \in {"sent", "locked"} => exchange'[r].token \in DOMAIN tokens
    BY <1>2, <1>5 DEF Holds
  <2> QED
    BY <1>0, <2>1, <2>2, <2>3 DEF Holds
<1>8. Alone'
  BY <1>0, <1>5 DEF Alone
<1>9. Stored' /\ LastAnswers'
  <2>1. \A r \in Runs : /\ exchange'[r].pc = "paired" <=> exchange[r].pc = "paired"
                        /\ exchange[r].pc \in {"paired", "void"} => exchange'[r].pc \in {"paired", "void"}
    BY <1>4, <1>5
  <2>2. Stored'
    BY <1>0, <2>1 DEF Stored
  <2>3. LastAnswers'
    BY <1>0, <2>1 DEF LastAnswers, Known
  <2> QED
    BY <2>2, <2>3
<1>10. SentOnce'
  BY <1>0, <1>1, <1>3, <1>5 DEF SentOnce, Runs
<1>11. Overtakes'
  <2> SUFFICES ASSUME ~overlap, NEW r \in Runs, NEW q \in Runs, exchange'[q].pc = "paired", r < q
               PROVE  /\ exchange'[r].pc # "locked"
                      /\ exchange'[r].pc = "sent" => tokens[exchange'[r].token] = "spent"
    BY <1>0 DEF Overtakes
  <2>1. q # installs /\ exchange[q].pc = "paired"
    BY <1>5
  <2>2. r # installs
    <3>1. ~(q > installs)
      BY <2>1 DEF SentOnce
    <3> QED
      BY <1>1, <3>1 DEF Runs
  <2> QED
    BY <1>5, <2>1, <2>2 DEF Overtakes
<1> QED
  BY <1>6, <1>7, <1>8, <1>9, <1>10, <1>11

-----------------------------------------------------------------------------
(* The exchange. *)

\* A token's state is overwritten.
LEMMA TokenSet ==
  ASSUME NEW k \in DOMAIN tokens, NEW state \in TokenStates, tokens \in Seq(TokenStates),
         tokens' = [tokens EXCEPT ![k] = state]
  PROVE  /\ tokens' \in Seq(TokenStates) /\ Len(tokens') = Len(tokens) /\ DOMAIN tokens' = DOMAIN tokens
         /\ tokens'[k] = state /\ \A j \in DOMAIN tokens : j # k => tokens'[j] = tokens[j]
<1>1. k \in 1 .. Len(tokens) /\ DOMAIN tokens = 1 .. Len(tokens)
  BY LenProperties
<1>2. tokens' \in Seq(TokenStates) /\ Len(tokens') = Len(tokens)
  BY <1>1, ExceptSeq
<1>3. DOMAIN tokens' = 1 .. Len(tokens)
  BY <1>2, LenProperties
<1> QED
  BY <1>1, <1>2, <1>3

\* What a step of one exchange does: its own record and its own token change, nobody else's.
Exchanges(r, pc, found, state) ==
  /\ Sets(r, pc, found) /\ tokens' = [tokens EXCEPT ![exchange[r].token] = state]
  /\ UNCHANGED <<minting, overlap, file, keychain, script, installs>>

LEMMA ExchangeRecords ==
  ASSUME ServerInv, NEW r \in Runs, exchange[r].pc \in {"sent", "locked"},
         NEW pc \in {"locked", "refused", "paired"}, NEW found \in Nat, NEW state \in TokenStates,
         Exchanges(r, pc, found, state)
  PROVE  /\ exchange' \in [Runs -> Exchanged] /\ tokens' \in Seq(TokenStates)
         /\ exchange'[r] = [pc |-> pc, token |-> exchange[r].token, found |-> found]
         /\ \A q \in Runs : q # r => exchange'[q] = exchange[q]
         /\ exchange[r].token \in DOMAIN tokens /\ DOMAIN tokens' = DOMAIN tokens
         /\ tokens'[exchange[r].token] = state
         /\ \A j \in DOMAIN tokens : j # exchange[r].token => tokens'[j] = tokens[j]
         /\ Len(tokens') = Len(tokens)
<1>1. exchange \in [Runs -> Exchanged] /\ tokens \in Seq(TokenStates) /\ exchange[r].token \in DOMAIN tokens
  BY DEF ServerInv, ServerTyped, Holds, TokenStates
<1>2. exchange[r] \in Exchanged
  BY <1>1
<1>3. exchange' = [exchange EXCEPT ![r].pc = pc, ![r].found = found]
  BY DEF Exchanges, Sets
<1>4. exchange'[r] = [pc |-> pc, token |-> exchange[r].token, found |-> found]
  BY <1>1, <1>2, <1>3 DEF Exchanged
<1>5. exchange'[r] \in Exchanged
  BY <1>2, <1>4 DEF Exchanged
<1>6. exchange' \in [Runs -> Exchanged] /\ \A q \in Runs : q # r => exchange'[q] = exchange[q]
  BY <1>1, <1>3, <1>5
<1>7. tokens' = [tokens EXCEPT ![exchange[r].token] = state]
  BY DEF Exchanges
<1> QED
  BY <1>1, <1>4, <1>6, <1>7, TokenSet

\* The exchange that moves has a token that is of use, and no other one has it locked.
LEMMA ExchangeKeeps ==
  ASSUME ServerInv, NEW r \in Runs,
         \/ exchange[r].pc = "sent" /\ tokens[exchange[r].token] = "live"
         \/ exchange[r].pc = "locked",
         NEW pc \in {"locked", "refused", "paired"}, NEW found \in Nat, NEW state \in TokenStates,
         Exchanges(r, pc, found, state)
  PROVE  /\ ServerTyped' <=> devices' \in Seq(Runs)
         /\ OneToken' /\ SentOnce' /\ Stored'
         /\ \A q \in Runs : exchange[q].pc = "locked" /\ q # r => exchange[q].token # exchange[r].token
         /\ ~overlap => \A k \in DOMAIN tokens : k # exchange[r].token => tokens'[k] = "spent"
<1> USE DEF ServerInv
<1>0. exchange[r].pc \in {"sent", "locked"}
  OBVIOUS
<1>1. tokens[exchange[r].token] \in {"live", "locked"}
  BY DEF Holds
<1>2. UNCHANGED <<minting, overlap, file, keychain, script, installs>>
  BY DEF Exchanges
<1>3. /\ exchange' \in [Runs -> Exchanged] /\ tokens' \in Seq(TokenStates) /\ Len(tokens') = Len(tokens)
      /\ exchange'[r].pc = pc /\ \A q \in Runs : q # r => exchange'[q] = exchange[q]
      /\ exchange[r].token \in DOMAIN tokens /\ DOMAIN tokens' = DOMAIN tokens
      /\ \A j \in DOMAIN tokens : j # exchange[r].token => tokens'[j] = tokens[j]
  <2>1. exchange'[r] = [pc |-> pc, token |-> exchange[r].token, found |-> found]
    BY <1>0, ExchangeRecords
  <2>2. exchange'[r].pc = pc
    BY <2>1
  <2> QED
    BY <1>0, <2>2, ExchangeRecords
<1>4. ServerTyped' <=> devices' \in Seq(Runs)
  BY <1>2, <1>3 DEF ServerTyped, TokenStates
<1>5. \A k \in DOMAIN tokens' : tokens'[k] # "spent" => tokens[k] # "spent"
  BY <1>1, <1>3
<1>6. OneToken'
  BY <1>1, <1>2, <1>3, <1>5 DEF OneToken
<1>7. exchange[r].pc # "none" /\ ~(r > installs)
  BY DEF SentOnce
<1>8. SentOnce'
  <2>1. script.does = "install" /\ script.pc # "answer" /\ ~script.paired => r # installs
    BY <1>7 DEF SentOnce
  <2>2. script.does = "install" => installs \in Runs
    BY DEF ServerTyped, Runs
  <2> QED
    BY <1>2, <1>3, <1>7, <2>1, <2>2 DEF SentOnce
<1>9. Stored'
  <2>1. \A q \in Runs : exchange[q].pc \in {"paired", "void"} => exchange'[q].pc \in {"paired", "void"}
    BY <1>0, <1>3
  <2> QED
    BY <1>2, <2>1 DEF Stored
<1>10. \A q \in Runs : exchange[q].pc = "locked" /\ q # r => exchange[q].token # exchange[r].token
  <2> SUFFICES ASSUME NEW q \in Runs, exchange[q].pc = "locked", q # r, exchange[q].token = exchange[r].token
               PROVE  FALSE
    OBVIOUS
  <2>1. tokens[exchange[q].token] = "locked"
    BY DEF Holds
  <2>2. exchange[r].pc = "locked"
    BY <2>1
  <2> QED
    BY <2>2 DEF Holds
<1>11. ~overlap => \A k \in DOMAIN tokens : k # exchange[r].token => tokens'[k] = "spent"
  BY <1>1, <1>3 DEF OneToken
<1> QED
  BY <1>4, <1>6, <1>8, <1>9, <1>10, <1>11

LEMMA LockKeeps ==
  ASSUME ServerInv, NEW r \in Runs, Lock(r)
  PROVE  ServerInv'
<1> USE DEF ServerInv
<1> DEFINE k == exchange[r].token
<1>0. /\ exchange[r].pc = "sent" /\ tokens[k] # "locked" /\ k \in DOMAIN tokens
      /\ UNCHANGED <<minting, overlap, devices, file, keychain, script, installs>>
  BY DEF Lock, credVars, runVars, Holds
<1>d. devices \in Seq(Runs) /\ Len(devices) \in Nat
  BY LenProperties DEF ServerTyped
<1>1. CASE tokens[k] = "live"
  <2>1. Exchanges(r, "locked", Len(devices), "locked")
    BY <1>0, <1>1 DEF Lock, Exchanges
  <2>2. ServerTyped' /\ OneToken' /\ SentOnce' /\ Stored'
        /\ \A q \in Runs : exchange[q].pc = "locked" /\ q # r => exchange[q].token # k
    BY <1>0, <1>1, <1>d, <2>1, ExchangeKeeps DEF TokenStates
  <2>3. /\ exchange'[r] = [pc |-> "locked", token |-> k, found |-> Len(devices)]
        /\ \A q \in Runs : q # r => exchange'[q] = exchange[q]
        /\ DOMAIN tokens' = DOMAIN tokens /\ tokens'[k] = "locked"
        /\ \A j \in DOMAIN tokens : j # k => tokens'[j] = tokens[j]
    BY <1>0, <1>d, <2>1, ExchangeRecords DEF TokenStates
  <2>4. Holds'
    <3>1. \A q \in Runs : exchange'[q].token = exchange[q].token
      BY <2>3
    <3>2. \A q \in Runs : exchange'[q].pc \in {"sent", "locked"} => exchange'[q].token \in DOMAIN tokens'
      BY <1>0, <2>3 DEF Holds
    <3>3. ASSUME NEW q \in Runs, exchange'[q].pc = "locked"
          PROVE  tokens'[exchange'[q].token] = "locked" /\ exchange'[q].found \in 0 .. Len(devices')
      <4>1. CASE q = r
        BY <1>0, <1>d, <2>3, <4>1
      <4>2. CASE q # r
        <5>1. exchange'[q] = exchange[q] /\ exchange[q].token \in DOMAIN tokens /\ exchange[q].token # k
          BY <2>2, <2>3, <3>3, <4>2 DEF Holds
        <5> QED
          BY <1>0, <2>3, <3>3, <5>1 DEF Holds
      <4> QED
        BY <4>1, <4>2
    <3>4. ASSUME NEW p \in Runs, NEW q \in Runs, exchange'[p].pc = "locked", exchange'[q].pc = "locked",
                 exchange'[p].token = exchange'[q].token
          PROVE  p = q
      BY <2>2, <2>3, <3>1, <3>4 DEF Holds
    <3> QED
      BY <3>2, <3>3, <3>4 DEF Holds
  <2>5. Alone'
    <3>1. Len(devices) = 0 => devices = <<>>
      BY <1>d, EmptySeq
    <3> QED
      BY <1>0, <2>3, <3>1 DEF Alone
  <2>6. Overtakes'
    <3> SUFFICES ASSUME ~overlap, NEW p \in Runs, NEW q \in Runs, exchange'[q].pc = "paired", p < q
                 PROVE  /\ exchange'[p].pc # "locked"
                        /\ exchange'[p].pc = "sent" => tokens'[exchange'[p].token] = "spent"
      BY <1>0 DEF Overtakes
    <3>1. q # r /\ exchange[q].pc = "paired"
      BY <2>3
    <3>2. p # r
      BY <1>0, <1>1, <3>1 DEF Overtakes
    <3>3. exchange'[p] = exchange[p] /\ exchange[p].pc # "locked"
          /\ (exchange[p].pc = "sent" => tokens[exchange[p].token] = "spent" /\ exchange[p].token \in DOMAIN tokens)
      BY <2>3, <3>1, <3>2 DEF Overtakes, Holds
    <3> QED
      BY <1>1, <2>3, <3>3
  <2>7. LastAnswers'
    <3>1. \A q \in Runs : exchange'[q].pc = "paired" <=> exchange[q].pc = "paired"
      BY <1>0, <2>3
    <3> QED
      BY <1>0, <3>1 DEF LastAnswers, Known
  <2> QED
    BY <2>2, <2>4, <2>5, <2>6, <2>7
<1>2. CASE tokens[k] # "live"
  <2>1. exchange' = [exchange EXCEPT ![r].pc = "refused", ![r].found = 0] /\ tokens' = tokens
    BY <1>0, <1>2 DEF Lock, Sets
  <2>2. exchange \in [Runs -> Exchanged] /\ exchange[r] \in Exchanged
    BY DEF ServerTyped
  <2>3. exchange'[r] = [pc |-> "refused", token |-> k, found |-> 0]
    BY <2>1, <2>2 DEF Exchanged
  <2>4. exchange'[r] \in Exchanged
    BY <2>2, <2>3 DEF Exchanged
  <2>5. exchange' \in [Runs -> Exchanged] /\ \A q \in Runs : q # r => exchange'[q] = exchange[q]
    BY <2>1, <2>2, <2>4
  <2>6. exchange'[r].pc = "refused"
    BY <2>3
  <2>7. ServerTyped' /\ OneToken'
    BY <1>0, <2>1, <2>5 DEF ServerTyped, OneToken
  <2>8. Holds' /\ Alone' /\ Overtakes'
    <3>1. \A q \in Runs : exchange'[q].pc \in {"sent", "locked", "paired"} => exchange'[q] = exchange[q]
      BY <2>5, <2>6
    <3>2. Holds'
      <4>1. /\ \A q \in Runs : exchange'[q].pc \in {"sent", "locked"} => exchange[q].pc \in {"sent", "locked"}
            /\ \A q \in Runs : exchange'[q].pc = "locked" => exchange[q].pc = "locked"
        BY <3>1
      <4>2. UNCHANGED <<tokens, devices>>
        BY <1>0, <2>1
      <4> QED
        BY <1>0, <3>1, <4>1, <4>2 DEF Holds
    <3>3. Alone'
      BY <1>0, <3>1 DEF Alone
    <3>4. Overtakes'
      BY <1>0, <2>1, <3>1 DEF Overtakes
    <3> QED
      BY <3>2, <3>3, <3>4
  <2>9. SentOnce'
    <3>1. ~(r > installs)
      BY <1>0 DEF SentOnce
    <3>2. script.does = "install" /\ script.pc # "answer" /\ ~script.paired => r # installs
      BY <1>0 DEF SentOnce
    <3>3. script.does = "install" => installs \in Runs
      BY DEF ServerTyped, Runs
    <3> QED
      BY <1>0, <2>5, <3>1, <3>2, <3>3 DEF SentOnce
  <2>10. LastAnswers' /\ Stored'
    <3>1. \A q \in Runs : /\ exchange'[q].pc = "paired" <=> exchange[q].pc = "paired"
                          /\ exchange[q].pc \in {"paired", "void"} => exchange'[q].pc \in {"paired", "void"}
      BY <1>0, <2>5, <2>6
    <3>2. Stored'
      BY <1>0, <3>1 DEF Stored
    <3>3. LastAnswers'
      BY <1>0, <3>1 DEF LastAnswers, Known
    <3> QED
      BY <3>2, <3>3
  <2> QED
    BY <2>7, <2>8, <2>9, <2>10
<1> QED
  BY <1>1, <1>2

LEMMA AbortKeeps ==
  ASSUME ServerInv, NEW r \in Runs, Abort(r)
  PROVE  ServerInv'
<1> USE DEF ServerInv
<1> DEFINE k == exchange[r].token
<1>0. /\ exchange[r].pc = "locked" /\ devices' = devices
      /\ Exchanges(r, "refused", 0, "live")
      /\ UNCHANGED <<minting, overlap, file, keychain, script, installs>>
  BY DEF Abort, credVars, Exchanges
<1>1. ServerTyped' /\ OneToken' /\ SentOnce' /\ Stored'
      /\ \A q \in Runs : exchange[q].pc = "locked" /\ q # r => exchange[q].token # k
  BY <1>0, ExchangeKeeps DEF TokenStates, ServerTyped
<1>2. /\ exchange'[r] = [pc |-> "refused", token |-> k, found |-> 0]
      /\ \A q \in Runs : q # r => exchange'[q] = exchange[q]
      /\ DOMAIN tokens' = DOMAIN tokens
      /\ \A j \in DOMAIN tokens : j # k => tokens'[j] = tokens[j]
  BY <1>0, ExchangeRecords DEF TokenStates
<1>3. exchange'[r].pc = "refused"
  BY <1>2
<1>4. \A q \in Runs : exchange'[q].pc \in {"sent", "locked", "paired"} => q # r /\ exchange'[q] = exchange[q]
  BY <1>2, <1>3
<1>5. tokens[k] = "locked"
  BY <1>0 DEF Holds
<1>6. Holds'
  <2>1. \A q \in Runs : exchange'[q].pc = "locked" =>
          exchange[q].token \in DOMAIN tokens /\ exchange[q].token # k /\ exchange'[q] = exchange[q]
    BY <1>1, <1>4 DEF Holds
  <2>2. \A q \in Runs : exchange'[q].pc \in {"sent", "locked"} => exchange'[q].token \in DOMAIN tokens'
    BY <1>2, <1>4 DEF Holds
  <2>3. \A q \in Runs : exchange'[q].pc = "locked" =>
          tokens'[exchange'[q].token] = "locked" /\ exchange'[q].found \in 0 .. Len(devices')
    BY <1>0, <1>2, <2>1 DEF Holds
  <2>4. \A p, q \in Runs : exchange'[p].pc = "locked" /\ exchange'[q].pc = "locked"
          /\ exchange'[p].token = exchange'[q].token => p = q
    BY <2>1 DEF Holds
  <2> QED
    BY <2>2, <2>3, <2>4 DEF Holds
<1>7. Alone'
  BY <1>0, <1>4 DEF Alone
<1>8. Overtakes'
  <2> SUFFICES ASSUME ~overlap, NEW p \in Runs, NEW q \in Runs, exchange'[q].pc = "paired", p < q
               PROVE  /\ exchange'[p].pc # "locked"
                      /\ exchange'[p].pc = "sent" => tokens'[exchange'[p].token] = "spent"
    BY <1>0 DEF Overtakes
  <2>1. exchange[q].pc = "paired"
    BY <1>4
  <2>2. exchange'[p].pc # "locked"
    BY <1>4, <2>1 DEF Overtakes
  <2>3. ASSUME exchange'[p].pc = "sent"
        PROVE  tokens'[exchange'[p].token] = "spent"
    <3>1. exchange'[p] = exchange[p] /\ tokens[exchange[p].token] = "spent" /\ exchange[p].token \in DOMAIN tokens
      BY <1>4, <2>1, <2>3 DEF Overtakes, Holds
    <3> QED
      BY <1>2, <1>5, <3>1
  <2> QED
    BY <2>2, <2>3
<1>9. LastAnswers'
  <2>1. \A q \in Runs : exchange'[q].pc = "paired" <=> exchange[q].pc = "paired"
    BY <1>0, <1>2, <1>3
  <2> QED
    BY <1>0, <2>1 DEF LastAnswers, Known
<1> QED
  BY <1>1, <1>6, <1>7, <1>8, <1>9

\* The device row the exchange found, or a new one, answers to its token.
LEMMA CommitDevices ==
  ASSUME ServerInv, NEW r \in Runs, Commit(r)
  PROVE  /\ devices' \in Seq(Runs) /\ Len(devices') >= Len(devices) /\ Contains(devices', r)
         /\ exchange[r].found # 0 => Len(devices') = Len(devices)
         /\ exchange[r].found = 0 => Len(devices') = Len(devices) + 1
<1>1. devices \in Seq(Runs) /\ Len(devices) \in Nat /\ exchange[r].found \in 0 .. Len(devices)
  BY LenProperties DEF ServerInv, ServerTyped, Holds, Commit
<1>2. CASE exchange[r].found = 0
  <2>1. devices' = Append(devices, r)
    BY <1>2 DEF Commit
  <2>2. devices' \in Seq(Runs) /\ Len(devices') = Len(devices) + 1 /\ devices'[Len(devices) + 1] = r
    BY <1>1, <2>1, AppendProperties
  <2> QED
    BY <1>1, <1>2, <2>2 DEF Contains
<1>3. CASE exchange[r].found # 0
  <2> DEFINE i == exchange[r].found
  <2>1. devices' = [devices EXCEPT ![i] = r] /\ i \in 1 .. Len(devices)
    BY <1>1, <1>3 DEF Commit
  <2> HIDE DEF i
  <2>2. devices' \in Seq(Runs) /\ Len(devices') = Len(devices) /\ devices'[i] = r
    BY <1>1, <2>1, ExceptSeq
  <2>3. Contains(devices', r)
    BY <2>1, <2>2 DEF Contains
  <2> QED
    BY <1>1, <1>3, <2>2, <2>3
<1> QED
  BY <1>2, <1>3

LEMMA CommitKeeps ==
  ASSUME ServerInv, NEW r \in Runs, Commit(r)
  PROVE  ServerInv'
<1> USE DEF ServerInv
<1> DEFINE k == exchange[r].token
<1>d. devices \in Seq(Runs) /\ Len(devices) \in Nat /\ exchange[r].found \in 0 .. Len(devices)
      /\ Len(devices') \in Nat
  BY LenProperties, CommitDevices DEF ServerTyped, Holds, Commit
<1>0. /\ exchange[r].pc = "locked" /\ exchange[r].found \in Nat
      /\ Exchanges(r, "paired", exchange[r].found, "spent")
      /\ UNCHANGED <<minting, overlap, file, keychain, script, installs>>
  BY <1>d DEF Commit, credVars, runVars, Exchanges
<1>1. ServerTyped' /\ OneToken' /\ SentOnce' /\ Stored'
      /\ (\A q \in Runs : exchange[q].pc = "locked" /\ q # r => exchange[q].token # k)
      /\ (~overlap => \A j \in DOMAIN tokens : j # k => tokens'[j] = "spent")
  BY <1>0, ExchangeKeeps, CommitDevices DEF TokenStates
<1>2. /\ exchange'[r] = [pc |-> "paired", token |-> k, found |-> exchange[r].found]
      /\ \A q \in Runs : q # r => exchange'[q] = exchange[q]
      /\ DOMAIN tokens' = DOMAIN tokens /\ tokens'[k] = "spent" /\ k \in DOMAIN tokens
      /\ \A j \in DOMAIN tokens : j # k => tokens'[j] = tokens[j]
  BY <1>0, ExchangeRecords DEF TokenStates
<1>3. exchange'[r].pc = "paired"
  BY <1>2
<1>4. \A q \in Runs : exchange'[q].pc \in {"sent", "locked"} => q # r /\ exchange'[q] = exchange[q]
  BY <1>2, <1>3
<1>5. \A q \in Runs : exchange'[q].pc = "locked" =>
        exchange[q].token \in DOMAIN tokens /\ exchange[q].token # k /\ exchange'[q] = exchange[q]
  BY <1>1, <1>4 DEF Holds
<1>6. Holds'
  <2>2. \A q \in Runs : exchange'[q].pc \in {"sent", "locked"} => exchange'[q].token \in DOMAIN tokens'
    BY <1>2, <1>4 DEF Holds
  <2>3. ASSUME NEW q \in Runs, exchange'[q].pc = "locked"
        PROVE  tokens'[exchange'[q].token] = "locked" /\ exchange'[q].found \in 0 .. Len(devices')
    <3>1. exchange[q].pc = "locked" /\ exchange'[q] = exchange[q]
      BY <1>5, <2>3
    <3>2. tokens'[exchange'[q].token] = "locked"
      BY <1>2, <1>5, <2>3, <3>1 DEF Holds
    <3>3. exchange[q].found \in 0 .. Len(devices)
      BY <3>1 DEF Holds
    <3>4. exchange[q].found \in 0 .. Len(devices')
      BY <1>d, <3>3, CommitDevices
    <3> QED
      BY <3>1, <3>2, <3>4
  <2>4. \A p, q \in Runs : exchange'[p].pc = "locked" /\ exchange'[q].pc = "locked"
          /\ exchange'[p].token = exchange'[q].token => p = q
    BY <1>5 DEF Holds
  <2> QED
    BY <2>2, <2>3, <2>4 DEF Holds
<1>7. ASSUME ~overlap, NEW q \in Runs
      PROVE  exchange'[q].pc # "locked"
  <2>1. exchange'[q].pc = "locked" => tokens'[exchange[q].token] = "locked"
    BY <1>5, <1>6 DEF Holds
  <2> QED
    BY <1>1, <1>5, <1>7, <2>1
<1>8. Alone'
  <2> SUFFICES ASSUME ~overlap
               PROVE  Len(devices') <= 1
    BY <1>0, <1>7 DEF Alone
  <2>1. exchange[r].found = 0 => Len(devices) = 0
    BY <1>0, EmptySeq DEF Alone
  <2>2. Len(devices) <= 1
    BY DEF Alone
  <2> QED
    BY <1>d, <2>1, <2>2, CommitDevices
<1>9. Overtakes'
  <2> SUFFICES ASSUME ~overlap, NEW p \in Runs, NEW q \in Runs, exchange'[q].pc = "paired", p < q
               PROVE  /\ exchange'[p].pc # "locked"
                      /\ exchange'[p].pc = "sent" => tokens'[exchange'[p].token] = "spent"
    BY <1>0 DEF Overtakes
  <2>1. exchange'[p].pc = "sent" => exchange'[p].token \in DOMAIN tokens
    BY <1>2, <1>6 DEF Holds
  <2> QED
    BY <1>1, <1>2, <1>7, <2>1
<1>10. LastAnswers'
  <2> SUFFICES ASSUME ~overlap, NEW q \in Runs, exchange'[q].pc = "paired"
               PROVE  Known(q)' \/ \E p \in Runs : p > q /\ exchange'[p].pc = "paired"
    BY <1>0 DEF LastAnswers
  <2>1. CASE q = r
    BY <2>1, CommitDevices DEF Known
  <2>2. CASE q # r
    <3>1. exchange[q].pc = "paired" /\ ~(r < q)
      BY <1>0, <1>2, <2>2 DEF Overtakes
    <3>2. r > q
      BY <2>2, <3>1 DEF Runs
    <3> QED
      BY <1>3, <3>2
  <2> QED
    BY <2>1, <2>2
<1> QED
  BY <1>1, <1>6, <1>8, <1>9, <1>10

-----------------------------------------------------------------------------
(* The dashboard, and the deletion of the account. *)

\* Every token is overwritten.
LEMMA TokensSpent ==
  ASSUME tokens \in Seq(TokenStates), tokens' = [k \in DOMAIN tokens |-> "spent"]
  PROVE  /\ tokens' \in Seq(TokenStates) /\ Len(tokens') = Len(tokens) /\ DOMAIN tokens' = DOMAIN tokens
         /\ \A k \in DOMAIN tokens' : tokens'[k] = "spent"
<1>1. DOMAIN tokens = 1 .. Len(tokens) /\ Len(tokens) \in Nat
  BY LenProperties
<1>2. tokens' = [k \in 1 .. Len(tokens) |-> "spent"]
  BY <1>1
<1>3. tokens' \in Seq(TokenStates)
  BY <1>1, <1>2 DEF TokenStates
<1>4. DOMAIN tokens' = 1 .. Len(tokens') /\ Len(tokens') \in Nat
  BY <1>3, LenProperties
<1>5. Len(tokens') = Len(tokens)
  BY <1>1, <1>2
<1> QED
  BY <1>1, <1>2, <1>3, <1>4, <1>5

\* No exchange holds a lock when all the tokens may be overwritten.
LEMMA NoneLocked ==
  ASSUME ServerInv, ~Contains(tokens, "locked")
  PROVE  \A r \in Runs : exchange[r].pc # "locked"
<1>1. DOMAIN tokens = 1 .. Len(tokens)
  BY LenProperties DEF ServerInv, ServerTyped
<1> QED
  BY <1>1 DEF ServerInv, Holds, Contains

LEMMA BurnKeeps ==
  ASSUME ServerInv, NEW p \in Pages, Burn(p)
  PROVE  ServerInv'
<1> USE DEF ServerInv
<1>0. /\ UNCHANGED <<exchange, devices, file, keychain, script, installs>>
      /\ minting' = [minting EXCEPT ![p] = TRUE] /\ tokens \in Seq(TokenStates)
      /\ overlap' = (overlap \/ \E q \in Pages \ {p} : minting[q]) /\ ~Contains(tokens, "locked")
      /\ minting \in [Pages -> BOOLEAN] /\ overlap \in BOOLEAN
  BY DEF Burn, credVars, runVars, ServerTyped, TokenStates
<1>1. tokens' = [k \in DOMAIN tokens |-> "spent"]
  BY DEF Burn, Burned
<1>2. /\ tokens' \in Seq(TokenStates) /\ Len(tokens') = Len(tokens) /\ DOMAIN tokens' = DOMAIN tokens
      /\ \A k \in DOMAIN tokens' : tokens'[k] = "spent"
  BY <1>0, <1>1, TokensSpent
<1>3. \A r \in Runs : exchange[r].pc # "locked"
  BY <1>0, NoneLocked
<1>4. ServerTyped'
  <2>1. overlap' \in BOOLEAN
    BY <1>0
  <2>2. minting' \in [Pages -> BOOLEAN]
    BY <1>0
  <2> QED
    BY <1>0, <1>2, <2>1, <2>2 DEF ServerTyped, TokenStates
<1>5. OneToken'
  <2> SUFFICES ASSUME ~overlap', NEW q \in Pages, NEW s \in Pages, minting'[q], minting'[s]
               PROVE  q = s
    BY <1>2 DEF OneToken
  <2>1. \A u \in Pages : minting'[u] => u = p
    BY <1>0
  <2> QED
    BY <2>1
<1>6. Holds' /\ Alone' /\ Overtakes'
  <2>1. ~overlap' => ~overlap
    BY <1>0
  <2>2. Holds'
    BY <1>0, <1>2, <1>3 DEF Holds
  <2>3. Alone'
    BY <1>0, <1>3, <2>1 DEF Alone
  <2>4. Overtakes'
    BY <1>0, <1>2, <1>3, <2>1 DEF Overtakes, Holds
  <2> QED
    BY <2>2, <2>3, <2>4
<1>7. SentOnce' /\ Stored' /\ LastAnswers'
  <2>1. ~overlap' => ~overlap
    BY <1>0
  <2> QED
    BY <1>0, <2>1 DEF SentOnce, Stored, LastAnswers, Known
<1> QED
  BY <1>4, <1>5, <1>6, <1>7

LEMMA InsertKeeps ==
  ASSUME ServerInv, NEW p \in Pages, Insert(p)
  PROVE  ServerInv'
<1> USE DEF ServerInv
<1>0. /\ UNCHANGED <<overlap, exchange, devices, file, keychain, script, installs>>
      /\ minting[p] /\ minting' = [minting EXCEPT ![p] = FALSE] /\ tokens' = Append(tokens, "live")
      /\ tokens \in Seq(TokenStates) /\ Len(tokens) \in Nat /\ minting \in [Pages -> BOOLEAN]
      /\ DOMAIN tokens = 1 .. Len(tokens)
  BY LenProperties DEF Insert, credVars, runVars, ServerTyped, TokenStates
<1>1. "live" \in TokenStates
  BY DEF TokenStates
<1>2. /\ tokens' \in Seq(TokenStates) /\ Len(tokens') = Len(tokens) + 1
      /\ tokens'[Len(tokens) + 1] = "live" /\ \A k \in DOMAIN tokens : tokens'[k] = tokens[k]
  BY <1>0, <1>1, AppendProperties
<1>3. DOMAIN tokens' = 1 .. Len(tokens) + 1 /\ DOMAIN tokens \subseteq DOMAIN tokens'
  BY <1>0, <1>2, LenProperties
<1>4. ServerTyped'
  <2>1. minting' \in [Pages -> BOOLEAN]
    BY <1>0
  <2>2. script.does = "install" => script.token \in 0 .. Len(tokens')
    BY <1>0, <1>2 DEF ServerTyped
  <2> QED
    BY <1>0, <1>2, <2>1, <2>2 DEF ServerTyped, TokenStates
<1>5. OneToken'
  <2> SUFFICES ASSUME ~overlap
               PROVE  /\ \A j, k \in DOMAIN tokens' : tokens'[j] # "spent" /\ tokens'[k] # "spent" => j = k
                      /\ \A q \in Pages : ~minting'[q]
    BY <1>0 DEF OneToken
  <2>1. \A q \in Pages : ~minting'[q]
    BY <1>0 DEF OneToken
  <2>2. \A k \in DOMAIN tokens : tokens'[k] = "spent"
    BY <1>0, <1>2 DEF OneToken
  <2>3. \A k \in DOMAIN tokens' : tokens'[k] # "spent" => k = Len(tokens) + 1
    BY <1>0, <1>3, <2>2
  <2> QED
    BY <2>1, <2>3
<1>6. Holds' /\ Alone' /\ Overtakes'
  <2>1. \A r \in Runs : exchange[r].pc \in {"sent", "locked"} =>
          /\ exchange[r].token \in DOMAIN tokens /\ exchange[r].token \in DOMAIN tokens'
          /\ tokens'[exchange[r].token] = tokens[exchange[r].token]
    BY <1>2, <1>3 DEF Holds
  <2>2. Holds'
    BY <1>0, <2>1 DEF Holds
  <2>3. Overtakes'
    BY <1>0, <2>1 DEF Overtakes
  <2> QED
    BY <1>0, <2>2, <2>3 DEF Alone
<1>7. SentOnce' /\ Stored' /\ LastAnswers'
  BY <1>0 DEF SentOnce, Stored, LastAnswers, Known
<1> QED
  BY <1>4, <1>5, <1>6, <1>7

LEMMA ExpiresKeeps ==
  ASSUME ServerInv, NEW k \in DOMAIN tokens, TokenExpires(k)
  PROVE  ServerInv'
<1> USE DEF ServerInv
<1>0. /\ UNCHANGED <<minting, overlap, exchange, devices, file, keychain, script, installs>>
      /\ tokens[k] = "live" /\ tokens' = [tokens EXCEPT ![k] = "spent"] /\ tokens \in Seq(TokenStates)
  BY DEF TokenExpires, credVars, runVars, ServerTyped, TokenStates
<1>1. "spent" \in TokenStates
  BY DEF TokenStates
<1>2. /\ tokens' \in Seq(TokenStates) /\ Len(tokens') = Len(tokens) /\ DOMAIN tokens' = DOMAIN tokens
      /\ tokens'[k] = "spent" /\ \A j \in DOMAIN tokens : j # k => tokens'[j] = tokens[j]
  BY <1>0, <1>1, TokenSet
<1>3. ServerTyped'
  BY <1>0, <1>2 DEF ServerTyped, TokenStates
<1>4. OneToken'
  BY <1>0, <1>2 DEF OneToken
<1>5. Holds'
  BY <1>0, <1>2 DEF Holds
<1>6. Overtakes'
  <2>1. \A j \in DOMAIN tokens : tokens[j] = "spent" => tokens'[j] = "spent"
    BY <1>2
  <2> QED
    BY <1>0, <2>1 DEF Overtakes, Holds
<1>7. Alone' /\ SentOnce' /\ Stored' /\ LastAnswers'
  BY <1>0 DEF Alone, SentOnce, Stored, LastAnswers, Known
<1> QED
  BY <1>3, <1>4, <1>5, <1>6, <1>7

LEMMA DeletesKeeps ==
  ASSUME ServerInv, Deletes
  PROVE  ServerInv'
<1> USE DEF ServerInv
<1>0. /\ UNCHANGED <<overlap, file, keychain, script, installs>>
      /\ ~Contains(tokens, "locked") /\ devices' = <<>> /\ minting' = [p \in Pages |-> FALSE]
      /\ tokens' = [k \in DOMAIN tokens |-> "spent"] /\ tokens \in Seq(TokenStates)
  BY DEF Deletes, credVars, runVars, ServerTyped, TokenStates
<1>r. /\ exchange' \in [Runs -> Exchanged]
      /\ \A r \in Runs : /\ exchange[r].pc \in {"paired", "void"} => exchange'[r].pc = "void"
                         /\ exchange[r].pc \notin {"paired", "void"} => exchange'[r] = exchange[r]
  BY DEF Deletes, ServerTyped, Exchanged
<1>a. \A r \in Runs : /\ exchange'[r].pc # "paired"
                      /\ exchange'[r].pc = "sent" => exchange[r].pc = "sent" /\ exchange'[r].token = exchange[r].token
                      /\ exchange[r].pc = "none" => exchange'[r].pc = "none"
  BY <1>r
<1>1. /\ tokens' \in Seq(TokenStates) /\ Len(tokens') = Len(tokens) /\ DOMAIN tokens' = DOMAIN tokens
      /\ \A k \in DOMAIN tokens' : tokens'[k] = "spent"
  BY <1>0, TokensSpent
<1>2. \A r \in Runs : exchange[r].pc # "locked"
  BY <1>0, NoneLocked
<1>3. devices' \in Seq(Runs) /\ Len(devices') = 0
  BY <1>0, EmptySeq
<1>4. ServerTyped'
  <2>1. minting' \in [Pages -> BOOLEAN]
    BY <1>0
  <2> QED
    BY <1>0, <1>1, <1>3, <1>r, <2>1 DEF ServerTyped, TokenStates
<1>5. OneToken'
  BY <1>0, <1>1 DEF OneToken
<1>b. \A r \in Runs : exchange'[r].pc # "locked"
  BY <1>2, <1>r
<1>6. Holds'
  BY <1>1, <1>a, <1>b DEF Holds
<1>7. Alone'
  BY <1>0, <1>3, <1>b DEF Alone
<1>8. Overtakes' /\ LastAnswers'
  BY <1>a DEF Overtakes, LastAnswers
<1>9. SentOnce' /\ Stored'
  <2>1. SentOnce'
    <3>1. script.does = "install" => installs \in Runs
      BY DEF ServerTyped, Runs
    <3> QED
      BY <1>0, <1>a, <3>1 DEF SentOnce
  <2>2. Stored'
    BY <1>0, <1>r DEF Stored
  <2> QED
    BY <2>1, <2>2
<1> QED
  BY <1>4, <1>5, <1>6, <1>7, <1>8, <1>9

\* The wizard leaves the machine and its pairing alone.
LEMMA WizardKeeps ==
  ASSUME ServerInv, UNCHANGED instVars
  PROVE  ServerInv'
BY DEF instVars, ServerInv, ServerTyped, OneToken, Holds, Alone, SentOnce, Overtakes, LastAnswers, Known, Stored

-----------------------------------------------------------------------------
EnrollInv == DiskInv /\ ServerInv

LEMMA EnrollStep ==
  EnrollInv /\ [EnrollNext]_enrollVars => EnrollInv'
<1> SUFFICES ASSUME EnrollInv, [EnrollNext]_enrollVars
             PROVE  EnrollInv'
  OBVIOUS
<1>0. DiskInv /\ ServerInv /\ Running
  BY DEF EnrollInv, DiskInv
<1>1. ASSUME UNCHANGED <<script, diskVars>>
      PROVE  DiskInv'
  BY <1>0, <1>1 DEF DiskInv, Running, Undoable, Reverts, diskVars
<1>2. CASE Installs
  <2>0. InstNext
    BY <1>2 DEF Installs
  <2>1. DiskInv'
    BY <1>0, <2>0, DiskStep
  <2>2. ServerInv'
    BY <1>0, <2>0, ScriptSteps, StartKeeps, SendKeeps, LockKeeps, CommitKeeps, AbortKeeps, ExpiresKeeps, BurnKeeps,
      InsertKeeps DEF InstNext
  <2> QED
    BY <2>1, <2>2 DEF EnrollInv
<1>3. CASE Deletes
  <2>1. DiskInv'
    BY <1>1, <1>3 DEF Deletes
  <2> QED
    BY <1>0, <1>3, <2>1, DeletesKeeps DEF EnrollInv
<1>4. CASE OnbNext /\ Calm /\ UNCHANGED instVars
  <2>1. DiskInv'
    BY <1>1, <1>4 DEF instVars, diskVars
  <2> QED
    BY <1>0, <1>4, <2>1, WizardKeeps DEF EnrollInv
<1>5. CASE UNCHANGED enrollVars
  <2>1. UNCHANGED instVars
    BY <1>5 DEF enrollVars
  <2>2. DiskInv'
    BY <1>1, <2>1 DEF instVars, diskVars
  <2>3. ServerInv'
    BY <1>0, <2>1, WizardKeeps
  <2> QED
    BY <2>2, <2>3 DEF EnrollInv
<1> QED
  BY <1>2, <1>3, <1>4, <1>5 DEF EnrollNext

LEMMA EnrollInvariant == EnrollSpec => []EnrollInv
<1>1. EnrollInit => EnrollInv
  BY DiskInit, ServerInit DEF EnrollInv
<1> QED
  BY <1>1, EnrollStep, PTL DEF EnrollSpec

\* One machine has one device row, unless two install commands were minted at once.
THEOREM OneRow == EnrollSpec => []OneCard
<1>1. EnrollInv => OneCard
  BY DEF EnrollInv, ServerInv, Alone, OneCard
<1> QED
  BY <1>1, EnrollInvariant, PTL

\* After a whole uninstall nothing of install.sh is left of the agents it was told of.
THEOREM UninstallReverts == EnrollSpec => []Reverts
<1>1. EnrollInv => Reverts
  BY DEF EnrollInv, DiskInv
<1> QED
  BY <1>1, EnrollInvariant, PTL

\* A token the control plane does not know was overtaken by a later exchange, or the account it was
\* given under has been deleted.
THEOREM TokensRecognised == EnrollSpec => []Recognised
<1>1. EnrollInv => Recognised
  <2> SUFFICES ASSUME EnrollInv, ~overlap, Loaded # 0, ~Known(Loaded), exchange[Loaded].pc # "void"
               PROVE  \E r \in Runs : r > Loaded /\ exchange[r].pc = "paired"
    BY DEF Recognised
  <2>1. Loaded \in Runs /\ exchange[Loaded].pc = "paired"
    BY DEF EnrollInv, ServerInv, Stored, Loaded
  <2> QED
    BY <2>1 DEF EnrollInv, ServerInv, LastAnswers
<1> QED
  BY <1>1, EnrollInvariant, PTL
=============================================================================
