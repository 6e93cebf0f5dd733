------------------------------- MODULE AfkState -------------------------------
(***************************************************************************)
(* The AFK state of a device and its two copies: devices.afk in the        *)
(* database, and the afk.state and dirty files every process of the device *)
(* reads.  It is toggled by `imsg afk` (cli.ts), which writes the files    *)
(* and posts the value, and from the dashboard or the phone, which write   *)
(* the column.  The column travels down on the streams of the sessions (a  *)
(* state frame when it differs from the last one), a dirty local value up  *)
(* on their heartbeats (channel.ts, afk-sync.ts, routes/device.ts).  Every *)
(* process that writes the local file then reconciles caffeinate           *)
(* (caffeinate.ts) with the value it wrote.                                *)
(*                                                                         *)
(* The statements of one process up to its next await are one step, but    *)
(* for the `ps` of caffeinate.ts: other processes run meanwhile.           *)
(***************************************************************************)
EXTENDS Integers, FiniteSets, Sequences

CONSTANTS Channels,   \* the channel processes: one per session
          Commands,   \* bound: invocations of `imsg afk`
          MaxRemote,  \* bound: toggles of the dashboard and the phone
          Mac,        \* caffeinate exists on macOS only
          MaxSpawns,  \* bound: caffeinate processes alive at once
          MaxFrames,  \* bound: frames of a stream on their way
          MaxFaults,  \* bound: failed requests, broken streams, dead processes
          None

ASSUME AfkAssumption ==
  /\ {MaxRemote, MaxSpawns, MaxFrames, MaxFaults} \subseteq Nat /\ Channels \cap Commands = {}
  /\ Channels # {} /\ None \notin BOOLEAN /\ Mac \in BOOLEAN

VARIABLES
  local, dirty,  \* afk.state and the dirty flag (TRUE is on, or dirty)
  server,        \* devices.afk
  egress,        \* channel -> what egressEnabled answers it: the kill switch is not thrown
  request,       \* process -> its POST or heartbeat: [pc, afk]
  last, frames,  \* channel -> the last afk its stream sent, and the frames on their way
  keep,          \* process -> its reconcile: [pc, afk, alive]
  alive, pid,    \* the live caffeinate processes, and the pid file (0 for none)
  remotes, faults,
  disturbed,    \* history: a reconcile was killed, or another process wrote before it was done
  owed,          \* history: the value of a remote toggle that found everything at rest
  synced         \* history: a stream began with everything at rest, and no toggle since

files == <<local, dirty>>
streams == <<last, frames>>
awake == <<keep, alive, pid, disturbed>>
vars == <<files, server, egress, request, streams, awake, remotes, faults, owed, synced>>

Processes == Channels \cup Commands
Unsent == [pc |-> "no", afk |-> FALSE, asserts |-> FALSE]
Asleep == [pc |-> "no", afk |-> FALSE, saw |-> 0]

Init ==
  /\ local = FALSE /\ dirty = FALSE /\ server = FALSE
  /\ request = [p \in Processes |-> Unsent]
  /\ last = [c \in Channels |-> None] /\ frames = [c \in Channels |-> <<>>]
  /\ keep = [p \in Processes |-> Asleep] /\ disturbed = FALSE
  /\ egress = [c \in Channels |-> TRUE]
  /\ alive = {} /\ pid = 0 /\ remotes = 0 /\ faults = 0 /\ owed = None /\ synced = TRUE

Idle(p) == keep[p].pc = "no"
\* Mutant: caffeinate is only ever started.
Reconciles_on(p, afk) ==
  /\ keep' = IF Mac /\ afk THEN [keep EXCEPT ![p] = [pc |-> "look", afk |-> afk, saw |-> 0]] ELSE keep
  /\ disturbed' = (disturbed \/ \E q \in Processes : ~Idle(q))

\* reconcileCaffeinate(afk) follows.
Reconciles(p, afk) ==
  /\ keep' = IF Mac THEN [keep EXCEPT ![p] = [pc |-> "look", afk |-> afk, saw |-> 0]] ELSE keep
  /\ disturbed' = (disturbed \/ \E q \in Processes : ~Idle(q))

Fault == faults < MaxFaults /\ faults' = faults + 1

-----------------------------------------------------------------------------
(* Toggles. *)

\* imsg afk on|off|toggle: dirty first, then the value, then caffeinate, then the POST.
Toggle(p, next) ==
  /\ request[p].pc = "no"
  /\ dirty' = TRUE /\ local' = next /\ Reconciles(p, next)
  /\ request' = [request EXCEPT ![p] = [pc |-> "begun", afk |-> next, asserts |-> TRUE]]
  /\ owed' = None /\ synced' = FALSE
  /\ UNCHANGED <<server, egress, streams, alive, pid, remotes, faults>>

\* It dies between the two writes, or anywhere before the POST.
CommandDies(p) ==
  /\ \/ request[p].pc = "no" /\ dirty' = TRUE
     \/ request[p].pc = "begun" /\ UNCHANGED dirty
  /\ request' = [request EXCEPT ![p] = [Unsent EXCEPT !.pc = "over"]] /\ keep' = [keep EXCEPT ![p] = Asleep]
  /\ disturbed' = (disturbed \/ ~Idle(p)) /\ owed' = None /\ synced' = FALSE /\ Fault
  /\ UNCHANGED <<local, server, egress, streams, alive, pid, remotes>>

Posts(p) ==
  /\ request[p].pc = "begun" /\ Idle(p) /\ request' = [request EXCEPT ![p].pc = "sent"]
  /\ UNCHANGED <<files, server, egress, streams, awake, remotes, faults, owed, synced>>

AtRest == ~dirty /\ \A p \in Processes : request[p].pc \in {"sent", "begun", "late"} => ~request[p].asserts

\* The value the dashboard or the assistant's update_session_state asks for; asking for the one
\* there is changes nothing.
Asked == ~server

\* The dashboard's route, or update_session_state of the assistant.
RemoteToggle ==
  /\ remotes < MaxRemote /\ remotes' = remotes + 1
  /\ server' = Asked /\ owed' = IF AtRest THEN Asked ELSE None
  /\ UNCHANGED <<files, egress, request, streams, awake, faults, synced>>

-----------------------------------------------------------------------------
(* Requests: a POST of a command, a heartbeat of a channel. *)

\* Mutant: every beat asserts the local value.
Asserts_always == TRUE

\* A beat carries the AFK state only while a local toggle is dirty.
Asserts == dirty

\* The kill switch is thrown or lifted: the .disabled file, the device's column, or a look-up
\* that fails and so leaves egress open (DeviceOutbox has how the answer comes about).  A
\* channel asks between two beats.
Switch(c) ==
  /\ request[c].pc = "no" /\ Idle(c)
  /\ egress' = [egress EXCEPT ![c] = ~@]
  /\ UNCHANGED <<files, server, request, streams, awake, remotes, faults, owed, synced>>

\* heartbeatLoop: no beat while egress is off; one that asserts nothing changes nothing here.
Beat(c) ==
  /\ egress[c] /\ request[c].pc = "no" /\ Idle(c) /\ Asserts
  /\ request' = [request EXCEPT ![c] = [pc |-> "sent", afk |-> local, asserts |-> TRUE]]
  /\ UNCHANGED <<files, server, egress, streams, awake, remotes, faults, owed, synced>>

\* The STATE route, and the HEARTBEAT route's dirty reconcile: requests are handled in any
\* order, one its client has given up included.
Handle(p) ==
  /\ request[p].pc \in {"sent", "late"}
  /\ server' = IF request[p].asserts THEN request[p].afk ELSE server
  /\ request' = [request EXCEPT ![p] = IF @.pc = "sent" THEN [@ EXCEPT !.pc = "handled"]
                                       ELSE [Unsent EXCEPT !.pc = IF p \in Channels THEN "no" ELSE "over"]]
  /\ UNCHANGED <<files, egress, streams, awake, remotes, faults, owed, synced>>

\* The request fails, its answer is lost, or the client times out and the server has it later.
Fails(p) ==
  /\ \/ request[p].pc \in {"sent", "handled"}
        /\ request' = [request EXCEPT ![p] = [Unsent EXCEPT !.pc = IF p \in Channels THEN "no" ELSE "over"]]
     \/ request[p].pc = "sent" /\ request' = [request EXCEPT ![p].pc = "late"]
  /\ Fault /\ UNCHANGED <<files, server, egress, streams, awake, remotes, owed, synced>>

\* syncState succeeded: the command clears the flag, whatever the file says by now.
CommandDone(p) ==
  /\ request[p].pc = "handled" /\ dirty' = FALSE
  /\ request' = [request EXCEPT ![p] = [Unsent EXCEPT !.pc = "over"]]
  /\ UNCHANGED <<local, server, egress, streams, awake, remotes, faults, owed, synced>>

\* Mutant: the flag is never cleared by an echo.
ShouldClearDirty_never(c) == FALSE

\* shouldClearDirty, and the guard against a toggle during the beat.
ShouldClearDirty(c) == request[c].asserts /\ local = request[c].afk

BeatDone(c) ==
  /\ request[c].pc = "handled"
  /\ dirty' = IF ShouldClearDirty(c) THEN FALSE ELSE dirty
  /\ request' = [request EXCEPT ![c] = Unsent]
  /\ UNCHANGED <<local, server, egress, streams, awake, remotes, faults, owed, synced>>

-----------------------------------------------------------------------------
(* Streams. *)

\* The EVENTS handler's flush.
Flush(c) ==
  /\ server # last[c] /\ Len(frames[c]) < MaxFrames /\ last' = [last EXCEPT ![c] = server]
  /\ frames' = [frames EXCEPT ![c] = Append(@, server)]
  /\ UNCHANGED <<files, server, egress, request, awake, remotes, faults, owed, synced>>

\* Mutant: the stream goes on from where the last one broke.
Resumes(c) == last[c]

\* What a new stream has sent: nothing, so its first flush sends the value again.
Nothing(c) == None

Anew(c) ==
  /\ last' = [last EXCEPT ![c] = Nothing(c)] /\ frames' = [frames EXCEPT ![c] = <<>>]
  /\ synced' = (synced \/ AtRest) /\ Fault

\* The stream breaks.
Reconnect(c) ==
  /\ last[c] # None /\ Anew(c)
  /\ UNCHANGED <<files, server, egress, request, awake, remotes, owed>>

\* The channel process starts anew: it reconciles caffeinate with the file.
Boot(c) ==
  /\ Idle(c) /\ Reconciles(c, local) /\ Anew(c)
  /\ request' = [request EXCEPT ![c] = IF @.pc \in {"sent", "late"} THEN [@ EXCEPT !.pc = "late"] ELSE Unsent]
  /\ UNCHANGED <<files, server, egress, alive, pid, remotes, owed>>

\* shouldAdoptDownstreamAfk.
ShouldAdopt(afk) == ~dirty /\ afk # local

\* The STATE branch of subscribeEvents.
Receive(c) ==
  LET afk == Head(frames[c])
  IN /\ frames[c] # <<>> /\ Idle(c) /\ frames' = [frames EXCEPT ![c] = Tail(@)]
     /\ IF ShouldAdopt(afk) THEN local' = afk /\ Reconciles(c, afk) /\ UNCHANGED dirty
        ELSE /\ dirty' = IF dirty /\ afk = local THEN FALSE ELSE dirty
             /\ UNCHANGED <<local, keep, disturbed>>
     /\ UNCHANGED <<server, egress, request, last, alive, pid, remotes, faults, owed, synced>>

-----------------------------------------------------------------------------
(* Keep-awake. *)

\* readPid and isCaffeinateAlive.
Look(p) ==
  /\ keep[p].pc = "look" /\ keep' = [keep EXCEPT ![p].pc = "act", ![p].saw = IF pid \in alive THEN pid ELSE 0]
  /\ UNCHANGED <<files, server, egress, request, streams, alive, pid, disturbed, remotes, faults, owed, synced>>

\* caffeinateActionFor: start, stop the one the pid file names, or nothing.
Act(p) ==
  /\ keep[p].pc = "act" /\ keep' = [keep EXCEPT ![p] = Asleep]
  /\ CASE keep[p].afk /\ keep[p].saw = 0 ->
            LET new == CHOOSE n \in 1..MaxSpawns : n \notin alive
            IN 1..MaxSpawns # alive /\ alive' = alive \cup {new} /\ pid' = new
       [] ~keep[p].afk -> alive' = alive \ {keep[p].saw} /\ pid' = 0
       [] OTHER -> UNCHANGED <<alive, pid>>
  /\ UNCHANGED <<files, server, egress, request, streams, disturbed, remotes, faults, owed, synced>>

Syncs ==
  \/ \E p \in Commands : Posts(p) \/ CommandDone(p)
  \/ \E c \in Channels : Beat(c) \/ BeatDone(c) \/ Flush(c) \/ Receive(c)
  \/ \E p \in Processes : Handle(p) \/ Look(p) \/ Act(p)

Next ==
  \/ Syncs \/ RemoteToggle
  \/ \E p \in Commands : CommandDies(p) \/ \E next \in BOOLEAN : Toggle(p, next)
  \/ \E p \in Processes : Fails(p)
  \/ \E c \in Channels : Reconnect(c) \/ Boot(c) \/ Switch(c)

\* Beats and streams go on, and what does not fail gets through.
Fairness == WF_vars(Syncs)
Spec == Init /\ [][Next]_vars /\ Fairness
-----------------------------------------------------------------------------
(* Properties. *)

TypeOK ==
  /\ {local, dirty, server, disturbed, synced} \subseteq BOOLEAN /\ owed \in BOOLEAN \cup {None}
  /\ last \in [Channels -> BOOLEAN \cup {None}] /\ alive \subseteq 1..MaxSpawns /\ pid \in alive \cup {0}
  /\ \A c \in Channels : Len(frames[c]) <= MaxFrames

\* A toggle of the dashboard or the phone that finds the device at rest stands until the user
\* toggles on the device: no beat, late request, stale frame or restart undoes it
\* (channel.ts:812, "can never clobber a dashboard change").
RemoteStands == owed # None => server = owed

\* Caffeinate runs exactly while AFK is on (channel.ts:941-946), as long as no reconcile was killed
\* and none was overtaken by another process's write.
AwakeIffAway ==
  Mac /\ ~disturbed /\ (\A p \in Processes : Idle(p)) => (local <=> alive # {})

\* Nothing is on its way.
Settled ==
  /\ AtRest /\ \A p \in Processes : Idle(p)
  /\ \A c \in Channels : last[c] = server /\ frames[c] = <<>>

\* One new stream, begun with everything at rest, makes the two copies agree, and they stay
\* so: whatever the column did meanwhile, the frames bring the file to it.
HealsOnReconnect == synced /\ Settled => local = server

\* The dirty flag, which blocks every push, does not stay as long as one channel may beat
\* (channel.ts:798-803): lost POSTs, answers that come late and toggles during a beat included.
NotWedged == <>[](\E c \in Channels : egress[c]) => <>[]~dirty

-----------------------------------------------------------------------------
(* What a comment says and the code does not do: no run checks these, TLC  *)
(* finds them violated (README, Divergences).                              *)

\* afk-sync.ts:5, "the two decisions that make AFK reliably sync both ways": without a new
\* stream, too.
SyncsBothWays == Settled => local = server

\* channel.ts:763-766, "so a dirty flag can't wedge if the heartbeat echo path is starved (e.g.
\* egress killswitched)": the push clears it only if the column holds the value already.
NeverWedges == <>[]~dirty
=============================================================================
