------------------------------ MODULE Installation ------------------------------
(***************************************************************************)
(* Putting one machine under an account: the pairing tokens the dashboard  *)
(* mints, the exchange of one for a device token (repo.ts), the scripts    *)
(* install.sh and uninstall.sh, and where the device keeps its token       *)
(* (creds.ts).  The person runs one script at a time; an exchange whose    *)
(* client gave up goes on in the server.  File contents are abstracted to  *)
(* what the two scripts distinguish; downloads and manifests are left out. *)
(***************************************************************************)
EXTENDS Integers, FiniteSets, Sequences, SequencesExt, FiniteSetsExt

CONSTANTS Pages,        \* dashboard pages that show an install command
          Buns,         \* absolute paths the interpreter may be resolved to
          MaxTokens,    \* bound: pairing tokens
          MaxInstalls,  \* bound: runs of install.sh
          Targets,       \* bound: the IMSG_AGENT_TARGETs given, as sequences of agents
          MaxUninstalls, \* bound: runs of uninstall.sh
          MaxMishaps      \* bound: failures and interruptions

ASSUME InstallAssumption ==
  /\ {MaxTokens, MaxInstalls, MaxUninstalls, MaxMishaps} \subseteq Nat /\ 0 \notin Buns
  /\ Targets \subseteq {<<"claude">>, <<"codex">>, <<"claude", "codex">>}

Agents == {"claude", "codex"}
Runs == 1..MaxInstalls

VARIABLES
  minting,  \* page -> its mint request is between the burn and the insert
  tokens,   \* pairing tokens, in order: "live", "locked" (an exchange holds the row), "spent" (used or expired)
  overlap,  \* history: two mints have run at once
  exchange, \* run -> its PAIR request: [pc, token, found]; the device token it is given is the run, void
            \* if the account was deleted since
  devices,  \* the account's rows for this hostname, in order: the device token each answers to
  file, keychain, \* the device token in either store, 0 for none
  script,   \* [does, left, pc, bun, token, paired]: the script that runs, the agents it has left
  installs, uninstalls, mishaps, \* so far
  staged, enabled, aliased, \* agents whose plugin is staged, enabled in the agent, whose rc block is there
  settings, \* Claude's statusLine: [user, ours], the user's own command and the path of ours (0: none)
  backup,   \* settings.json.imsg-backup: a set with at most one saved statusLine
  flag,     \* Codex's plugin_hooks: "none", "ours", "users"
  reverted  \* history: agents whose last script was an uninstall that had its tools

instVars == <<minting, tokens, overlap, exchange, devices, file, keychain, script, installs, uninstalls, mishaps,
              staged, enabled, aliased, settings, backup, flag, reverted>>
runVars == <<installs, uninstalls, mishaps>>
credVars == <<file, keychain>>
serverVars == <<minting, tokens, overlap, exchange, devices>>
diskVars == <<staged, enabled, aliased, settings, backup, flag, reverted>>

Mishap == mishaps < MaxMishaps /\ mishaps' = mishaps + 1

NoScript == [does |-> "nothing", left |-> <<>>, pc |-> "none", bun |-> 0, token |-> 0, paired |-> FALSE]

InstInit ==
  /\ minting = [p \in Pages |-> FALSE] /\ tokens = <<>> /\ overlap = FALSE /\ devices = <<>>
  /\ exchange = [r \in Runs |-> [pc |-> "none", token |-> 0, found |-> 0]]
  /\ file = 0 /\ keychain = 0 /\ script = NoScript /\ installs = 0 /\ uninstalls = 0 /\ mishaps = 0
  /\ staged = {} /\ enabled = {} /\ aliased = {} /\ reverted = {}
  /\ settings = [user |-> TRUE, ours |-> 0] /\ backup = {} /\ flag \in {"none", "users"}

-----------------------------------------------------------------------------
(* The control plane and the dashboard: tokens and device rows. *)

\* Mutant: the new command is added to the old ones.
Burned_none(s) == s

\* What the burn does to a token's row; it waits for a row an exchange has locked.
Burned(s) == "spent"

Burn(p) ==
  /\ ~minting[p] /\ Len(tokens) < MaxTokens /\ ~Contains(tokens, "locked")
  /\ tokens' = [k \in DOMAIN tokens |-> Burned(tokens[k])]
  /\ minting' = [minting EXCEPT ![p] = TRUE]
  /\ overlap' = (overlap \/ \E q \in Pages \ {p} : minting[q])
  /\ UNCHANGED <<exchange, devices, credVars, script, runVars, diskVars>>

Insert(p) ==
  /\ minting[p] /\ Len(tokens) < MaxTokens
  /\ tokens' = Append(tokens, "live") /\ minting' = [minting EXCEPT ![p] = FALSE]
  /\ UNCHANGED <<overlap, exchange, devices, credVars, script, runVars, diskVars>>

TokenExpires(k) ==
  /\ k \in DOMAIN tokens /\ tokens[k] = "live" /\ tokens' = [tokens EXCEPT ![k] = "spent"]
  /\ UNCHANGED <<minting, overlap, exchange, devices, credVars, script, runVars, diskVars>>

Sets(r, pc, found) == exchange' = [exchange EXCEPT ![r].pc = pc, ![r].found = found]

\* PAIR begins: the token's row is locked and marked used, the newest device row is looked up and
\* locked.  Both wait for another exchange's lock.
Lock(r) ==
  LET k == exchange[r].token
  IN /\ exchange[r].pc = "sent" /\ tokens[k] # "locked"
     /\ devices # <<>> => \A q \in Runs : exchange[q].pc = "locked" => exchange[q].found = 0
     /\ IF tokens[k] = "live"
        THEN Sets(r, "locked", Len(devices)) /\ tokens' = [tokens EXCEPT ![k] = "locked"]
        ELSE Sets(r, "refused", 0) /\ UNCHANGED tokens
     /\ UNCHANGED <<minting, overlap, devices, credVars, script, runVars, diskVars>>

\* PAIR commits: the row it found answers to the new token from now on, or there is a new row.
Commit(r) ==
  LET x == exchange[r]
  IN /\ x.pc = "locked" /\ Sets(r, "paired", x.found) /\ tokens' = [tokens EXCEPT ![x.token] = "spent"]
     /\ devices' = IF x.found = 0 THEN Append(devices, r) ELSE [devices EXCEPT ![x.found] = r]
     /\ UNCHANGED <<minting, overlap, credVars, script, runVars, diskVars>>

\* PAIR rolls back.
Abort(r) ==
  LET x == exchange[r]
  IN /\ x.pc = "locked" /\ Sets(r, "refused", 0) /\ tokens' = [tokens EXCEPT ![x.token] = "live"]
     /\ Mishap /\ UNCHANGED <<minting, overlap, devices, credVars, script, installs, uninstalls, diskVars>>

-----------------------------------------------------------------------------
(* install.sh. *)

Stops == script' = NoScript
Agent == Head(script.left)
Step(does, pc) == script.does = does /\ script.pc = pc

\* The script starts, with a token of the dashboard or with none; a run without the Codex CLI
\* skips that agent.
StartInstall(target, bun, token, codexCli) ==
  LET left == IF codexCli THEN target ELSE IF Contains(target, "claude") THEN <<"claude">> ELSE <<>>
  IN /\ script = NoScript /\ installs < MaxInstalls /\ installs' = installs + 1 /\ left # <<>>
     /\ script' = [NoScript EXCEPT !.does = "install", !.left = left, !.pc = "stage", !.bun = bun, !.token = token]
     /\ reverted' = reverted \ ToSet(left)
     /\ UNCHANGED <<serverVars, credVars, uninstalls, mishaps, staged, enabled, aliased, settings, backup, flag>>

\* The plugin's tree is replaced (Claude's registration goes first); bun install may fail.
Stage(ok) ==
  /\ Step("install", "stage") /\ staged' = staged \cup {Agent}
  /\ enabled' = enabled \ (IF Agent = "claude" THEN {"claude"} ELSE {})
  /\ IF ok THEN script' = [script EXCEPT !.pc = "configure"] /\ UNCHANGED mishaps ELSE Stops /\ Mishap
  /\ UNCHANGED <<serverVars, credVars, installs, uninstalls, aliased, settings, backup, flag, reverted>>

\* Mutant: every run saves the settings it finds.
Saved_always(old, line) == {line}

\* The backup is taken only when there is none.
Saved(old, line) == IF old = {} THEN {line} ELSE old

\* The wrap-chain: the command found is kept in front of ours, unless it holds ours under a path
\* that is not the one looked for.
Wrapped(line, bun) == [user |-> line.user /\ line.ours \in {0, bun}, ours |-> bun]

\* The agent is told of the plugin, as far as its CLI obliges; then settings.json or config.toml.
Configure(works) ==
  /\ Step("install", "configure") /\ script' = [script EXCEPT !.pc = "pair"]
  /\ IF Agent = "claude"
     THEN /\ enabled' = IF works THEN enabled \cup {"claude"} ELSE enabled
          /\ backup' = Saved(backup, settings) /\ settings' = Wrapped(settings, script.bun)
          /\ UNCHANGED flag
     ELSE /\ enabled' = enabled \cup {"codex"} /\ flag' = (IF flag = "none" THEN "ours" ELSE flag)
          /\ UNCHANGED <<backup, settings>>
  /\ UNCHANGED <<serverVars, credVars, runVars, staged, aliased, reverted>>

\* pair_device: once in a run, and not without a token.
SkipPair ==
  /\ Step("install", "pair") /\ (script.paired \/ script.token = 0) /\ script' = [script EXCEPT !.pc = "alias"]
  /\ UNCHANGED <<serverVars, credVars, runVars, diskVars>>
SendPair ==
  /\ Step("install", "pair") /\ ~script.paired /\ script.token # 0
  /\ script' = [script EXCEPT !.pc = "answer"]
  /\ exchange' = [exchange EXCEPT ![installs] = [pc |-> "sent", token |-> script.token, found |-> 0]]
  /\ UNCHANGED <<minting, tokens, overlap, devices, credVars, runVars, diskVars>>

\* saveToken: the file is always written, then the keychain if it lets itself be written.
Saves(token, keychainWorks) ==
  /\ file' = token
  /\ IF keychainWorks THEN keychain' = token /\ UNCHANGED mishaps ELSE Mishap /\ UNCHANGED keychain

\* The answer carries the device token.
Paired(keychainWorks) ==
  /\ Step("install", "answer") /\ exchange[installs].pc \in {"paired", "void"}
  /\ script' = [script EXCEPT !.pc = "alias", !.paired = TRUE]
  /\ Saves(installs, keychainWorks)
  /\ UNCHANGED <<serverVars, installs, uninstalls, diskVars>>

\* A refusal, a time-out or a lost answer ends the script there; the request may still be served.
PairFails ==
  /\ Step("install", "answer") /\ Stops
  /\ IF exchange[installs].pc = "refused" THEN UNCHANGED mishaps ELSE Mishap
  /\ UNCHANGED <<serverVars, credVars, installs, uninstalls, diskVars>>

\* The agent's block in the shell's rc files, then the next agent.
Alias ==
  /\ Step("install", "alias") /\ aliased' = aliased \cup {Agent}
  /\ IF Len(script.left) = 1 THEN Stops ELSE script' = [script EXCEPT !.left = Tail(@), !.pc = "stage"]
  /\ UNCHANGED <<serverVars, credVars, runVars, staged, enabled, settings, backup, flag, reverted>>

-----------------------------------------------------------------------------
(* uninstall.sh, and the CLI's answer to a token that is no longer known. *)

StartUninstall(target) ==
  /\ script = NoScript /\ uninstalls < MaxUninstalls /\ uninstalls' = uninstalls + 1
  /\ script' = [NoScript EXCEPT !.does = "uninstall", !.left = target, !.pc = "revert"]
  /\ UNCHANGED <<serverVars, credVars, installs, mishaps, diskVars>>

\* One agent: its alias block, its registration, its settings or flags, its tree.  Without bun the
\* block and config.toml are left to the person, without the agent's CLI the registration.
Revert(bun, cli) ==
  /\ Step("uninstall", "revert") /\ staged' = staged \ {Agent}
  /\ aliased' = IF bun THEN aliased \ {Agent} ELSE aliased
  /\ enabled' = IF cli \/ (bun /\ Agent = "codex") THEN enabled \ {Agent} ELSE enabled
  /\ IF Agent = "claude"
     THEN /\ settings' = IF backup = {} THEN settings ELSE CHOOSE line \in backup : TRUE
          /\ backup' = {} /\ UNCHANGED flag
     ELSE flag' = (IF bun THEN "none" ELSE flag) /\ UNCHANGED <<settings, backup>>
  /\ reverted' = IF bun /\ cli THEN reverted \cup {Agent} ELSE reverted
  /\ script' = IF Len(script.left) = 1 THEN [script EXCEPT !.pc = "remove"] ELSE [script EXCEPT !.left = Tail(@)]
  /\ UNCHANGED <<serverVars, credVars, runVars>>

\* The device directory goes, whatever the target, and the token's file with it; not the keychain.
RemoveState ==
  /\ Step("uninstall", "remove") /\ Stops /\ file' = 0
  /\ UNCHANGED <<serverVars, keychain, runVars, diskVars>>

\* A script is interrupted between two steps.
Interrupt ==
  /\ script # NoScript /\ script.pc # "answer" /\ Stops /\ Mishap
  /\ UNCHANGED <<serverVars, credVars, installs, uninstalls, diskVars>>

Known(token) == Contains(devices, token)
Loaded == IF keychain # 0 THEN keychain ELSE file

\* clearToken.
Clears == file' = 0 /\ keychain' = 0

\* syncState: a 401 for the token in use clears both stores.
SyncHalts ==
  /\ Loaded # 0 /\ ~Known(Loaded) /\ Clears
  /\ UNCHANGED <<serverVars, script, runVars, diskVars>>

InstNext ==
  \/ \E target \in Targets : \/ StartUninstall(target)
                             \/ \E bun \in Buns, token \in 0..Len(tokens), codexCli \in BOOLEAN :
                                  StartInstall(target, bun, token, codexCli)
  \/ \E ok \in BOOLEAN : Stage(ok) \/ Configure(ok) \/ Paired(ok)
  \/ SkipPair \/ SendPair \/ PairFails \/ Alias \/ RemoveState \/ Interrupt \/ SyncHalts
  \/ \E bun, cli \in BOOLEAN : Revert(bun, cli)
  \/ \E r \in Runs : Lock(r) \/ Commit(r) \/ Abort(r)
  \/ \E k \in DOMAIN tokens : TokenExpires(k)
  \/ \E p \in Pages : Burn(p) \/ Insert(p)
=============================================================================
