------------------------------- MODULE Enrollment -------------------------------
(***************************************************************************)
(* From the first visit to a paired machine: the wizard links the phone    *)
(* (Onboarding), its last step and the Integrations page mint the install  *)
(* command a machine is put under the account with (Installation), and     *)
(* deleting the account takes both away.                                   *)
(***************************************************************************)
EXTENDS Onboarding, Installation

enrollVars == <<onbVars, instVars>>

EnrollInit == OnbInit /\ InstInit

\* The onboarding step's card, and Integrations once the wizard is left.
PageOpen(p) ==
  signedIn /\ \E t \in Tabs : tab[t].step = IF p \in Tabs THEN "install" ELSE "home"

Busy == script # NoScript \/ (\E p \in Pages : minting[p]) \/ \E r \in Runs : exchange[r].pc \in {"sent", "locked"}
Begun == tokens # <<>> \/ installs > 0 \/ Busy

\* Bounds: a machine is first set up where the first code linked the phone, and later on while the
\* wizard is done with or nobody is signed in.
FirstTry == Verified /\ rows = 1 /\ Cardinality(Minted) = 1
SetsUp == texts = {} /\ (Begun \/ FirstTry) /\ (~signedIn \/ \E t \in Tabs : tab[t].step \in {"install", "home"})

\* Bounds: once a machine was set up the person does one thing at a time, and in the wizard nobody
\* signs out without deleting the account and no request fails.
Calm == ~Busy /\ (Begun => (signedIn => signedIn') /\ \A t \in Tabs : tab'[t].step # "error")

Installs ==
  /\ InstNext /\ UNCHANGED onbVars /\ (SetsUp \/ Busy \/ (Loaded # 0 /\ Clears))
  /\ \A p \in Pages : minting'[p] => minting[p] \/ PageOpen(p)

\* The delete route waits for the rows an exchange has locked, and takes the account's pairing
\* tokens and device rows with the account's row; a mint between its statements fails.
Deletes ==
  /\ \E t \in Tabs : DeleteAccount(t)
  /\ ~Contains(tokens, "locked") /\ devices' = <<>>
  /\ exchange' = [r \in Runs |-> IF exchange[r].pc = "paired" THEN [exchange[r] EXCEPT !.pc = "void"]
                                                              ELSE exchange[r]]
  /\ tokens' = [k \in DOMAIN tokens |-> "spent"] /\ minting' = [p \in Pages |-> FALSE]
  /\ UNCHANGED <<overlap, credVars, script, runVars, diskVars>>

EnrollNext ==
  \/ OnbNext /\ Calm /\ UNCHANGED instVars
  \/ Installs \/ Deletes

\* The wizard polls for as long as it shows the link.
EnrollFairness == \A t \in Tabs : WF_enrollVars(Poll(t) /\ UNCHANGED instVars)
EnrollSpec == EnrollInit /\ [][EnrollNext]_enrollVars /\ EnrollFairness
-----------------------------------------------------------------------------
(* Properties. *)

\* Once the texted code has bound the phone for good, every tab that shows the link, or comes to
\* show it, goes on by itself: none waits for the person to confirm (onboarding/page.tsx).
WizardFollows ==
  (<>[](Linked /\ signedIn)) => <>[](\A t \in Tabs : tab[t].step \notin {"link", "confirm"})

\* One machine is one device row however its exchanges are lost, given up, repeated and still
\* running (repo.ts), as long as no two install commands are minted at the same time.
OneCard == overlap \/ Len(devices) <= 1

\* "reverts everything install.sh did" (uninstall.sh), for the agents it is told of and with its
\* tools there: after any sequence of whole, failed and interrupted installs.
Reverts ==
  \A a \in reverted : /\ a \notin staged \cup enabled \cup aliased
                      /\ a = "claude" => settings.ours = 0
                      /\ a = "codex" => flag # "ours"

\* A token the device reads and the control plane does not know was rotated away by a newer
\* exchange whose answer the device has not stored, or not in the keychain, or its account was
\* deleted since it was given: an exchange that was given up never takes the row from a later one,
\* as long as no two mints run at once.
Recognised ==
  \/ overlap \/ Loaded = 0 \/ Known(Loaded) \/ exchange[Loaded].pc = "void"
  \/ \E r \in Runs : r > Loaded /\ exchange[r].pc = "paired"
=============================================================================
