------------------------------- MODULE Onboarding -------------------------------
(***************************************************************************)
(* How one person's phone is linked: the wizard's tabs (onboarding/page),  *)
(* the dashboard's routes behind them, and the texted code the control     *)
(* plane consumes (orchestrate, repo.ts).  One email, one phone, one       *)
(* browser; a route is one step from its session check to the answer the   *)
(* tab receives, but for the start route, whose burn and insert are two    *)
(* statements.  What the replies say is left out, and the confirm  *)
(* button with its route, which page.tsx:19-20 calls unreachable.          *)
(***************************************************************************)
EXTENDS Integers, FiniteSets, FiniteSetsExt

CONSTANTS Tabs,
          MaxCodes,  \* bound: onboarding codes minted
          MaxDeletes \* bound: times the account is deleted

ASSUME OnboardingAssumption == {MaxCodes, MaxDeletes} \subseteq Nat

VARIABLES
  account, \* id of the email's accounts row, 0 when there is none
  rows,    \* rows ever inserted: the last id
  gate,    \* that row's access_status and requested_phone: "pending", "requested", "approved"
  pool,    \* agent_numbers has an active row
  number,  \* accounts.agent_number_id is set
  codes,   \* code -> its row: [owner, here, state], minted in the browser's present session or an
           \* older one, state one of "none", "live", "used", "expired", "gone"
  phone,   \* the phone's conversations row: [owner, verified], owner 0 when there is none
  texts,   \* codes texted in and not yet dealt with: pairs of a code and "sent" or "consuming"
  signedIn,
  tab      \* tab -> [step, call, code]: what it shows, the request in flight, the code in its link

onbVars == <<account, rows, gate, pool, number, codes, phone, texts, signedIn, tab>>

Codes == 1..MaxCodes
Closed == [step |-> "closed", call |-> "none", code |-> 0]
Shows(t, step) == tab' = [tab EXCEPT ![t] = [Closed EXCEPT !.step = step]]

OnbInit ==
  /\ account = 0 /\ rows = 0 /\ gate = "pending" /\ pool \in BOOLEAN /\ number = FALSE
  /\ codes = [c \in Codes |-> [owner |-> 0, here |-> FALSE, state |-> "none"]]
  /\ phone = [owner |-> 0, verified |-> FALSE] /\ texts = {} /\ signedIn = TRUE
  /\ tab = [t \in Tabs |-> Closed]

Linked == phone.owner # 0
Verified == phone.owner # 0 /\ phone.owner = account /\ phone.verified
Minted == {c \in Codes : codes[c].state # "none"}

-----------------------------------------------------------------------------
(* The dashboard. *)

\* access_status as requireAccount reads it.
GateRead == IF account = 0 THEN "pending" ELSE gate

\* ensureAccount: every route begins by upserting the row of the session's email, and gives it
\* an agent number if the pool has one; the route leaves the gate at the given value.
Ensures(access) ==
  /\ account' = IF account = 0 THEN rows + 1 ELSE account
  /\ rows' = IF account = 0 THEN rows + 1 ELSE rows
  /\ number' = (pool \/ (account # 0 /\ number)) /\ gate' = access
EnsureAccount == Ensures(GateRead)

\* A tab opens on the wizard, or is reloaded: the session is read, the status asked for.
Open(t) ==
  /\ tab[t].call = "none"
  /\ IF signedIn THEN tab' = [tab EXCEPT ![t] = [Closed EXCEPT !.step = "boot", !.call = "status"]]
                 ELSE Shows(t, "sign-in")
  /\ UNCHANGED <<account, rows, gate, pool, number, codes, phone, texts, signedIn>>

\* boot: where the person belongs.
BootStatus(t) ==
  /\ tab[t].call = "status" /\ EnsureAccount
  /\ CASE Verified -> Shows(t, "home")
       [] ~Verified /\ gate' # "approved" -> Shows(t, IF gate' = "requested" THEN "requested" ELSE "gate")
       [] ~Verified /\ gate' = "approved" /\ Linked /\ phone.owner = account' -> Shows(t, "confirm")
       [] OTHER -> tab' = [tab EXCEPT ![t].call = "start"]
  /\ UNCHANGED <<pool, codes, phone, texts, signedIn>>

\* The start route: no number, no code; otherwise the account's unused codes of this session are
\* burned ...
StartBurns(t) ==
  /\ tab[t].call = "start" /\ EnsureAccount
  /\ IF number'
     THEN /\ codes' = [c \in Codes |-> IF codes[c] \in [owner : {account}, here : {TRUE}, state : {"live", "expired"}]
                                       THEN [codes[c] EXCEPT !.state = "used"] ELSE codes[c]]
          /\ tab' = [tab EXCEPT ![t].call = "insert", ![t].code = account']
     ELSE Shows(t, "error") /\ UNCHANGED codes
  /\ UNCHANGED <<pool, phone, texts, signedIn>>

\* ... and a new one is inserted, if its account still is there; the tab shows the deep link.
StartInserts(t) ==
  /\ tab[t].call \in {"insert", "old insert"} /\ Cardinality(Minted) < MaxCodes
  /\ IF tab[t].code = account
     THEN LET c == Cardinality(Minted) + 1
          IN /\ codes' = [codes EXCEPT ![c] = [owner |-> account, here |-> tab[t].call = "insert", state |-> "live"]]
             /\ tab' = [tab EXCEPT ![t] = [step |-> "link", call |-> "none", code |-> c]]
     ELSE Shows(t, "error") /\ UNCHANGED codes
  /\ UNCHANGED <<account, rows, gate, pool, number, phone, texts, signedIn>>

\* A request of the boot fails on the way.
BootFails(t) ==
  /\ tab[t].call \in {"status", "start"} /\ Shows(t, "error")
  /\ UNCHANGED <<account, rows, gate, pool, number, codes, phone, texts, signedIn>>

\* The session object changes under the boot: the request is aborted, and the effect that runs
\* again returns at its bootStartedRef.
BootAborted(t) ==
  /\ tab[t].call \in {"status", "start"} /\ Shows(t, "boot")
  /\ UNCHANGED <<account, rows, gate, pool, number, codes, phone, texts, signedIn>>

\* The poll of a tab that shows the link; one that fails changes nothing.
Poll(t) ==
  /\ tab[t].step = "link" /\ signedIn /\ EnsureAccount
  /\ CASE Verified -> Shows(t, "install")
       [] ~Verified /\ Linked /\ phone.owner = account -> Shows(t, "confirm")
       [] OTHER -> UNCHANGED tab
  /\ UNCHANGED <<pool, codes, phone, texts, signedIn>>

\* The invite gate's form; an approved account is not sent back.
RequestAccess(t) ==
  /\ tab[t].step = "gate" /\ signedIn /\ Shows(t, "requested")
  /\ Ensures(IF GateRead = "pending" THEN "requested" ELSE gate)
  /\ UNCHANGED <<pool, codes, phone, texts, signedIn>>

\* "Next" after the install step.
GoHome(t) ==
  /\ tab[t].step = "install" /\ Shows(t, "home")
  /\ UNCHANGED <<account, rows, gate, pool, number, codes, phone, texts, signedIn>>

\* The account menu of any page: sign out, or the settings and their delete route.  The session ends,
\* and what other tabs have under way is an older session's.
LeavesSession(t) ==
  /\ signedIn /\ tab[t].call = "none" /\ tab[t].step \notin {"closed", "sign-in"} /\ signedIn' = FALSE
  /\ tab' = [u \in Tabs |-> IF u = t THEN [Closed EXCEPT !.step = "sign-in"]
                            ELSE IF tab[u].call = "insert" THEN [tab[u] EXCEPT !.call = "old insert"] ELSE tab[u]]

SignOut(t) ==
  /\ LeavesSession(t) /\ codes' = [c \in Codes |-> [codes[c] EXCEPT !.here = FALSE]]
  /\ UNCHANGED <<account, rows, gate, pool, number, phone, texts>>

\* The delete route: the row goes and its conversations and codes with it; the session too.
DeleteAccount(t) ==
  /\ LeavesSession(t) /\ account # 0 /\ rows <= MaxDeletes
  /\ account' = 0 /\ number' = FALSE
  /\ codes' = [c \in Codes |-> [owner |-> 0, here |-> FALSE,
                                state |-> IF codes[c].owner = account THEN "gone" ELSE codes[c].state]]
  /\ phone' = IF phone.owner = account THEN [owner |-> 0, verified |-> FALSE] ELSE phone
  /\ UNCHANGED <<rows, gate, pool, texts>>

SignIn == ~signedIn /\ signedIn' = TRUE
          /\ UNCHANGED <<account, rows, gate, pool, number, codes, phone, texts, tab>>

\* The operator: approves the account, and seeds the pool.
Approve ==
  /\ account # 0 /\ gate # "approved" /\ gate' = "approved"
  /\ UNCHANGED <<account, rows, pool, number, codes, phone, texts, signedIn, tab>>
SeedPool ==
  /\ ~pool /\ pool' = TRUE
  /\ UNCHANGED <<account, rows, gate, number, codes, phone, texts, signedIn, tab>>

-----------------------------------------------------------------------------
(* The control plane. *)

\* The person sends the message a tab's link has prefilled.
Text(t) ==
  /\ tab[t].step = "link" /\ texts' = texts \cup {<<tab[t].code, "sent">>}
  /\ UNCHANGED <<account, rows, gate, pool, number, codes, phone, signedIn, tab>>

Expire(c) ==
  /\ codes[c].state = "live" /\ codes' = [codes EXCEPT ![c].state = "expired"]
  /\ UNCHANGED <<account, rows, gate, pool, number, phone, texts, signedIn, tab>>

\* findAccountByPhone.
VerifiedSender == Linked /\ phone.verified

\* The code extractOnboardingToken finds in a text, on its way to the transaction.
Extracted(c) == {<<c, "consuming">>}

\* orchestrate: a verified sender's text is a turn like any other, another's may hold a code.
Looks(c) ==
  /\ <<c, "sent">> \in texts
  /\ texts' = (texts \ {<<c, "sent">>}) \cup (IF VerifiedSender THEN {} ELSE Extracted(c))
  /\ UNCHANGED <<account, rows, gate, pool, number, codes, phone, signedIn, tab>>

\* Mutant: the number is bound, and left for the person to confirm.
Binds_unverified(owner) == [owner |-> owner, verified |-> FALSE]

\* The insert of the conversation, and what it does to a row the phone already has.
Binds(owner) == [owner |-> owner, verified |-> TRUE]

\* consumeOnboardingTokenAndLinkNumber, one transaction under the code's row lock.
Consumes(c) ==
  /\ <<c, "consuming">> \in texts /\ texts' = texts \ {<<c, "consuming">>}
  /\ IF codes[c].state = "live"
     THEN codes' = [codes EXCEPT ![c].state = "used"] /\ phone' = Binds(codes[c].owner)
     ELSE UNCHANGED <<codes, phone>>
  /\ UNCHANGED <<account, rows, gate, pool, number, signedIn, tab>>

OnbNext ==
  \/ SignIn \/ Approve \/ SeedPool
  \/ \E c \in Codes : Expire(c) \/ Looks(c) \/ Consumes(c)
  \/ \E t \in Tabs : \/ Open(t) \/ BootStatus(t) \/ StartBurns(t) \/ StartInserts(t) \/ BootFails(t)
                     \/ BootAborted(t) \/ Poll(t) \/ RequestAccess(t) \/ GoHome(t)
                     \/ Text(t) \/ SignOut(t)
=============================================================================
