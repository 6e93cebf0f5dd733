----------------------------- MODULE MCEnrollment -----------------------------
(***************************************************************************)
(* One tab, the Integrations page, and a machine with both agents.         *)
(***************************************************************************)
EXTENDS Enrollment
CONSTANTS t1, integrations
Both == {<<"claude", "codex">>}
=============================================================================
