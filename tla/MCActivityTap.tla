----------------------------- MODULE MCActivityTap ----------------------------
(***************************************************************************)
(* A transcript of two lines that yield one row each; two taps at once.    *)
(***************************************************************************)
EXTENDS ActivityTap
CONSTANTS p1, p2
MCKind == <<"text", "tool_use">>
=============================================================================
