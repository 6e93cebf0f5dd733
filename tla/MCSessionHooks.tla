---------------------------- MODULE MCSessionHooks ----------------------------
(***************************************************************************)
(* Two taps at once; the first message's title, then a /rename.            *)
(***************************************************************************)
EXTENDS SessionHooks
CONSTANTS h1, h2
Lines == <<1, 3>>
=============================================================================
