-------------------------- MODULE MCWebhookOutbox --------------------------
(***************************************************************************)
(* Small instances of WebhookOutbox for TLC.                               *)
(***************************************************************************)
EXTENDS WebhookOutbox, TLC

CONSTANTS d1, d2, d3, t1, t2

\* Two rows of one destination and one of another.
TwoDests == (d1 :> t1) @@ (d2 :> t1) @@ (d3 :> t2)

=============================================================================
