----------------------------- MODULE MCWebhooks -----------------------------
(* A small outbox for TLC. *)
EXTENDS Webhooks

CONSTANTS g1, g2

\* A bust-out and an ending in one game, only heartbeats in the other.
OneTold == (g1 :> 2) @@ (g2 :> 0)
=============================================================================
