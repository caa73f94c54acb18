------------------------------- MODULE MCWebhook -------------------------------
(***************************************************************************)
(* Instances of Webhook for TLC.                                           *)
(***************************************************************************)
EXTENDS Webhook, TLC

\* No property names a handler or a delivery.  A run of a liveness property does
\* without.
Symmetry == Permutations(Handlers) \cup Permutations(Deliveries)
=============================================================================
