----------------------------- MODULE MCBilling -----------------------------
(* Small instances of Billing; no symmetry, since a run checks liveness.    *)
EXTENDS Billing
=============================================================================
