----------------------------- MODULE MCGateway -----------------------------
(* Small instances of Gateway.                                              *)
EXTENDS Gateway

\* One route of every sequence of steps and checks.
RoutesOfEachKind ==
    {"v1Write", "v2", "keyWrite", "cancel", "billing", "team", "signup", "login", "refresh",
     "webhookRecord"}
=============================================================================
