------------------------ MODULE MCRateLimiterClients ------------------------
(* One token with two limited categories and a disabled one. *)
EXTENDS RateLimiterClients

CONSTANTS t1
=============================================================================
