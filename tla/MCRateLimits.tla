---------------------------- MODULE MCRateLimits ----------------------------
(* A small instance of RateLimits. *)
EXTENDS RateLimits
=============================================================================
