---------------------------- MODULE MCUsageWatch ----------------------------
(* Small instances of UsageWatch. *)
EXTENDS UsageWatch
=============================================================================
