------------------------------ MODULE MCGrants ------------------------------
(* Small instances of Grants: the handlers of a process are interchangeable. *)
EXTENDS Grants, TLC

Symmetric == Permutations(BotHandlers) \cup Permutations(WebHandlers)
=============================================================================
