--------------------------- MODULE MCGamification ---------------------------
(* Two requests of one user over four days, symmetric in the requests. *)
EXTENDS Gamification, TLC

Symmetric == Permutations(Handlers)
=============================================================================
