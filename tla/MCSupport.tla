----------------------------- MODULE MCSupport -----------------------------
EXTENDS Support, TLC

\* Tasks of a process and ticket ids are interchangeable.
Symmetric == Permutations(BotTasks) \cup Permutations(WebTasks) \cup Permutations(Tickets)
=============================================================================
