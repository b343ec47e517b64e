----------------------------- MODULE MCGateway -----------------------------
(* Instances of Gateway for TLC. *)
EXTENDS Gateway, TLC

CONSTANTS x1, i1, i2, s1, s2

Alike == Permutations(Sales) \cup Permutations(Intents) \cup Permutations(Slots)
=============================================================================
