---------------------------- MODULE MCSettlement ----------------------------
(* Settlement with sessions, and partners, that are interchangeable: they all  *)
(* start alike, and nothing orders them.                                       *)
EXTENDS Settlement, TLC

Symmetry == Permutations(Sessions) \cup Permutations(Partners) \cup Permutations(Admins)
=============================================================================
