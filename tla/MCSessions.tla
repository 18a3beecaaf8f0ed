----------------------------- MODULE MCSessions -----------------------------
(* ChargingSessions with customers that are interchangeable: a booking and a  *)
(* session only remember which customer they are for.                          *)
EXTENDS ChargingSessions, TLC

Symmetry == Permutations(Customers)
=============================================================================
