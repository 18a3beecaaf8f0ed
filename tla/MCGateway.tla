----------------------------- MODULE MCGateway -----------------------------
(* Gateway on small sets: one charger whose two connections overlap.        *)
EXTENDS Gateway

CONSTANTS i1, c1, c2, k1

MCIdentityOf == [c \in Conns |-> i1]
=============================================================================
