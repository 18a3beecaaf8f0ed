---------------------------- MODULE MCOtaUpdate ----------------------------
\* OtaUpdate with a rollout for both chargers and one for the first only.
EXTENDS OtaUpdate, TLC

CONSTANTS r1, r2, c1, c2    \* model values

BothAndOne == r1 :> {c1, c2} @@ r2 :> {c1}
=============================================================================
