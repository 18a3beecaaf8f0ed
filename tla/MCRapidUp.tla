----------------------------- MODULE MCRapidUp -----------------------------
\* RapidUp with interchangeable dashboard requests.
EXTENDS RapidUp, TLC

CONSTANTS r1, r2, d1, d2, q1, q2    \* model values

Alike == Permutations(Requests) \cup Permutations(Devices) \cup Permutations(Rollouts)
=============================================================================
