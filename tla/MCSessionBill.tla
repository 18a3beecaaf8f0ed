--------------------------- MODULE MCSessionBill ---------------------------
\* SessionBill with two MeterValues events at once, which are alike.
EXTENDS SessionBill, TLC

CONSTANTS m1, m2    \* model values of Meters

Symmetry == Permutations(Meters)
=============================================================================
