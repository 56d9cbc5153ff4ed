--------------------------- MODULE MCStripeBilling ---------------------------
(* A small instance of StripeBilling.                                       *)
EXTENDS StripeBilling, TLC

CONSTANTS s1, s2

\* Subscriptions are interchangeable; used where no liveness is checked.
SubSymmetry == Permutations(Subs)
=============================================================================
