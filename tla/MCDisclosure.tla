----------------------------- MODULE MCDisclosure -----------------------------
(* Small instances of Disclosure.                                           *)
EXTENDS Disclosure, TLC

CONSTANTS p1, p2, o1, o2

\* All prospects belong to one owner.
OneOwner == [p \in Prospects |-> Prospects \ {p}]

\* Operators are interchangeable.
DeskSymmetry == Permutations(Operators)
=============================================================================
