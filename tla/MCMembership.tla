----------------------------- MODULE MCMembership -----------------------------
(* Small instances of Membership.                                           *)
EXTENDS Membership, TLC

CONSTANTS u1, u2, u3

\* Users are interchangeable.
UserSymmetry == Permutations(Users)
=============================================================================
