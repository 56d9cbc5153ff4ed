----------------------------- MODULE MCSourceWatch -----------------------------
(* A small instance of SourceWatch.                                         *)
EXTENDS SourceWatch, TLC

CONSTANTS c1, c2, w1

\* Checkers are interchangeable.
WatchSymmetry == Permutations(Checkers)

\* Bound: the first check of version 1 after its connection begins when its scan
\* has found no token.
ChecksAfterAlert ==
    \A c \in Checkers : check[c].at \in {"listed", "fetched"} => missed[1] = "tokenless"
=============================================================================
