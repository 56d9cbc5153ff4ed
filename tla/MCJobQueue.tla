----------------------------- MODULE MCJobQueue -----------------------------
(* Small instances of JobQueue.  Each cfg chooses the jobs by picking one   *)
(* of the tables below for Kind, Payer and Source.                         *)
EXTENDS JobQueue

CONSTANTS j1, j2, j3, w1, w2, org, user, inst

OneEach == [lane \in Lanes |-> 1]
TwoEach == [lane \in Lanes |-> 2]

AllScans == [j \in Jobs |-> "scan"]
MixedKinds == [j \in Jobs |-> CASE j = j1 -> "parity" [] j = j2 -> "upload"
                                [] OTHER -> "prospect"]

\* All billed jobs charged to one account.
OnePayer == [j \in Jobs |-> org]
ScansPaid == [j \in Jobs |-> IF Kind[j] = "prospect" THEN None ELSE org]

Independent == [j \in Jobs |-> None]
FirstLinked == [j \in Jobs |-> IF j = j1 THEN inst ELSE None]
=============================================================================
