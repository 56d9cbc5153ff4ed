------------------------------ MODULE JobPromise ------------------------------
(***************************************************************************)
(* What the hosted job queue promises to those who submit jobs and to those *)
(* who pay for them: a job is accepted once, is in the hands of at most one *)
(* worker at a time, and once it is over it stays over; the lanes never     *)
(* hold more jobs than they have room for; a job is on the books of at most *)
(* one day, a new charge is for today and within an allowance, and no       *)
(* billed job is in a worker's hands without having been charged.           *)
(* No rows, leases, heartbeats, counters or processes: JobQueue implements  *)
(* this specification.                                                     *)
(***************************************************************************)
EXTENDS Naturals, FiniteSets

CONSTANTS
    Jobs, Workers, None,
    LaneOf,       \* the lane of each job
    Room,         \* how many jobs a lane holds
    Paid,         \* the jobs somebody pays for
    Payer,        \* who pays for a job
    Allowances    \* the daily allowances of the plans

VARIABLES
    phase,    \* phase[j]: "absent", "waiting", "held" or "over"
    holder,   \* holder[j]: the worker that holds j
    charge,   \* charge[j]: the day j is charged for, 0 for none
    today

vars == <<phase, holder, charge, today>>

Init ==
    /\ phase = [j \in Jobs |-> "absent"]
    /\ holder = [j \in Jobs |-> None]
    /\ charge = [j \in Jobs |-> 0]
    /\ today = 1

Held(lane) == {j \in Jobs : phase[j] = "held" /\ LaneOf[j] = lane}
ChargedFor(p, d) == {j \in Jobs : Payer[j] = p /\ charge[j] = d}

\* A billed job goes on today's books unless it is on those of some day.
Charge(j) ==
    IF j \in Paid /\ charge[j] = 0
    THEN /\ \E limit \in Allowances :
               Cardinality(ChargedFor(Payer[j], today)) < limit
         /\ charge' = [charge EXCEPT ![j] = today]
    ELSE UNCHANGED charge

Submit(j) ==
    /\ phase[j] = "absent"
    /\ phase' = [phase EXCEPT ![j] = "waiting"]
    /\ Charge(j)
    /\ UNCHANGED <<holder, today>>

Take(w, j) ==
    /\ phase[j] = "waiting"
    /\ Cardinality(Held(LaneOf[j])) < Room[LaneOf[j]]
    /\ phase' = [phase EXCEPT ![j] = "held"]
    /\ holder' = [holder EXCEPT ![j] = w]
    /\ Charge(j)
    /\ UNCHANGED today

\* The jobs of S leave the hands that hold them.
Leave(S, to) ==
    /\ phase' = [j \in Jobs |-> IF j \in S THEN to ELSE phase[j]]
    /\ holder' = [j \in Jobs |-> IF j \in S THEN None ELSE holder[j]]

GiveBack(S) ==
    /\ \A j \in S : phase[j] = "held"
    /\ Leave(S, "waiting")
    /\ UNCHANGED <<charge, today>>

Close(S) ==
    /\ \A j \in S : phase[j] \in {"waiting", "held"}
    /\ Leave(S, "over")
    /\ UNCHANGED <<charge, today>>

Refund(j) ==
    /\ charge' = [charge EXCEPT ![j] = 0]
    /\ UNCHANGED <<phase, holder, today>>

\* Nobody has the job yet: it is closed and its charge given back.
Cancel(j) ==
    /\ phase[j] = "waiting"
    /\ Leave({j}, "over")
    /\ charge' = [charge EXCEPT ![j] = 0]
    /\ UNCHANGED today

NextDay ==
    /\ today' = today + 1
    /\ UNCHANGED <<phase, holder, charge>>

Next ==
    \/ \E j \in Jobs : Submit(j) \/ Refund(j) \/ Cancel(j)
    \/ \E w \in Workers, j \in Jobs : Take(w, j)
    \/ \E S \in SUBSET Jobs : GiveBack(S) \/ Close(S)
    \/ NextDay

Spec == Init /\ [][Next]_vars
=============================================================================
