--------------------------- MODULE ProductionParity ---------------------------
(***************************************************************************)
(* Production observations (production-parity-service.ts and -worker.ts):   *)
(* an administrator asks for one look at the deployed site of a workspace,  *)
(* and a worker takes it while the reference, the origin, the access of the *)
(* administrator, the lease of the job and the observation itself change.   *)
(*                                                                         *)
(* A workspace with one stream and one origin.  Each transaction here locks *)
(* the workspace first and is one action; the network work lies between     *)
(* Prepare and Complete.  What the reservation of the job does is JobQueue's *)
(* matter.  A worker process runs several handlers at a time, and the lock   *)
(* of a job names the process only.                                        *)
(***************************************************************************)
EXTENDS Naturals, FiniteSets

CONSTANTS
    Observations,   \* requests for an observation
    Workers,        \* worker processes
    Handlers,       \* the places for handlers that the processes have
    Process,        \* Process[h]: the worker whose place h is
    MaxAttempts,    \* attempts of a job
    MaxFaults       \* bound: crashes, stalls, database errors

ASSUME ParityAssumption ==
    /\ MaxAttempts \in Nat \ {0} /\ MaxFaults \in Nat /\ IsFiniteSet(Observations)
    /\ Process \in [Handlers -> Workers]

None == "none"
ASSUME NoneAssumption == None \notin Workers \cup Observations

VARIABLES
    usable,      \* whether the stream's newest baseline row adopts evidence that
                 \* is not excluded, and the origin is verified and connected
    manages,     \* whether the administrator who asked still is one
    obs,         \* obs[o]: the observation row; bound if its baseline revision
                 \* and origin generation are still the newest ones
    job,         \* job[o]: its job
    at,          \* at[h]: the handler in place h, and (history) whether it is
                 \* its job's latest claim
    faults,      \* faults so far
    lost,        \* history: the handler could not write down its failure
    shared       \* history: the observations a process claimed again while it
                 \* still had a handler at work on them

vars == <<usable, manages, obs, job, at, faults, lost, shared>>
authority == <<usable, manages>>
doubts == <<lost, shared>>

Idle == [step |-> "idle", of |-> None, latest |-> TRUE]
Steps == {"idle", "claimed", "prepared", "stop", "fail", "ok", "error"}
Finished == {"completed", "stopped", "cancelled"}

-----------------------------------------------------------------------------
(* Administrators.                                                          *)

Unbind == obs' = [o \in Observations |-> [obs[o] EXCEPT !.bound = FALSE]]

\* baseline() makes another revision, and every update of the origin's
\* connection or verification another generation; exclude(), the suspension of
\* the origin's installation and the age of its verification do not.
ChangeEvidence ==
    /\ \/ usable' \in BOOLEAN /\ Unbind
       \/ usable' = ~usable /\ UNCHANGED obs
    /\ UNCHANGED <<manages, job, at, faults, doubts>>

ChangeAccess ==
    /\ manages' = ~manages
    /\ UNCHANGED <<usable, obs, job, at, faults, doubts>>

\* approvedParityEvidence and parityOrigin, for what the row is bound to; the
\* code compares revision and generation with those in the row.
Authorised(o) == manages /\ usable /\ obs[o].bound

\* Mutant: an observation that failed is over, whatever its job does.
PendingRow(o) == obs[o].status \in {"queued", "running"}

Pending(o) ==
    \/ obs[o].status \in {"queued", "running"}
    \/ obs[o].status = "failed" /\ job[o].status \in {"queued", "running"}

Queue(o) ==
    /\ obs[o].status = "none"
    /\ manages /\ usable
    /\ ~\E p \in Observations : Pending(p)
    /\ obs' = [obs EXCEPT ![o] = [status |-> "queued", bound |-> TRUE]]
    /\ job' = [job EXCEPT ![o].status = "queued"]
    /\ UNCHANGED <<authority, at, faults, doubts>>

\* Only a job nobody has tried ends with it.
Cancel(o) ==
    /\ obs[o].status \in {"queued", "running", "failed"}
    /\ obs' = [obs EXCEPT ![o].status = "cancelled"]
    /\ job' = IF job[o].status = "queued" /\ job[o].attempts = 0
              THEN [job EXCEPT ![o].status = "done"] ELSE job
    /\ UNCHANGED <<authority, at, faults, doubts>>

-----------------------------------------------------------------------------
(* The handler.                                                             *)

Claim(h, o) ==
    /\ at[h] = Idle /\ job[o].status = "queued"
    /\ job' = [job EXCEPT ![o] = [status |-> "running", by |-> Process[h],
                                  attempts |-> @.attempts + 1]]
    /\ at' = [g \in Handlers |-> IF g = h THEN [step |-> "claimed", of |-> o, latest |-> TRUE]
                                 ELSE [at[g] EXCEPT !.latest = @ /\ at[g].of # o]]
    /\ shared' = IF \E g \in Handlers : at[g].of = o /\ Process[g] = Process[h]
                 THEN shared \cup {o} ELSE shared
    /\ UNCHANGED <<authority, obs, faults, lost>>

\* Not whether this handler made the latest claim, only whether its process did.
Owns(h, o) == job[o].status = "running" /\ job[o].by = Process[h]

GoTo(h, step) == at' = [at EXCEPT ![h].step = step]

\* The first transaction; a finished row or a lost lease ends the handler.
Prepare(h) == LET o == at[h].of IN
    /\ at[h].step = "claimed"
    /\ \/ obs[o].status \in Finished /\ GoTo(h, "ok") /\ UNCHANGED obs
       \/ obs[o].status \notin Finished /\ ~Authorised(o) /\ GoTo(h, "stop") /\ UNCHANGED obs
       \/ /\ obs[o].status \notin Finished /\ Authorised(o)
          /\ IF Owns(h, o)
             THEN GoTo(h, "prepared") /\ obs' = [obs EXCEPT ![o].status = "running"]
             ELSE GoTo(h, "ok") /\ UNCHANGED obs
    /\ UNCHANGED <<authority, job, faults, doubts>>

\* Mutant: what held when the site was first read is taken to hold still.
PreparedBefore(o) == TRUE

StillAuthorised(o) == Authorised(o)

\* The last transaction.  The reads in between only shorten the result.
Complete(h) == LET o == at[h].of IN
    /\ at[h].step = "prepared"
    /\ \/ ~StillAuthorised(o) /\ GoTo(h, "stop") /\ UNCHANGED obs
       \/ /\ StillAuthorised(o) /\ GoTo(h, "ok")
          /\ obs' = IF obs[o].status = "running" /\ Owns(h, o)
                    THEN [obs EXCEPT ![o].status = "completed"] ELSE obs
    /\ UNCHANGED <<authority, job, faults, doubts>>

DatabaseFails(h) ==
    /\ at[h].step \in {"claimed", "prepared"}
    /\ faults < MaxFaults /\ faults' = faults + 1
    /\ GoTo(h, "fail")
    /\ UNCHANGED <<authority, obs, job, doubts>>

Recorded(o, status) ==
    IF obs[o].status \in Finished THEN obs ELSE [obs EXCEPT ![o].status = status]

\* The catch: no longer authorised is final, anything else is tried again.
Catch(h) == LET o == at[h].of IN
    /\ at[h].step \in {"stop", "fail"}
    /\ GoTo(h, IF at[h].step = "stop" THEN "ok" ELSE "error")
    /\ obs' = IF Owns(h, o)
              THEN Recorded(o, IF at[h].step = "stop" THEN "stopped" ELSE "failed") ELSE obs
    /\ UNCHANGED <<authority, job, faults, doubts>>

CatchFails(h) ==
    /\ at[h].step \in {"stop", "fail"}
    /\ faults < MaxFaults /\ faults' = faults + 1
    /\ GoTo(h, "error")
    /\ lost' = TRUE
    /\ UNCHANGED <<authority, obs, job, shared>>

\* finishJob, for the lease of the process.
Finish(h) == LET o == at[h].of IN
    /\ at[h].step \in {"ok", "error"}
    /\ at' = [at EXCEPT ![h] = Idle]
    /\ job' = IF ~Owns(h, o) THEN job
              ELSE [job EXCEPT ![o].by = None,
                               ![o].status = IF at[h].step = "ok" THEN "done"
                                             ELSE IF job[o].attempts >= MaxAttempts THEN "failed"
                                             ELSE "queued"]
    /\ UNCHANGED <<authority, obs, faults, doubts>>

\* The process goes down with all its handlers.
Crash(w) ==
    /\ \E h \in Handlers : Process[h] = w /\ at[h] # Idle
    /\ faults < MaxFaults /\ faults' = faults + 1
    /\ at' = [h \in Handlers |-> IF Process[h] = w THEN Idle ELSE at[h]]
    /\ UNCHANGED <<authority, obs, job, doubts>>

\* Mutant: a job is queued again and keeps its worker.
RequeueLocked(o) == job' = [job EXCEPT ![o].status = "queued"]

\* Mutant: a job whose worker is gone stays with it.
LeaveRunning(o) == UNCHANGED job

Requeue(o) == job' = [job EXCEPT ![o] = [@ EXCEPT !.status = "queued", !.by = None]]

\* recoverStaleJobs, of a job that no handler keeps alive,
Recover(o) ==
    /\ job[o].status = "running"
    /\ ~\E h \in Handlers : at[h].of = o /\ Owns(h, o)
    /\ Requeue(o)
    /\ UNCHANGED <<authority, obs, at, faults, doubts>>

\* and of one whose handlers' heartbeats stall.
Stall(o) ==
    /\ \E h \in Handlers : at[h].of = o /\ Owns(h, o)
    /\ faults < MaxFaults /\ faults' = faults + 1
    /\ Requeue(o)
    /\ UNCHANGED <<authority, obs, at, doubts>>

-----------------------------------------------------------------------------
Init ==
    /\ usable = TRUE /\ manages = TRUE
    /\ obs = [o \in Observations |-> [status |-> "none", bound |-> FALSE]]
    /\ job = [o \in Observations |-> [status |-> "none", by |-> None, attempts |-> 0]]
    /\ at = [h \in Handlers |-> Idle]
    /\ faults = 0 /\ lost = FALSE /\ shared = {}

Handle(h) == Prepare(h) \/ Complete(h) \/ Catch(h) \/ Finish(h)

Next ==
    \/ ChangeEvidence \/ ChangeAccess
    \/ \E o \in Observations :
         \/ Queue(o) \/ Cancel(o) \/ Recover(o) \/ Stall(o)
         \/ \E h \in Handlers : Claim(h, o)
    \/ \E h \in Handlers : Handle(h) \/ DatabaseFails(h) \/ CatchFails(h)
    \/ \E w \in Workers : Crash(w)

\* Workers run their handlers and poll; every tick recovers stale jobs.
Fairness ==
    /\ \A h \in Handlers : WF_vars(Handle(h))
    /\ WF_vars(\E h \in Handlers, o \in Observations : Claim(h, o))
    /\ WF_vars(\E o \in Observations : Recover(o))

Spec == Init /\ [][Next]_vars /\ Fairness

-----------------------------------------------------------------------------
(* Properties.                                                              *)

\* The rows and the handlers have the values their tables and steps allow.
ParityTypeOK ==
    /\ \A o \in Observations :
         /\ obs[o].status \in Finished \cup {"none", "queued", "running", "failed"}
         /\ job[o].status \in {"none", "queued", "running", "done", "failed"}
         /\ job[o].by \in Workers \cup {None}
         /\ (job[o].status = "running") <=> (job[o].by # None)
         /\ job[o].attempts \in 0..(MaxAttempts + MaxFaults)
    /\ \A h \in Handlers : at[h].step \in Steps /\ (at[h].of = None <=> at[h] = Idle)
    /\ shared \subseteq Observations

\* A workspace has one observation at a time under way, through failures,
\* retries, recoveries and cancellations.
OneUnderWay ==
    Cardinality({o \in Observations : obs[o].status \in {"queued", "running"}}) <= 1

\* A result is published over a row that is under way, not cancelled or stopped
\* meanwhile; while the reference, the origin and the access it was asked for
\* under are current; and never by a process that lost the job: by the handler
\* of its latest claim, or by an earlier one in the process that claimed it again.
PublishedUnderAuthority ==
    [][\A o \in Observations :
         obs[o].status # "completed" /\ obs'[o].status = "completed" =>
           /\ obs[o].status = "running" /\ manages /\ usable /\ obs[o].bound
           /\ \E h, g \in Handlers :
                /\ at[h].of = o /\ at[h].step = "prepared" /\ at'[h].step = "ok"
                /\ at[g].of = o /\ at[g].latest /\ Process[g] = Process[h]]_vars

\* A pending observation ends, so that the workspace can ask for another, unless
\* a handler could not write down its failure, or two handlers of one process
\* had the job: the one that lost it may close it under the other.
PendingEnds == \A o \in Observations : Pending(o) ~> (~Pending(o) \/ lost \/ o \in shared)

-----------------------------------------------------------------------------
(* The jobs of the observations implement JobPromise.  Who pays for them, and *)
(* how many run at once, is left to JobQueue.                               *)

Phase(status) ==
    CASE status = "queued" -> "waiting"
      [] status = "running" -> "held"
      [] status \in {"done", "failed"} -> "over"
      [] OTHER -> "absent"

Promise == INSTANCE JobPromise WITH
    Jobs <- Observations,
    LaneOf <- [o \in Observations |-> "parity"],
    Room <- [lane \in {"parity"} |-> Cardinality(Observations)],
    Paid <- {},
    Payer <- [o \in Observations |-> None],
    Allowances <- {},
    phase <- [o \in Observations |-> Phase(job[o].status)],
    holder <- [o \in Observations |-> job[o].by],
    charge <- [o \in Observations |-> 0],
    today <- 1

\* An observation's job is in the hands of one worker at a time and once over
\* stays over: late handlers, stalls, cancellations and recoveries show through
\* to nobody.
KeepsPromise == Promise!Spec
=============================================================================
