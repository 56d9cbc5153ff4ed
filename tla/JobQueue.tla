------------------------------ MODULE JobQueue ------------------------------
(***************************************************************************)
(* The hosted job queue: the Postgres tables jobs, hosted_usage_days and   *)
(* personal_scan_usage (store.ts, job-billing.ts) and the worker processes *)
(* that claim, run and finish jobs (worker.ts).  One action per database   *)
(* transaction or worker event; the transactions of different workers, of  *)
(* web handlers and of runs that have lost their lease interleave freely.  *)
(*                                                                         *)
(* A job is named by its delivery identity (jobs.delivery_id is unique).   *)
(* What a delivery asks for never changes, so kind, payer and source are   *)
(* constants of the job: a trigger makes the payer columns immutable.      *)
(***************************************************************************)
EXTENDS Naturals, FiniteSets

CONSTANTS
    Jobs,            \* delivery identities
    Workers,         \* worker process incarnations, each with its own workerId
    Payers,          \* billing accounts and users that pay for heavy jobs
    Personal,        \* the payers that are users (personal_scan_usage)
    Sources,         \* GitHub installations jobs operate on
    None,            \* SQL NULL
    Kind,            \* Kind[j]: which handler runs the job
    Payer,           \* Payer[j]: billing_installation_id or billing_user_id
    Source,          \* Source[j]: installation_id
    Concurrency,     \* lightConcurrency and heavyConcurrency, by lane
    SoloDaily, TeamDaily,            \* heavy jobs per payer and UTC day
    SoloConcurrent, TeamConcurrent,  \* running heavy jobs per account
    MaxAttempts,     \* jobMaxAttempts
    Plans,           \* the plans payers move between; "team" is also a trial
    MaxDay,          \* bound: the last UTC day of a behaviour
    MaxClaims        \* bound: a job claimed this often is claimed no more by a
                     \* stopping worker, and a live lock on it stays fresh

Lanes == {"light", "heavy"}

\* "scan" stands for the release, npm and website scans, "upload" for uploaded
\* artifacts and workspace website checks, "parity" for production
\* observations; these and "prospect" are heavy.
Kinds == {"light", "scan", "upload", "parity", "prospect"}
Days == 1..MaxDay

ASSUME JobQueueAssumption ==
    /\ IsFiniteSet(Jobs)
    /\ None \notin Workers \cup Payers \cup Sources
    /\ Personal \subseteq Payers
    /\ Kind \in [Jobs -> Kinds]
    /\ Payer \in [Jobs -> Payers \cup {None}]
    /\ Source \in [Jobs -> Sources \cup {None}]
    /\ Plans \subseteq {"none", "solo", "team"} /\ Plans # {}
    /\ Concurrency \in [Lanes -> Nat]
    /\ {SoloDaily, TeamDaily, SoloConcurrent, TeamConcurrent} \subseteq Nat \ {0}
    /\ {MaxAttempts, MaxDay, MaxClaims} \subseteq Nat \ {0}

VARIABLES
    job,     \* the jobs table
    nextId,  \* the id the next inserted row gets
    usage,   \* usage[p][d]: heavy_jobs or scans of payer p on day d
    plan,    \* plan[p]
    today,   \* the current UTC day
    live,    \* installations neither suspended nor disconnected
    proc,    \* proc[w]: life cycle of a worker process
    runs     \* handler invocations in the memory of the workers

vars == <<job, nextId, usage, plan, today, live, proc, runs>>

Statuses == {"absent", "queued", "running", "done", "failed"}

\* stale: locked_at is older than staleAfterMs.  due: run_after has passed.
\* claims is history: how many times the row was claimed, the lease number.
Row == [status : Statuses, id : Nat, lockedBy : Workers \cup {None},
        stale : BOOLEAN, due : BOOLEAN, attempts : Nat,
        reserved : BOOLEAN, day : Days \cup {0}, claims : Nat]

\* stage: what the handler has done with the reserved unpack so far.
Run == [worker : Workers, job : Jobs, claim : Nat,
        stage : {"fresh", "refunded", "scanned"}]

NoRow == [status |-> "absent", id |-> 0, lockedBy |-> None, stale |-> FALSE,
          due |-> FALSE, attempts |-> 0, reserved |-> FALSE, day |-> 0,
          claims |-> 0]

Lane(j) == IF Kind[j] = "light" THEN "light" ELSE "heavy"
Billed(j) == Kind[j] \notin {"light", "prospect"} /\ Payer[j] # None

\* Every write that ends a run clears locked_by and locked_at.
Unlocked(row, status) ==
    [row EXCEPT !.status = status, !.lockedBy = None, !.stale = FALSE]

-----------------------------------------------------------------------------
(* Usage reservations (job-billing.ts).                                    *)

HeavyUsageCap(p) == IF plan[p] = "team" THEN TeamDaily ELSE SoloDaily

\* Mutant: the cap is compared after the increment.
CanReserveOneMore(p, requireActive) ==
    /\ requireActive => plan[p] \in {"solo", "team"}
    /\ usage[p][today] <= HeavyUsageCap(p)

CanReserve(p, requireActive) ==
    /\ requireActive => plan[p] \in {"solo", "team"}
    /\ usage[p][today] < HeavyUsageCap(p)

ReserveBillingPayer(p) == [usage EXCEPT ![p][today] = @ + 1]

RefundBillingPayer(p, d) == [usage EXCEPT ![p][d] = IF @ = 0 THEN 0 ELSE @ - 1]

\* Mutant: COALESCE falls through to the current day.
RefundToday(j) ==
    IF job[j].reserved
    THEN /\ job' = [job EXCEPT ![j].reserved = FALSE]
         /\ usage' = RefundBillingPayer(Payer[j], today)
    ELSE UNCHANGED <<job, usage>>

\* A reservation is consumed once: the refund goes to the saved payer, on the
\* day of the reservation.
RefundJobReservation(j) ==
    IF job[j].reserved
    THEN /\ job' = [job EXCEPT ![j].reserved = FALSE]
         /\ usage' = RefundBillingPayer(Payer[j], job[j].day)
    ELSE UNCHANGED <<job, usage>>

-----------------------------------------------------------------------------
(* Web and webhook side.                                                   *)

\* enqueueJob, and the inserts of queueUploadedScan and productionParity.queue,
\* which also require a paid plan or a running trial.
EnqueueJob(j) ==
    /\ job[j].status = "absent"
    /\ Billed(j) => CanReserve(Payer[j], Kind[j] \in {"upload", "parity"})
    /\ job' = [job EXCEPT ![j] = [NoRow EXCEPT
                 !.status = "queued", !.id = nextId, !.due = TRUE,
                 !.reserved = Billed(j), !.day = IF Billed(j) THEN today ELSE 0]]
    /\ nextId' = nextId + 1
    /\ usage' = IF Billed(j) THEN ReserveBillingPayer(Payer[j]) ELSE usage
    /\ UNCHANGED <<plan, today, live, proc, runs>>

\* failUploadedScan(id, true) gives the reservation back from outside any run.
RefundUpload(j) ==
    /\ Kind[j] = "upload" /\ job[j].status # "absent"
    /\ RefundJobReservation(j)
    /\ UNCHANGED <<nextId, plan, today, live, proc, runs>>

\* An administrator cancels a production observation nobody has tried yet.
CancelObservation(j) ==
    /\ Kind[j] = "parity" /\ job[j].status = "queued" /\ job[j].attempts = 0
    /\ job' = [job EXCEPT ![j].status = "done", ![j].reserved = FALSE]
    /\ usage' = IF job[j].reserved
                THEN RefundBillingPayer(Payer[j], job[j].day) ELSE usage
    /\ UNCHANGED <<nextId, plan, today, live, proc, runs>>

DeleteInstallation(s) ==
    /\ live' = live \ {s}
    /\ job' = [j \in Jobs |->
                 IF Source[j] = s /\ job[j].status \in {"queued", "running"}
                 THEN Unlocked(job[j], "failed") ELSE job[j]]
    /\ UNCHANGED <<nextId, usage, plan, today, proc, runs>>

\* A webhook suspends, unsuspends or reconnects the installation.
UpsertInstallation(s) ==
    /\ live' \in {live \ {s}, live \cup {s}}
    /\ live' # live
    /\ UNCHANGED <<job, nextId, usage, plan, today, proc, runs>>

\* A Stripe event, or the end of a trial.
ChangePlan(p) ==
    /\ \E q \in Plans \ {plan[p]} : plan' = [plan EXCEPT ![p] = q]
    /\ UNCHANGED <<job, nextId, usage, today, live, proc, runs>>

-----------------------------------------------------------------------------
(* Claiming (store.ts claimJob, called from the tick of a worker).          *)

RunsOf(w, lane) == {r \in runs : r.worker = w /\ Lane(r.job) = lane}
Running(lane) == {j \in Jobs : job[j].status = "running" /\ Lane(j) = lane}
\* Mutant: queued rows count as running.
ActiveFor(p) == {j \in Jobs : job[j].status \in {"queued", "running"}
                               /\ Lane(j) = "heavy" /\ Payer[j] = p}

RunningFor(p) == {j \in Running("heavy") : Payer[j] = p}

HeavyFairUseCap(p) ==
    IF p \in Personal THEN 1
    ELSE IF plan[p] = "team" THEN TeamConcurrent ELSE SoloConcurrent

FairUse(j) ==
    \/ Lane(j) = "light"
    \/ Payer[j] = None
    \/ Cardinality(RunningFor(Payer[j])) < HeavyFairUseCap(Payer[j])

\* A worker runs at most one prospect scan at a time.
IncludeProspects(w) == \A r \in runs : r.worker = w => Kind[r.job] # "prospect"

Claimable(w, lane) ==
    {j \in Jobs : /\ job[j].status = "queued" /\ job[j].due
                  /\ Lane(j) = lane
                  /\ Kind[j] = "prospect" => IncludeProspects(w)
                  /\ FairUse(j)}

\* ORDER BY prospect last, then id.
Before(i, j) ==
    \/ Kind[i] # "prospect" /\ Kind[j] = "prospect"
    \/ (Kind[i] = "prospect" <=> Kind[j] = "prospect") /\ job[i].id < job[j].id

\* stop() keeps a tick from starting; one in flight goes on claiming.
Ticking(w) == proc[w] \in {"up", "stopping"}

\* Mutant: only the worker's own counter.
HasLocalSlot(w, lane) ==
    /\ Ticking(w)
    /\ Cardinality(RunsOf(w, lane)) < Concurrency[lane]

\* The two capacity checks: the worker's own counter, then under the
\* resource lock jobs-<priority> the running rows of every worker.
HasSlot(w, lane) ==
    /\ Ticking(w)
    /\ Cardinality(RunsOf(w, lane)) < Concurrency[lane]
    /\ Cardinality(Running(lane)) < Concurrency[lane]

Picked(w, j) ==
    /\ HasSlot(w, Lane(j))
    /\ j \in Claimable(w, Lane(j))
    /\ \A i \in Claimable(w, Lane(j)) \ {j} : Before(j, i)

MustRecharge(j) == Billed(j) /\ ~job[j].reserved

CanRecharge(j) ==
    /\ Source[j] = None \/ Source[j] \in live
    /\ CanReserve(Payer[j], TRUE)

\* Mutant: a CASE without ELSE loses the day of a reservation that is kept.
ClaimedWithoutDay(row, w, charge) ==
    [row EXCEPT !.status = "running", !.lockedBy = w, !.stale = FALSE,
                !.attempts = @ + 1, !.claims = @ + 1,
                !.reserved = IF charge THEN TRUE ELSE @,
                !.day = IF charge THEN today ELSE None]

Claimed(row, w, charge) ==
    [row EXCEPT !.status = "running", !.lockedBy = w, !.stale = FALSE,
                !.attempts = @ + 1, !.claims = @ + 1,
                !.reserved = IF charge THEN TRUE ELSE @,
                !.day = IF charge THEN today ELSE @]

ClaimJob(w, j) ==
    /\ Picked(w, j)
    /\ proc[w] = "stopping" => job[j].claims < MaxClaims
    /\ MustRecharge(j) => CanRecharge(j)
    /\ job' = [job EXCEPT ![j] = Claimed(job[j], w, MustRecharge(j))]
    /\ usage' = IF MustRecharge(j) THEN ReserveBillingPayer(Payer[j]) ELSE usage
    /\ runs' = runs \cup {[worker |-> w, job |-> j, claim |-> job[j].claims + 1,
                           stage |-> "fresh"]}
    /\ UNCHANGED <<nextId, plan, today, live, proc>>

\* A picked job that cannot be charged again waits an hour; nothing is claimed.
DeferJob(w, j) ==
    /\ Picked(w, j)
    /\ MustRecharge(j) /\ ~CanRecharge(j)
    /\ job' = [job EXCEPT ![j].due = FALSE]
    /\ UNCHANGED <<nextId, usage, plan, today, live, proc, runs>>

-----------------------------------------------------------------------------
(* A run of a claimed job (worker.ts runClaimed and handleJob).            *)

Owns(r) == job[r.job].status = "running" /\ job[r.job].lockedBy = r.worker

HeartbeatJob(r) ==
    /\ Owns(r) /\ job[r.job].stale
    /\ job' = [job EXCEPT ![r.job].stale = FALSE]
    /\ UNCHANGED <<nextId, usage, plan, today, live, proc, runs>>

SetStage(r, stage) == runs' = (runs \ {r}) \cup {[r EXCEPT !.stage = stage]}

\* The handler unpacks; executors refuse to start once shutdown has begun.
Unpack(r) ==
    /\ r.stage = "fresh" /\ Lane(r.job) = "heavy" /\ proc[r.worker] = "up"
    /\ SetStage(r, "scanned")
    /\ UNCHANGED <<job, nextId, usage, plan, today, live, proc>>

\* Mutant: the refund is not limited to the lock holder.
RefundAnyUnpack(r) ==
    /\ r.stage = "fresh" /\ Kind[r.job] = "scan"
    /\ SetStage(r, "refunded")
    /\ RefundJobReservation(r.job)
    /\ UNCHANGED <<nextId, plan, today, live, proc>>

\* refundUnusedHostedUnpack: the source is gone, unchanged or unreachable.
RefundJobUnpack(r) ==
    /\ r.stage = "fresh" /\ Kind[r.job] = "scan"
    /\ SetStage(r, "refunded")
    /\ IF job[r.job].lockedBy = r.worker
       THEN RefundJobReservation(r.job) ELSE UNCHANGED <<job, usage>>
    /\ UNCHANGED <<nextId, plan, today, live, proc>>

\* Mutant: the end of a run is written whoever holds the lock.
EndAnyRun(r, row) ==
    /\ runs' = runs \ {r}
    /\ job' = [job EXCEPT ![r.job] = row]
    /\ UNCHANGED <<nextId, usage, plan, today, live, proc>>

\* The run ends: its row is written only if the worker still holds the lock.
EndRun(r, row) ==
    /\ runs' = runs \ {r}
    /\ job' = IF Owns(r) THEN [job EXCEPT ![r.job] = row] ELSE job
    /\ UNCHANGED <<nextId, usage, plan, today, live, proc>>

FinishJob(r) == EndRun(r, Unlocked(job[r.job], "done"))

FailJob(r) ==
    EndRun(r, IF job[r.job].attempts >= MaxAttempts
              THEN Unlocked(job[r.job], "failed")
              ELSE [Unlocked(job[r.job], "queued") EXCEPT !.due = FALSE])

\* Only what runs in an executor is interrupted.
RequeueInterruptedJob(r) ==
    /\ Kind[r.job] \in {"scan", "upload", "prospect"}
    /\ proc[r.worker] \in {"stopping", "draining"}
    /\ EndRun(r, [Unlocked(job[r.job], "queued") EXCEPT
                    !.due = TRUE, !.attempts = IF @ = 0 THEN 0 ELSE @ - 1])

-----------------------------------------------------------------------------
(* Worker processes, and the passing of time.                              *)

\* Mutant: a worker recovers only its own locks.
RecoverOwnJobs(w) ==
    LET mine == {j \in Jobs : /\ job[j].status = "running" /\ job[j].stale
                              /\ job[j].lockedBy = w}
    IN  /\ Ticking(w) /\ mine # {}
        /\ job' = [j \in Jobs |-> IF j \in mine THEN Unlocked(job[j], "queued") ELSE job[j]]
        /\ UNCHANGED <<nextId, usage, plan, today, live, proc, runs>>

RecoverStaleJobs(w) ==
    /\ Ticking(w)
    /\ \E j \in Jobs : job[j].status = "running" /\ job[j].stale
    /\ job' = [j \in Jobs |-> IF job[j].status = "running" /\ job[j].stale
                              THEN Unlocked(job[j], "queued") ELSE job[j]]
    /\ UNCHANGED <<nextId, usage, plan, today, live, proc, runs>>

SetProc(w, from, to) ==
    /\ proc[w] \in from
    /\ proc' = [proc EXCEPT ![w] = to]
    /\ UNCHANGED <<job, nextId, usage, plan, today, live>>

Start(w) == SetProc(w, {"new"}, "up") /\ UNCHANGED runs

\* Another process is running or can be started (bounds the crashes).
Replaceable(w) == \E v \in Workers \ {w} : proc[v] \in {"new", "up"}

\* SIGTERM: the scans of this process are interrupted; stop() waits for the
\* tick in flight, then for the runs.
Stop(w) == Replaceable(w) /\ SetProc(w, {"up"}, "stopping") /\ UNCHANGED runs

TickEnds(w) == SetProc(w, {"stopping"}, "draining") /\ UNCHANGED runs

Exit(w) ==
    /\ \A r \in runs : r.worker # w
    /\ SetProc(w, {"draining"}, "gone") /\ UNCHANGED runs

\* The process is killed: its runs vanish, its locks stay.
Crash(w) ==
    /\ Replaceable(w)
    /\ SetProc(w, {"up", "stopping", "draining"}, "gone")
    /\ runs' = {r \in runs : r.worker # w}

Orphaned(j) == \A r \in runs : ~(r.job = j /\ Owns(r))

\* No heartbeat lands for staleAfterMs: nobody sends one, or the live
\* worker's event loop or database connection stalls.
LockGoesStale(j) ==
    /\ job[j].status = "running" /\ ~job[j].stale
    /\ Orphaned(j) \/ job[j].claims < MaxClaims
    /\ job' = [job EXCEPT ![j].stale = TRUE]
    /\ UNCHANGED <<nextId, usage, plan, today, live, proc, runs>>

RunAfterPasses(j) ==
    /\ job[j].status = "queued" /\ ~job[j].due
    /\ job' = [job EXCEPT ![j].due = TRUE]
    /\ UNCHANGED <<nextId, usage, plan, today, live, proc, runs>>

NextDay ==
    /\ today < MaxDay
    /\ today' = today + 1
    /\ UNCHANGED <<job, nextId, usage, plan, live, proc, runs>>

-----------------------------------------------------------------------------
Init ==
    /\ job = [j \in Jobs |-> NoRow]
    /\ nextId = 1
    /\ usage = [p \in Payers |-> [d \in Days |-> 0]]
    /\ plan \in [Payers -> Plans]
    /\ today = 1
    /\ live = Sources
    /\ proc = [w \in Workers |-> "new"]
    /\ runs = {}

RunStep(r) ==
    \/ HeartbeatJob(r) \/ Unpack(r) \/ RefundJobUnpack(r)
    \/ FinishJob(r) \/ FailJob(r) \/ RequeueInterruptedJob(r)

Next ==
    \/ \E j \in Jobs : EnqueueJob(j) \/ RefundUpload(j) \/ CancelObservation(j)
    \/ \E j \in Jobs : LockGoesStale(j) \/ RunAfterPasses(j)
    \/ \E w \in Workers, j \in Jobs : ClaimJob(w, j) \/ DeferJob(w, j)
    \/ \E r \in runs : RunStep(r)
    \/ \E w \in Workers :
         \/ RecoverStaleJobs(w) \/ Start(w) \/ Stop(w) \/ TickEnds(w)
         \/ Exit(w) \/ Crash(w)
    \/ \E s \in Sources : DeleteInstallation(s) \/ UpsertInstallation(s)
    \/ \E p \in Payers : ChangePlan(p)
    \/ NextDay

Spec == Init /\ [][Next]_vars

\* A run ends in bounded time (the executor's session limit), the recovery
\* interval keeps ticking, and the host replaces a dead worker.  A claim needs
\* strong fairness: a job waits an hour after a deferral or a backoff and a tick
\* comes at least every fifteen minutes, so jobs in front of a job do not
\* fill every tick.
Fairness ==
    /\ \A w \in Workers : WF_vars(Start(w)) /\ WF_vars(TickEnds(w)) /\ WF_vars(Exit(w))
    /\ WF_vars(\E w \in Workers : RecoverStaleJobs(w))
    /\ \A j \in Jobs :
         /\ WF_vars(Orphaned(j) /\ LockGoesStale(j))
         /\ WF_vars(RunAfterPasses(j))
         /\ SF_vars(\E w \in Workers : ClaimJob(w, j) \/ DeferJob(w, j))
         /\ \A w \in Workers : WF_vars(\E r \in runs :
              r.worker = w /\ r.job = j /\ (FinishJob(r) \/ FailJob(r)))

FairSpec == Spec /\ Fairness

-----------------------------------------------------------------------------
(* Properties.                                                             *)

\* Every variable has its type.
TypeOK ==
    /\ job \in [Jobs -> Row]
    /\ nextId \in Nat
    /\ usage \in [Payers -> [Days -> Nat]]
    /\ plan \in [Payers -> Plans]
    /\ today \in Days
    /\ live \subseteq Sources
    /\ proc \in [Workers -> {"new", "up", "stopping", "draining", "gone"}]
    /\ runs \subseteq Run

Reservations(p, d) ==
    {j \in Jobs : job[j].reserved /\ Payer[j] = p /\ job[j].day = d}

\* The daily counter of a payer is exactly the number of its jobs that hold a
\* reservation of that day: no interleaving of enqueues, recharged retries,
\* refunds (also past midnight) and runs that lost their lease charges twice,
\* refunds twice or refunds another day (job-billing.ts).
LedgerExact ==
    \A p \in Payers, d \in Days : usage[p][d] = Cardinality(Reservations(p, d))

\* What LedgerExact rests on: a reservation names a payer and a day, and a row
\* that does not exist yet holds none.
ReservationOK ==
    \A j \in Jobs : job[j].reserved =>
        Payer[j] \in Payers /\ job[j].day \in Days /\ job[j].status # "absent"

\* Workers on every host together never have more rows running in a lane than
\* its concurrency (claimJob counts and claims under one resource lock).
WithinConcurrency ==
    \A lane \in Lanes : Cardinality(Running(lane)) <= Concurrency[lane]

\* A user's personal plan runs one heavy job at a time, whoever submits them.
PersonalExclusive ==
    \A i, j \in Running("heavy") :
        Payer[i] = Payer[j] /\ Payer[i] \in Personal => i = j

\* A row is locked exactly while it runs, and by a process that has started:
\* no path out of running leaves locked_by behind, so refunds and finishes that
\* compare locked_by alone cannot match a row that is no longer running.
LockMatchesStatus ==
    \A j \in Jobs : LET w == job[j].lockedBy IN
        IF job[j].status = "running" THEN w \in Workers /\ proc[w] # "new"
        ELSE w = None

\* A finished or failed job is never run again: no late completion, requeue or
\* stale recovery resurrects it, also after its source was uninstalled.
TerminalIsFinal ==
    [][\A j \in Jobs : job[j].status \in {"done", "failed"}
                          => job'[j].status = job[j].status]_vars

\* Charging a payer never takes a day past the allowance of its plan.
ChargeWithinAllowance ==
    [][\A p \in Payers, d \in Days : usage'[p][d] > usage[p][d]
          => d = today /\ usage'[p][d] <= HeavyUsageCap(p)]_vars

\* A run whose lock another worker has taken over cannot complete or fail the
\* job: only an ending run of the worker that holds the lock does.
EndedByLockHolder ==
    [][\A j \in Jobs :
          job[j].status = "running" /\ job'[j].status = "done"
            => \E r \in runs \ runs' :
                  r.job = j /\ r.worker = job[j].lockedBy]_vars

Current(r) == Owns(r) /\ r.claim = job[r.job].claims

\* Another worker's late cleanup never refunds a scan that the current run has
\* performed; only an earlier run of the same process can.
RefundSparesScanned ==
    [][\A r \in runs :
          /\ Current(r) /\ r.stage = "scanned"
          /\ Kind[r.job] # "upload"
          /\ job[r.job].reserved /\ ~job'[r.job].reserved
          => \E z \in runs : /\ z.worker = r.worker /\ z.job = r.job
                              /\ z.claim < r.claim]_vars

\* "No free retry can escape daily limits" (store.ts claimJob): a billed job
\* that its current run has scanned holds a reservation.  This does not hold:
\* see the README, "What does not hold".
NoFreeScan ==
    \A r \in runs :
        Current(r) /\ r.stage = "scanned" /\ Kind[r.job] # "upload" /\ Billed(r.job)
          => job[r.job].reserved

\* No job stays running for ever: its run ends or, after a crash, its lock goes
\* stale and another worker puts it back in the queue.
RunningEnds ==
    \A j \in Jobs : job[j].status = "running" ~> job[j].status # "running"

Settled(j) == job[j].status \in {"done", "failed"}

\* A queued job that stays payable is eventually done or failed, whatever
\* workers crash, stop or lose their locks on the way.
PayableSettles ==
    \A j \in Jobs : <>[](job[j].status = "absent")
        \/ []<>(MustRecharge(j) /\ ~CanRecharge(j)) \/ <>Settled(j)

-----------------------------------------------------------------------------
(* The queue implements JobPromise: a row that runs is held by the worker    *)
(* that locked it, and a reservation is a charge on the day it was made.    *)

Phase(status) ==
    CASE status = "queued" -> "waiting"
      [] status = "running" -> "held"
      [] status \in {"done", "failed"} -> "over"
      [] OTHER -> "absent"

Promise == INSTANCE JobPromise WITH
    LaneOf <- [j \in Jobs |-> Lane(j)],
    Room <- Concurrency,
    Paid <- {j \in Jobs : Billed(j)},
    Allowances <- {SoloDaily, TeamDaily},
    phase <- [j \in Jobs |-> Phase(job[j].status)],
    holder <- [j \in Jobs |-> job[j].lockedBy],
    charge <- [j \in Jobs |-> IF job[j].reserved THEN job[j].day ELSE 0]

\* Every step of the queue is a step of the promise or leaves it alone: the
\* counters, leases, retries, recoveries and late runs of store.ts and
\* worker.ts show through to nobody.
KeepsPromise == Promise!Spec
=============================================================================
