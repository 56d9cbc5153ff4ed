------------------------------ MODULE JobProofs ------------------------------
(* Theorems about JobQueue and UploadScan, for every number of jobs, workers   *)
(* and payers: what one step does to a row and to the books, the queue's        *)
(* invariant, the promise it implements, and the uploads that implement it.     *)
EXTENDS UploadScan, FiniteSetTheorems, TLAPS

-----------------------------------------------------------------------------
(* The steps of the queue.                                                  *)

(* Rows: every action writes values of the right types into the fields of a  *)
(* row, and replaces at most the row of one job or unlocks several.         *)
LEMMA UnlockedType ==
    ASSUME NEW row \in Row, NEW status \in Statuses
    PROVE  Unlocked(row, status) \in Row
  BY DEF Unlocked, Row

LEMMA QueuedRowType ==
    ASSUME NEW id \in Nat, NEW reserved \in BOOLEAN, NEW day \in Days \cup {0}
    PROVE  [NoRow EXCEPT !.status = "queued", !.id = id, !.due = TRUE,
                         !.reserved = reserved, !.day = day] \in Row
  BY DEF NoRow, Row, Statuses

LEMMA CountersType ==
    ASSUME NEW row \in Row
    PROVE  /\ row.attempts \in Nat /\ row.attempts + 1 \in Nat
           /\ row.claims \in Nat /\ row.claims + 1 \in Nat
           /\ row.day \in Days \cup {0}
  BY DEF Row

LEMMA ClaimedRowType ==
    ASSUME NEW row \in Row, NEW w \in Workers, NEW attempts \in Nat,
           NEW claims \in Nat, NEW reserved \in BOOLEAN, NEW day \in Days \cup {0}
    PROVE  [row EXCEPT !.status = "running", !.lockedBy = w, !.stale = FALSE,
                       !.attempts = attempts, !.claims = claims,
                       !.reserved = reserved, !.day = day] \in Row
  BY DEF Row, Statuses

LEMMA ClaimedType ==
    ASSUME NEW row \in Row, NEW w \in Workers, NEW charge \in BOOLEAN,
           today \in Days
    PROVE  Claimed(row, w, charge) \in Row
  <1> DEFINE reserved == IF charge THEN TRUE ELSE row.reserved
             day == IF charge THEN today ELSE row.day
             attempts == row.attempts + 1
             claims == row.claims + 1
  <1>1. reserved \in BOOLEAN /\ day \in Days \cup {0}
    BY DEF Row
  <1>2. attempts \in Nat /\ claims \in Nat
    BY CountersType
  <1>3. Claimed(row, w, charge) =
          [row EXCEPT !.status = "running", !.lockedBy = w, !.stale = FALSE,
                      !.attempts = attempts, !.claims = claims,
                      !.reserved = reserved, !.day = day]
    BY DEF Claimed
  <1> HIDE DEF reserved, day, attempts, claims
  <1>4. [row EXCEPT !.status = "running", !.lockedBy = w, !.stale = FALSE,
                      !.attempts = attempts, !.claims = claims,
                      !.reserved = reserved, !.day = day] \in Row
    BY <1>1, <1>2, ClaimedRowType
  <1> QED BY <1>3, <1>4

LEMMA AttemptsType ==
    ASSUME NEW row \in Row, NEW attempts \in Nat, NEW due \in BOOLEAN
    PROVE  [row EXCEPT !.due = due, !.attempts = attempts] \in Row
  BY DEF Row

LEMMA DueType ==
    ASSUME NEW row \in Row, NEW due \in BOOLEAN
    PROVE  [row EXCEPT !.due = due] \in Row
  BY DEF Row

LEMMA JobUpdate ==
    ASSUME job \in [Jobs -> Row], NEW j \in Jobs, NEW row \in Row,
           job' = [job EXCEPT ![j] = row]
    PROVE  job' \in [Jobs -> Row]
  OBVIOUS

LEMMA FlagUpdate ==
    ASSUME job \in [Jobs -> Row], NEW j \in Jobs, NEW b \in BOOLEAN,
           \/ job' = [job EXCEPT ![j].stale = b]
           \/ job' = [job EXCEPT ![j].due = b]
           \/ job' = [job EXCEPT ![j].reserved = b]
    PROVE  job' \in [Jobs -> Row]
  BY DEF Row

LEMMA RefundType ==
    ASSUME TypeOK, NEW j \in Jobs, Payer[j] \in Payers, job[j].day \in Days
    PROVE  RefundBillingPayer(Payer[j], job[j].day) \in [Payers -> [Days -> Nat]]
  BY DEF TypeOK, RefundBillingPayer

LEMMA ReserveType ==
    ASSUME TypeOK, NEW p \in Payers
    PROVE  ReserveBillingPayer(p) \in [Payers -> [Days -> Nat]]
  BY DEF TypeOK, ReserveBillingPayer

LEMMA RefundReservationType ==
    ASSUME TypeOK, ReservationOK, NEW j \in Jobs, RefundJobReservation(j)
    PROVE  job' \in [Jobs -> Row] /\ usage' \in [Payers -> [Days -> Nat]]
  <1>1. CASE ~job[j].reserved
    BY <1>1 DEF TypeOK, RefundJobReservation
  <1>2. CASE job[j].reserved
    <2>1. usage' \in [Payers -> [Days -> Nat]]
      BY <1>2, RefundType DEF RefundJobReservation, ReservationOK
    <2>2. job' = [job EXCEPT ![j].reserved = FALSE]
      BY <1>2 DEF RefundJobReservation
    <2> QED BY <2>1, <2>2, FlagUpdate DEF TypeOK
  <1> QED BY <1>1, <1>2

(* A billed job has a payer.                                                *)
LEMMA BilledPayer ==
    ASSUME NEW j \in Jobs, Billed(j)
    PROVE  Payer[j] \in Payers
  BY JobQueueAssumption DEF Billed

LEMMA TypeStep ==
    ASSUME TypeOK, ReservationOK, [Next]_vars
    PROVE  TypeOK'
  <1> USE DEF TypeOK
  <1>1. ASSUME NEW j \in Jobs, EnqueueJob(j) PROVE TypeOK'
    <2>1. Billed(j) \in BOOLEAN /\ (IF Billed(j) THEN today ELSE 0) \in Days \cup {0}
      BY DEF Billed
    <2>2. job' \in [Jobs -> Row]
      BY <1>1, <2>1, QueuedRowType, JobUpdate DEF EnqueueJob
    <2>3. usage' \in [Payers -> [Days -> Nat]]
      BY <1>1, ReserveType, BilledPayer DEF EnqueueJob
    <2> QED BY <1>1, <2>2, <2>3 DEF EnqueueJob
  <1>2. ASSUME NEW j \in Jobs, RefundUpload(j) PROVE TypeOK'
    BY <1>2, RefundReservationType DEF RefundUpload
  <1>3. ASSUME NEW j \in Jobs, CancelObservation(j) PROVE TypeOK'
    <2>1. job' \in [Jobs -> Row]
      <3>1. [job[j] EXCEPT !.status = "done", !.reserved = FALSE] \in Row
        BY ZenonT(60) DEF Row, Statuses
      <3>2. job' = [job EXCEPT ![j] =
                      [job[j] EXCEPT !.status = "done", !.reserved = FALSE]]
        BY <1>3 DEF CancelObservation
      <3> QED BY <3>1, <3>2, JobUpdate
    <2>2. usage' \in [Payers -> [Days -> Nat]]
      BY <1>3, RefundType DEF CancelObservation, ReservationOK
    <2> QED BY <1>3, <2>1, <2>2 DEF CancelObservation
  <1>4. ASSUME NEW j \in Jobs, LockGoesStale(j) PROVE TypeOK'
    BY <1>4, FlagUpdate DEF LockGoesStale
  <1>5. ASSUME NEW j \in Jobs, RunAfterPasses(j) PROVE TypeOK'
    BY <1>5, FlagUpdate DEF RunAfterPasses
  <1>6. ASSUME NEW w \in Workers, NEW j \in Jobs, ClaimJob(w, j) PROVE TypeOK'
    <2>1. MustRecharge(j) \in BOOLEAN
      BY DEF MustRecharge, Billed
    <2>2. job' \in [Jobs -> Row]
      BY <1>6, <2>1, ClaimedType, JobUpdate DEF ClaimJob
    <2>3. usage' \in [Payers -> [Days -> Nat]]
      BY <1>6, ReserveType, BilledPayer DEF ClaimJob, MustRecharge
    <2>4. runs' \subseteq Run
      BY <1>6, CountersType DEF ClaimJob, Run
    <2> QED BY <1>6, <2>2, <2>3, <2>4 DEF ClaimJob
  <1>7. ASSUME NEW w \in Workers, NEW j \in Jobs, DeferJob(w, j) PROVE TypeOK'
    BY <1>7, FlagUpdate DEF DeferJob
  <1>8. ASSUME NEW r \in runs, HeartbeatJob(r) PROVE TypeOK'
    BY <1>8, FlagUpdate DEF HeartbeatJob, Run
  <1>9. ASSUME NEW r \in runs, Unpack(r) PROVE TypeOK'
    BY <1>9 DEF Unpack, SetStage, Run
  <1>10. ASSUME NEW r \in runs, RefundJobUnpack(r) PROVE TypeOK'
    <2>1. runs' \subseteq Run
      BY <1>10 DEF RefundJobUnpack, SetStage, Run
    <2>2. job' \in [Jobs -> Row] /\ usage' \in [Payers -> [Days -> Nat]]
      BY <1>10, RefundReservationType DEF RefundJobUnpack, Run
    <2> QED BY <1>10, <2>1, <2>2 DEF RefundJobUnpack
  <1>11. ASSUME NEW r \in runs, NEW row \in Row, EndRun(r, row) PROVE TypeOK'
    BY <1>11 DEF EndRun
  <1>12. ASSUME NEW r \in runs, FinishJob(r) PROVE TypeOK'
    BY <1>11, <1>12, UnlockedType DEF FinishJob, Run, Statuses
  <1>13. ASSUME NEW r \in runs, FailJob(r) PROVE TypeOK'
    <2>1. [Unlocked(job[r.job], "queued") EXCEPT !.due = FALSE] \in Row
      BY UnlockedType, DueType DEF Run, Statuses
    <2>2. Unlocked(job[r.job], "failed") \in Row
      BY UnlockedType DEF Run, Statuses
    <2> QED BY <1>11, <1>13, <2>1, <2>2 DEF FailJob
  <1>14. ASSUME NEW r \in runs, RequeueInterruptedJob(r) PROVE TypeOK'
    <2> DEFINE row == Unlocked(job[r.job], "queued")
               left == IF row.attempts = 0 THEN 0 ELSE row.attempts - 1
    <2>1. row \in Row
      BY UnlockedType DEF Run, Statuses
    <2>2. left \in Nat
      BY <2>1, CountersType
    <2>3. [row EXCEPT !.due = TRUE, !.attempts = left] \in Row
      BY <2>1, <2>2, AttemptsType
    <2> QED BY <1>11, <1>14, <2>3 DEF RequeueInterruptedJob
  <1>15. ASSUME NEW w \in Workers, RecoverStaleJobs(w) PROVE TypeOK'
    BY <1>15, UnlockedType DEF RecoverStaleJobs, Statuses
  <1>16. ASSUME NEW w \in Workers, Start(w) \/ Stop(w) \/ TickEnds(w) \/ Exit(w) \/ Crash(w)
         PROVE TypeOK'
    <2>1. proc' \in [Workers -> {"new", "up", "stopping", "draining", "gone"}]
      BY <1>16 DEF Start, Stop, TickEnds, Exit, Crash, SetProc
    <2> QED BY <1>16, <2>1 DEF Start, Stop, TickEnds, Exit, Crash, SetProc
  <1>17. ASSUME NEW s \in Sources, DeleteInstallation(s) PROVE TypeOK'
    <2>1. \A j \in Jobs : Unlocked(job[j], "failed") \in Row
      BY UnlockedType DEF Statuses
    <2> QED BY <1>17, <2>1 DEF DeleteInstallation
  <1>18. ASSUME NEW s \in Sources, UpsertInstallation(s) PROVE TypeOK'
    BY <1>18 DEF UpsertInstallation
  <1>19. ASSUME NEW p \in Payers, ChangePlan(p) PROVE TypeOK'
    BY <1>19 DEF ChangePlan
  <1>20. CASE NextDay
    BY SMTT(40), <1>20, JobQueueAssumption DEF NextDay, Days
  <1>21. CASE UNCHANGED vars
    BY <1>21 DEF vars
  <1> QED
    BY <1>1, <1>2, <1>3, <1>4, <1>5, <1>6, <1>7, <1>8, <1>9, <1>10, <1>12,
       <1>13, <1>14, <1>15, <1>16, <1>17, <1>18, <1>19, <1>20, <1>21
    DEF Next, RunStep

(* What one step does to the status, the lock and the lease number of job j. *)
LockStep(j) ==
    LET old == job[j]
        new == job'[j]
    IN  \/ /\ old.status = "absent" /\ new.status = "queued"
           /\ new.lockedBy = None /\ EnqueueJob(j)
        \/ /\ \E w \in Workers : ClaimJob(w, j) /\ new.lockedBy = w
           /\ old.status = "queued" /\ new.status = "running"
           /\ new.claims = old.claims + 1
        \/ /\ new.claims = old.claims
           /\ \/ new.status = old.status /\ new.lockedBy = old.lockedBy
              \/ /\ old.status = "queued" /\ new.status = "done"
                 /\ new.lockedBy = old.lockedBy
              \/ /\ old.status \in {"queued", "running"}
                 /\ new.status \in {"queued", "failed"} /\ new.lockedBy = None
              \/ /\ old.status = "running" /\ new.status = "done"
                 /\ new.lockedBy = None
                 /\ \E r \in runs \ runs' : r.job = j /\ Owns(r)

LEMMA LockStepLemma ==
    ASSUME TypeOK, [Next]_vars, NEW i \in Jobs
    PROVE  LockStep(i)
  <1> USE DEF LockStep
  <1> job \in [Jobs -> Row]
    BY DEF TypeOK
  <1>1. ASSUME NEW j \in Jobs, EnqueueJob(j) PROVE LockStep(i)
    <2>1. CASE i = j
      BY <1>1, <2>1 DEF EnqueueJob, NoRow
    <2> QED BY <1>1, <2>1 DEF EnqueueJob
  <1>2. ASSUME NEW j \in Jobs, RefundJobReservation(j) PROVE LockStep(i)
    BY <1>2 DEF RefundJobReservation, Row
  <1>3. ASSUME NEW j \in Jobs, CancelObservation(j) PROVE LockStep(i)
    BY <1>3 DEF CancelObservation, Row
  <1>4. ASSUME NEW j \in Jobs, LockGoesStale(j) \/ RunAfterPasses(j) PROVE LockStep(i)
    BY <1>4 DEF LockGoesStale, RunAfterPasses, Row
  <1>5. ASSUME NEW w \in Workers, NEW j \in Jobs, ClaimJob(w, j) PROVE LockStep(i)
    <2>1. job[j].status = "queued"
      BY <1>5 DEF ClaimJob, Picked, Claimable
    <2>2. job' = [job EXCEPT ![j] = Claimed(job[j], w, MustRecharge(j))]
      BY <1>5 DEF ClaimJob
    <2>3. /\ Claimed(job[j], w, MustRecharge(j)).status = "running"
          /\ Claimed(job[j], w, MustRecharge(j)).lockedBy = w
          /\ Claimed(job[j], w, MustRecharge(j)).claims = job[j].claims + 1
      BY DEF Claimed, Row
    <2> QED BY <1>5, <2>1, <2>2, <2>3
  <1>6. ASSUME NEW w \in Workers, NEW j \in Jobs, DeferJob(w, j) PROVE LockStep(i)
    BY <1>6 DEF DeferJob, Row
  <1>7. ASSUME NEW r \in runs, HeartbeatJob(r) PROVE LockStep(i)
    BY <1>7 DEF HeartbeatJob, Row
  <1>8. ASSUME NEW r \in runs, Unpack(r) PROVE LockStep(i)
    BY <1>8 DEF Unpack
  <1>9. ASSUME NEW r \in runs, RefundJobUnpack(r) PROVE LockStep(i)
    BY <1>2, <1>9 DEF RefundJobUnpack, TypeOK, Run
  <1>10. ASSUME NEW r \in runs, NEW row \in Row, EndRun(r, row), row.lockedBy = None,
                row.status \in {"queued", "failed", "done"},
                row.claims = job[r.job].claims
         PROVE  LockStep(i)
    <2>1. r.job \in Jobs
      BY DEF TypeOK, Run
    <2>2. CASE i = r.job /\ Owns(r)
      BY <1>10, <2>1, <2>2 DEF EndRun, Owns
    <2>3. CASE ~(i = r.job /\ Owns(r))
      BY <1>10, <2>1, <2>3 DEF EndRun
    <2> QED BY <2>2, <2>3
  <1>11. ASSUME NEW r \in runs, FinishJob(r) \/ FailJob(r) \/ RequeueInterruptedJob(r)
         PROVE  LockStep(i)
    <2>1. job[r.job] \in Row
      BY DEF TypeOK, Run
    <2>2. ASSUME NEW status \in {"queued", "failed", "done"}
          PROVE  LET row == Unlocked(job[r.job], status) IN
                 /\ row \in Row /\ row.lockedBy = None /\ row.status = status
                 /\ row.claims = job[r.job].claims
      BY <2>1 DEF Unlocked, Row, Statuses
    <2>3. ASSUME NEW row \in Row, NEW due \in BOOLEAN, NEW n \in Nat
          PROVE  LET set == [row EXCEPT !.due = due, !.attempts = n] IN
                 /\ set \in Row /\ set.lockedBy = row.lockedBy
                 /\ set.status = row.status /\ set.claims = row.claims
      BY DEF Row
    <2>4. ASSUME NEW row \in Row
          PROVE  LET set == [row EXCEPT !.due = FALSE] IN
                 /\ set \in Row /\ set.lockedBy = row.lockedBy
                 /\ set.status = row.status /\ set.claims = row.claims
      BY DEF Row
    <2>5. CASE FinishJob(r)
      BY <1>10, <2>2, <2>5 DEF FinishJob
    <2>6. CASE FailJob(r)
      BY ZenonT(60), <1>10, <2>2, <2>4, <2>6 DEF FailJob
    <2>7. CASE RequeueInterruptedJob(r)
      <3> DEFINE row == Unlocked(job[r.job], "queued")
                 left == IF row.attempts = 0 THEN 0 ELSE row.attempts - 1
      <3>1. /\ row \in Row /\ row.lockedBy = None /\ row.status = "queued"
            /\ row.claims = job[r.job].claims
        BY <2>2
      <3>2. left \in Nat
        BY <3>1, CountersType
      <3>3. EndRun(r, [row EXCEPT !.due = TRUE, !.attempts = left])
        BY <2>7 DEF RequeueInterruptedJob
      <3> HIDE DEF row, left
      <3> QED BY ZenonT(60), <1>10, <2>3, <3>1, <3>2, <3>3
    <2> QED BY <1>11, <2>5, <2>6, <2>7
  <1>12. ASSUME NEW w \in Workers, RecoverStaleJobs(w) PROVE LockStep(i)
    BY ZenonT(60), <1>12 DEF RecoverStaleJobs, Unlocked, Row
  <1>13. ASSUME NEW s \in Sources, DeleteInstallation(s) PROVE LockStep(i)
    BY ZenonT(60), <1>13 DEF DeleteInstallation, Unlocked, Row
  <1>14. CASE UNCHANGED job
    BY <1>14
  <1> QED
    BY <1>1, <1>2, <1>3, <1>4, <1>5, <1>6, <1>7, <1>8, <1>9, <1>11, <1>12, <1>13, <1>14
    DEF Next, RunStep, RefundUpload, Start, Stop, TickEnds, Exit, Crash, SetProc,
        UpsertInstallation, ChangePlan, NextDay, vars

-----------------------------------------------------------------------------
(* Reservations and the usage counters.                                     *)

SameReservation(i) ==
    /\ job'[i].reserved <=> job[i].reserved
    /\ job[i].reserved => job'[i].day = job[i].day

Frame == usage' = usage /\ \A i \in Jobs : SameReservation(i)

Charge(j) ==
    /\ Billed(j) /\ ~job[j].reserved /\ job'[j].reserved
    /\ job'[j].day = today /\ job'[j].status # "absent"
    /\ usage[Payer[j]][today] < HeavyUsageCap(Payer[j])
    /\ usage' = ReserveBillingPayer(Payer[j])
    /\ \A i \in Jobs \ {j} : SameReservation(i)

\* The handlers that give a reservation back.
RefundsOf(j) ==
    \/ RefundUpload(j) \/ CancelObservation(j)
    \/ \E r \in runs : /\ RefundJobUnpack(r) /\ r.job = j
                       /\ job[j].lockedBy = r.worker

Refund(j) ==
    /\ RefundsOf(j) /\ job[j].reserved /\ ~job'[j].reserved
    /\ usage' = RefundBillingPayer(Payer[j], job[j].day)
    /\ \A i \in Jobs \ {j} : SameReservation(i)

LEMMA RefundStep ==
    ASSUME TypeOK, NEW j \in Jobs, RefundJobReservation(j), RefundsOf(j)
    PROVE  Frame \/ Refund(j)
  BY DEF TypeOK, Row, RefundJobReservation, Frame, Refund, SameReservation

\* The steps that leave all reservations alone.
Quiet ==
    \/ \E j \in Jobs : LockGoesStale(j) \/ RunAfterPasses(j)
    \/ \E w \in Workers, j \in Jobs : DeferJob(w, j)
    \/ \E r \in runs : HeartbeatJob(r) \/ FinishJob(r) \/ FailJob(r) \/ RequeueInterruptedJob(r)
    \/ \E w \in Workers : RecoverStaleJobs(w)
    \/ \E s \in Sources : DeleteInstallation(s)
    \/ UNCHANGED <<job, usage>>

LEMMA QuietStep ==
    ASSUME TypeOK, Quiet
    PROVE  Frame
  <1> job \in [Jobs -> Row]
    BY DEF TypeOK
  <1> USE DEF SameReservation
  <1>1. ASSUME NEW j \in Jobs, LockGoesStale(j) \/ RunAfterPasses(j) PROVE Frame
    BY <1>1 DEF LockGoesStale, RunAfterPasses, Row, Frame
  <1>2. ASSUME NEW w \in Workers, NEW j \in Jobs, DeferJob(w, j) PROVE Frame
    BY <1>2 DEF DeferJob, Row, Frame
  <1>3. ASSUME NEW r \in runs, HeartbeatJob(r) PROVE Frame
    BY <1>3 DEF HeartbeatJob, Row, Frame
  <1>4. ASSUME NEW row \in Row, NEW status \in Statuses
        PROVE  LET row2 == Unlocked(row, status) IN
               (row2.reserved <=> row.reserved) /\ row2.day = row.day
    BY DEF Unlocked, Row
  <1>5. ASSUME NEW r \in runs, NEW row \in Row, EndRun(r, row), row.day = job[r.job].day,
               row.reserved <=> job[r.job].reserved
        PROVE  Frame
    BY <1>5 DEF EndRun, TypeOK, Run, Frame
  <1>6. ASSUME NEW r \in runs, FinishJob(r) \/ FailJob(r) \/ RequeueInterruptedJob(r)
         PROVE  Frame
    <2>1. job[r.job] \in Row
      BY DEF TypeOK, Run
    <2> DEFINE old == job[r.job]
    <2>2. ASSUME NEW status \in {"done", "failed", "queued"}
          PROVE  LET row == Unlocked(old, status) IN
                 row \in Row /\ (row.reserved <=> old.reserved) /\ row.day = old.day
      BY <1>4, <2>1, UnlockedType DEF Statuses
    <2>3. CASE FinishJob(r)
      BY <1>5, <2>2, <2>3 DEF FinishJob
    <2>4. ASSUME NEW row \in Row
          PROVE  LET row2 == [row EXCEPT !.due = FALSE] IN
                 row2 \in Row /\ (row2.reserved <=> row.reserved) /\ row2.day = row.day
      BY DEF Row
    <2>5. CASE FailJob(r)
      <3>1. CASE old.attempts >= MaxAttempts
        BY <1>5, <2>2, <2>5, <3>1 DEF FailJob
      <3>2. CASE ~(old.attempts >= MaxAttempts)
        BY <1>5, <2>2, <2>4, <2>5, <3>2 DEF FailJob
      <3> QED BY <3>1, <3>2
    <2>6. ASSUME NEW row \in Row, NEW n \in Nat
          PROVE  LET row2 == [row EXCEPT !.due = TRUE, !.attempts = n] IN
                 row2 \in Row /\ (row2.reserved <=> row.reserved) /\ row2.day = row.day
      BY DEF Row
    <2>7. CASE RequeueInterruptedJob(r)
      <3> DEFINE row == Unlocked(old, "queued")
                 left == IF row.attempts = 0 THEN 0 ELSE row.attempts - 1
      <3>1. row \in Row /\ (row.reserved <=> old.reserved) /\ row.day = old.day
        BY <2>2
      <3>2. left \in Nat
        BY <3>1, CountersType
      <3>3. EndRun(r, [row EXCEPT !.due = TRUE, !.attempts = left])
        BY <2>7 DEF RequeueInterruptedJob
      <3> HIDE DEF row, left
      <3> QED BY <1>5, <2>6, <3>1, <3>2, <3>3
    <2> QED BY <1>6, <2>3, <2>5, <2>7
  <1>7. ASSUME NEW w \in Workers, RecoverStaleJobs(w) PROVE Frame
    <2>1. \A j \in Jobs : LET row == Unlocked(job[j], "queued") IN
                (row.reserved <=> job[j].reserved) /\ row.day = job[j].day
      BY <1>4 DEF Statuses
    <2> QED BY <1>7, <2>1 DEF RecoverStaleJobs, Frame
  <1>8. ASSUME NEW s \in Sources, DeleteInstallation(s) PROVE Frame
    <2>1. \A j \in Jobs : LET row == Unlocked(job[j], "failed") IN
                (row.reserved <=> job[j].reserved) /\ row.day = job[j].day
      BY <1>4 DEF Statuses
    <2> QED BY <1>8, <2>1 DEF DeleteInstallation, Frame
  <1>9. CASE UNCHANGED <<job, usage>>
    BY <1>9 DEF Frame
  <1> QED
    BY <1>1, <1>2, <1>3, <1>6, <1>7, <1>8, <1>9 DEF Quiet

LEMMA ClaimStep ==
    ASSUME TypeOK, NEW w \in Workers, NEW j \in Jobs, ClaimJob(w, j)
    PROVE  Frame \/ Charge(j)
  <1> job \in [Jobs -> Row]
    BY DEF TypeOK
  <1> USE DEF SameReservation
  <1> DEFINE row == Claimed(job[j], w, MustRecharge(j))
  <1>1. job' = [job EXCEPT ![j] = row]
    BY DEF ClaimJob
  <1>2. row.status = "running"
    BY DEF Claimed, Row
  <1>3. CASE MustRecharge(j)
    <2>1. row.reserved /\ row.day = today
      BY <1>3 DEF Claimed, Row
    <2>2. /\ Billed(j) /\ ~job[j].reserved
          /\ usage[Payer[j]][today] < HeavyUsageCap(Payer[j])
          /\ usage' = ReserveBillingPayer(Payer[j])
      BY <1>3 DEF ClaimJob, MustRecharge, CanRecharge, CanReserve
    <2> HIDE DEF row
    <2> QED BY <1>1, <1>2, <2>1, <2>2 DEF Charge
  <1>4. CASE ~MustRecharge(j)
    <2>1. (row.reserved <=> job[j].reserved) /\ row.day = job[j].day
      BY <1>4 DEF Claimed, Row
    <2>2. usage' = usage
      BY <1>4 DEF ClaimJob
    <2> HIDE DEF row
    <2> QED BY <1>1, <2>1, <2>2 DEF Frame
  <1> QED BY <1>3, <1>4

\* A step leaves all reservations alone, or charges one job or refunds one job.
LEMMA BillingStep ==
    ASSUME TypeOK, ReservationOK, [Next]_vars
    PROVE  Frame \/ \E j \in Jobs : Charge(j) \/ Refund(j)
  <1> job \in [Jobs -> Row]
    BY DEF TypeOK
  <1> USE DEF SameReservation
  <1>1. ASSUME NEW j \in Jobs, EnqueueJob(j) PROVE Frame \/ Charge(j)
    <2> DEFINE row == [NoRow EXCEPT !.status = "queued", !.id = nextId, !.due = TRUE,
                         !.reserved = Billed(j), !.day = IF Billed(j) THEN today ELSE 0]
    <2>1. job' = [job EXCEPT ![j] = row] /\ ~job[j].reserved
      BY <1>1 DEF EnqueueJob, ReservationOK
    <2>2. /\ row.reserved <=> Billed(j)
          /\ row.status = "queued" /\ row.day = IF Billed(j) THEN today ELSE 0
      BY DEF NoRow
    <2>3. Billed(j) => /\ usage[Payer[j]][today] < HeavyUsageCap(Payer[j])
                       /\ usage' = ReserveBillingPayer(Payer[j])
      BY <1>1 DEF EnqueueJob, CanReserve
    <2>4. ~Billed(j) => usage' = usage
      BY <1>1 DEF EnqueueJob
    <2> HIDE DEF row
    <2> QED BY <2>1, <2>2, <2>3, <2>4 DEF Frame, Charge
  <1>2. ASSUME NEW j \in Jobs, CancelObservation(j) PROVE Frame \/ Refund(j)
    <2>1. RefundsOf(j)
      BY <1>2 DEF RefundsOf
    <2> QED BY <1>2, <2>1 DEF CancelObservation, Row, Frame, Refund
  <1>3. ASSUME NEW r \in runs, RefundJobUnpack(r)
        PROVE  Frame \/ \E j \in Jobs : Refund(j)
    <2>1. CASE job[r.job].lockedBy = r.worker
      <3>1. r.job \in Jobs /\ RefundJobReservation(r.job)
        BY <1>3, <2>1 DEF RefundJobUnpack, TypeOK, Run
      <3>2. RefundsOf(r.job)
        BY <1>3, <2>1 DEF RefundsOf
      <3> QED BY <3>1, <3>2, RefundStep
    <2>2. CASE job[r.job].lockedBy # r.worker
      BY <1>3, <2>2 DEF RefundJobUnpack, Frame
    <2> QED BY <2>1, <2>2
  <1>4. ASSUME NEW j \in Jobs, RefundUpload(j) PROVE Frame \/ Refund(j)
    BY <1>4, RefundStep DEF RefundUpload, RefundsOf
  <1>5. ASSUME Quiet PROVE Frame
    BY <1>5, QuietStep
  <1> QED
    BY <1>1, <1>2, <1>3, <1>4, <1>5, ClaimStep
    DEF Quiet, Next, RunStep, Unpack, Start, Stop, TickEnds, Exit, Crash, SetProc, UpsertInstallation,
        ChangePlan, NextDay, vars

-----------------------------------------------------------------------------
(* Locks.                                                                   *)

\* No process becomes new again.
LEMMA ProcStep ==
    ASSUME TypeOK, [Next]_vars, NEW w \in Workers, proc[w] # "new"
    PROVE  proc'[w] # "new"
  <1>1. UNCHANGED proc \/ \E v \in Workers : Start(v) \/ Stop(v) \/ TickEnds(v) \/ Exit(v) \/ Crash(v)
    BY DEF Next, RunStep, vars, EnqueueJob, RefundUpload, CancelObservation, LockGoesStale,
           RunAfterPasses, ClaimJob, DeferJob, HeartbeatJob, Unpack, RefundJobUnpack,
           FinishJob, FailJob, RequeueInterruptedJob, EndRun, RecoverStaleJobs,
           DeleteInstallation, UpsertInstallation, ChangePlan, NextDay
  <1> QED BY SMTT(40), <1>1 DEF Start, Stop, TickEnds, Exit, Crash, SetProc, TypeOK

LEMMA LockStatusStep ==
    ASSUME TypeOK, LockMatchesStatus, [Next]_vars
    PROVE  LockMatchesStatus'
  <1> None \notin Workers
    BY JobQueueAssumption
  <1> SUFFICES ASSUME NEW j \in Jobs
               PROVE  LET w == job'[j].lockedBy IN
                      IF job'[j].status = "running" THEN w \in Workers /\ proc'[w] # "new"
                      ELSE w = None
    BY DEF LockMatchesStatus
  <1>1. ASSUME NEW w \in Workers, ClaimJob(w, j) PROVE proc'[w] # "new"
    BY <1>1 DEF ClaimJob, Picked, HasSlot, Ticking
  <1> QED BY <1>1, LockStepLemma, ProcStep DEF LockStep, LockMatchesStatus

\* At most the claimed job of a step starts to run.
LEMMA RunningStep ==
    ASSUME TypeOK, [Next]_vars
    PROVE  \/ \A lane \in Lanes : Running(lane)' \subseteq Running(lane)
           \/ \E w \in Workers, j \in Jobs :
                /\ ClaimJob(w, j)
                /\ \A lane \in Lanes : Running(lane)' \subseteq
                     IF lane = Lane(j) THEN Running(lane) \cup {j} ELSE Running(lane)
  <1>1. CASE \E w \in Workers, j \in Jobs : ClaimJob(w, j)
    <2>1. PICK w \in Workers, j \in Jobs : ClaimJob(w, j)
      BY <1>1
    <2>2. \A i \in Jobs \ {j} : job'[i] = job[i]
      BY <2>1 DEF ClaimJob, TypeOK
    <2> QED BY <2>1, <2>2 DEF Running
  <1>2. CASE ~ \E w \in Workers, j \in Jobs : ClaimJob(w, j)
    BY <1>2, LockStepLemma DEF LockStep, Running
  <1> QED BY <1>1, <1>2

LEMMA RunningFinite == \A lane : IsFiniteSet(Running(lane))
  BY JobQueueAssumption, FS_Subset DEF Running

LEMMA ConcurrencyStep ==
    ASSUME TypeOK, WithinConcurrency, [Next]_vars
    PROVE  WithinConcurrency'
  <1> SUFFICES ASSUME NEW lane \in Lanes
               PROVE  Cardinality(Running(lane)') <= Concurrency[lane]
    BY DEF WithinConcurrency
  <1>1. /\ IsFiniteSet(Running(lane)) /\ Cardinality(Running(lane)) \in Nat
        /\ Concurrency[lane] \in Nat
    BY RunningFinite, FS_CardinalityType, JobQueueAssumption
  <1>2. CASE Running(lane)' \subseteq Running(lane)
    <2>1. /\ Cardinality(Running(lane)') <= Cardinality(Running(lane))
          /\ IsFiniteSet(Running(lane)')
      BY <1>1, <1>2, FS_Subset
    <2>2. Cardinality(Running(lane)') \in Nat
      BY <2>1, FS_CardinalityType
    <2>3. Cardinality(Running(lane)) <= Concurrency[lane]
      BY DEF WithinConcurrency
    <2> QED BY <1>1, <2>1, <2>2, <2>3
  <1>3. ASSUME NEW w \in Workers, NEW j \in Jobs, ClaimJob(w, j), lane = Lane(j),
               Running(lane)' \subseteq Running(lane) \cup {j}
        PROVE  Cardinality(Running(lane)') <= Concurrency[lane]
    <2>1. Cardinality(Running(lane)) < Concurrency[lane]
      BY <1>3 DEF ClaimJob, Picked, HasSlot, Ticking
    <2>2. /\ IsFiniteSet(Running(lane) \cup {j})
          /\ Cardinality(Running(lane) \cup {j}) <= Cardinality(Running(lane)) + 1
      <3>1. /\ IsFiniteSet(Running(lane) \cup {j})
            /\ Cardinality(Running(lane) \cup {j}) =
                  IF j \in Running(lane) THEN Cardinality(Running(lane))
                  ELSE Cardinality(Running(lane)) + 1
        BY <1>1, FS_AddElement
      <3> QED BY <1>1, <3>1
    <2>3. /\ IsFiniteSet(Running(lane)')
          /\ Cardinality(Running(lane)') <= Cardinality(Running(lane) \cup {j})
      BY <1>3, <2>2, FS_Subset
    <2>4. /\ Cardinality(Running(lane)') \in Nat
          /\ Cardinality(Running(lane) \cup {j}) \in Nat
      BY <2>2, <2>3, FS_CardinalityType
    <2> QED BY <1>1, <2>1, <2>2, <2>3, <2>4
  <1> QED BY <1>2, <1>3, RunningStep

LEMMA ExclusiveStep ==
    ASSUME TypeOK, PersonalExclusive, [Next]_vars
    PROVE  PersonalExclusive'
  <1> "heavy" \in Lanes
    BY DEF Lanes
  <1>1. CASE Running("heavy")' \subseteq Running("heavy")
    BY <1>1 DEF PersonalExclusive
  <1>2. ASSUME NEW w \in Workers, NEW j \in Jobs, ClaimJob(w, j), Lane(j) = "heavy",
               Running("heavy")' \subseteq Running("heavy") \cup {j}
        PROVE  PersonalExclusive'
    <2>1. ASSUME Payer[j] \in Personal PROVE RunningFor(Payer[j]) = {}
      <3>1. FairUse(j)
        BY <1>2 DEF ClaimJob, Picked, Claimable
      <3>2. Cardinality(RunningFor(Payer[j])) < 1
        BY <1>2, <2>1, <3>1, JobQueueAssumption DEF FairUse, HeavyFairUseCap
      <3>3. IsFiniteSet(RunningFor(Payer[j]))
        BY RunningFinite, FS_Subset DEF RunningFor
      <3> QED BY <3>2, <3>3, FS_CardinalityType, FS_EmptySet
    <2> QED BY <1>2, <2>1 DEF PersonalExclusive, RunningFor
  <1> QED BY <1>1, <1>2, RunningStep

-----------------------------------------------------------------------------
(* Reservations.                                                            *)

LEMMA ReservationStep ==
    ASSUME TypeOK, ReservationOK, [Next]_vars
    PROVE  ReservationOK'
  <1> SUFFICES ASSUME NEW i \in Jobs, job'[i].reserved
               PROVE  /\ Payer[i] \in Payers /\ job'[i].day \in Days
                      /\ job'[i].status # "absent"
    BY DEF ReservationOK
  <1>1. job[i].status # "absent" => job'[i].status # "absent"
    BY LockStepLemma DEF LockStep
  <1>2. CASE Charge(i)
    BY <1>2, BilledPayer DEF Charge, TypeOK
  <1>3. CASE SameReservation(i)
    BY <1>1, <1>3 DEF SameReservation, ReservationOK
  <1> QED BY <1>2, <1>3, BillingStep DEF Frame, Charge, Refund

LEMMA ReservationsFinite == \A p, d : IsFiniteSet(Reservations(p, d))
  BY JobQueueAssumption, FS_Subset DEF Reservations

LEMMA LedgerStep ==
    ASSUME TypeOK, ReservationOK, LedgerExact, [Next]_vars
    PROVE  LedgerExact'
  <1> SUFFICES ASSUME NEW p \in Payers, NEW d \in Days
               PROVE  usage'[p][d] = Cardinality(Reservations(p, d)')
    BY DEF LedgerExact
  <1>1. /\ usage[p][d] = Cardinality(Reservations(p, d)) /\ usage[p][d] \in Nat
        /\ IsFiniteSet(Reservations(p, d)) /\ usage \in [Payers -> [Days -> Nat]]
        /\ today \in Days
    BY ReservationsFinite DEF LedgerExact, TypeOK
  <1>2. CASE Frame
    <2>1. Reservations(p, d)' = Reservations(p, d)
      BY <1>2 DEF Frame, SameReservation, Reservations
    <2> QED BY <1>1, <1>2, <2>1 DEF Frame
  <1>3. ASSUME NEW j \in Jobs, Charge(j)
        PROVE  usage'[p][d] = Cardinality(Reservations(p, d)')
    <2>1. Payer[j] \in Payers /\ usage' = ReserveBillingPayer(Payer[j])
      BY <1>3, BilledPayer DEF Charge
    <2>2. CASE p = Payer[j] /\ d = today
      <3>1. Reservations(p, d)' = Reservations(p, d) \cup {j} /\ j \notin Reservations(p, d)
        BY <1>3, <2>2 DEF Charge, SameReservation, Reservations
      <3>2. Cardinality(Reservations(p, d)') = Cardinality(Reservations(p, d)) + 1
        BY <1>1, <3>1, FS_AddElement
      <3>3. usage'[p][d] = usage[p][d] + 1
        BY <1>1, <2>1, <2>2 DEF ReserveBillingPayer
      <3> QED BY <1>1, <3>2, <3>3
    <2>3. CASE ~(p = Payer[j] /\ d = today)
      <3>1. Reservations(p, d)' = Reservations(p, d)
        BY <1>3, <2>3 DEF Charge, SameReservation, Reservations
      <3>2. usage'[p][d] = usage[p][d]
        BY <1>1, <2>1, <2>3 DEF ReserveBillingPayer
      <3> QED BY <1>1, <3>1, <3>2
    <2> QED BY <2>2, <2>3
  <1>4. ASSUME NEW j \in Jobs, Refund(j)
        PROVE  usage'[p][d] = Cardinality(Reservations(p, d)')
    <2>1. /\ Payer[j] \in Payers /\ job[j].day \in Days
          /\ usage' = RefundBillingPayer(Payer[j], job[j].day)
      BY <1>4 DEF Refund, ReservationOK
    <2>2. CASE p = Payer[j] /\ d = job[j].day
      <3>1. Reservations(p, d)' = Reservations(p, d) \ {j} /\ j \in Reservations(p, d)
        BY <1>4, <2>2 DEF Refund, SameReservation, Reservations
      <3>2. Cardinality(Reservations(p, d)') = Cardinality(Reservations(p, d)) - 1
        BY ZenonT(60), <1>1, <3>1, FS_RemoveElement
      <3>3. Cardinality(Reservations(p, d)) # 0
        BY <1>1, <3>1, FS_EmptySet
      <3>4. usage'[p][d] = IF usage[p][d] = 0 THEN 0 ELSE usage[p][d] - 1
        BY <1>1, <2>1, <2>2 DEF RefundBillingPayer
      <3> QED BY <1>1, <3>2, <3>3, <3>4
    <2>3. CASE ~(p = Payer[j] /\ d = job[j].day)
      <3>1. Reservations(p, d)' = Reservations(p, d)
        BY <1>4, <2>3 DEF Refund, SameReservation, Reservations
      <3>2. usage'[p][d] = usage[p][d]
        BY SMTT(40), <1>1, <2>1, <2>3 DEF RefundBillingPayer
      <3> QED BY <1>1, <3>1, <3>2
    <2> QED BY <2>2, <2>3
  <1> QED BY <1>2, <1>3, <1>4, BillingStep

-----------------------------------------------------------------------------
(* Leases: the claim of a run never exceeds the claims of its job, and two   *)
(* runs never share a claim.                                               *)

LeasesDistinct ==
    /\ \A r \in runs : /\ r.claim <= job[r.job].claims
                       /\ job[r.job].status # "absent"
    /\ \A r, z \in runs : r.job = z.job /\ r.claim = z.claim => r = z

LEMMA RunsStep ==
    ASSUME [Next]_vars
    PROVE  \/ runs' \subseteq runs
           \/ \E r \in runs, stage \in {"scanned", "refunded"} : SetStage(r, stage)
           \/ \E w \in Workers, j \in Jobs : ClaimJob(w, j)
  BY DEF Next, RunStep, vars, EnqueueJob, RefundUpload, CancelObservation, LockGoesStale,
         RunAfterPasses, DeferJob, HeartbeatJob, Unpack, RefundJobUnpack, FinishJob, FailJob,
         RequeueInterruptedJob, EndRun, RecoverStaleJobs, Start, Stop, TickEnds, Exit, Crash, SetProc,
         DeleteInstallation, UpsertInstallation, ChangePlan, NextDay

LEMMA LeaseStep ==
    ASSUME TypeOK, LeasesDistinct, [Next]_vars
    PROVE  LeasesDistinct'
  <1> runs \subseteq Run
    BY DEF TypeOK
  <1>1. \A r \in runs : /\ r.job \in Jobs /\ r.claim \in Nat
                         /\ job[r.job].claims \in Nat
    BY DEF TypeOK, Row, Run
  <1>2. \A r \in runs : /\ r.claim <= job'[r.job].claims
                         /\ job'[r.job].status # "absent"
    <2> SUFFICES ASSUME NEW r \in runs
                 PROVE  /\ r.claim <= job'[r.job].claims
                        /\ job'[r.job].status # "absent"
      OBVIOUS
    <2>1. LockStep(r.job) /\ job[r.job].status # "absent" /\ r.claim <= job[r.job].claims
      BY <1>1, LockStepLemma DEF LeasesDistinct
    <2>2. /\ job'[r.job].status # "absent"
          /\ \/ job'[r.job].claims = job[r.job].claims
             \/ job'[r.job].claims = job[r.job].claims + 1
      BY <2>1 DEF LockStep
    <2> QED BY <1>1, <2>1, <2>2
  <1>3. CASE runs' \subseteq runs
    BY <1>2, <1>3 DEF LeasesDistinct
  <1>4. ASSUME NEW r \in runs, NEW stage \in {"scanned", "refunded"}, SetStage(r, stage)
        PROVE  LeasesDistinct'
    <2> DEFINE new == [r EXCEPT !.stage = stage]
    <2>1. new.job = r.job /\ new.claim = r.claim
      BY DEF Run
    <2>2. runs' = (runs \ {r}) \cup {new}
      BY <1>4 DEF SetStage
    <2> HIDE DEF new
    <2> QED BY <1>2, <2>1, <2>2 DEF LeasesDistinct
  <1>5. ASSUME NEW w \in Workers, NEW j \in Jobs, ClaimJob(w, j)
        PROVE  LeasesDistinct'
    <2> DEFINE new == [worker |-> w, job |-> j, claim |-> job[j].claims + 1,
                       stage |-> "fresh"]
    <2>1. new.job = j /\ new.claim = job[j].claims + 1 /\ runs' = runs \cup {new}
      BY <1>5 DEF ClaimJob
    <2>2. /\ job[j].status = "queued" /\ job[j].claims \in Nat
      BY <1>5 DEF ClaimJob, Picked, Claimable, TypeOK, Row
    <2>3. job'[j].claims = job[j].claims + 1 /\ job'[j].status # "absent"
      <3>1. job'[j] = Claimed(job[j], w, MustRecharge(j)) /\ job[j] \in Row
        BY <1>5 DEF ClaimJob, TypeOK
      <3> QED BY <3>1 DEF Claimed, Row
    <2>4. \A r \in runs : r.job = j => r.claim # new.claim
      BY <1>1, <2>1, <2>2 DEF LeasesDistinct
    <2> HIDE DEF new
    <2> QED BY <1>2, <2>1, <2>2, <2>3, <2>4 DEF LeasesDistinct
  <1> QED BY <1>3, <1>4, <1>5, RunsStep

-----------------------------------------------------------------------------
(* The invariant, and what follows from it.                                 *)

IInv ==
    /\ TypeOK /\ ReservationOK /\ LedgerExact /\ LeasesDistinct
    /\ LockMatchesStatus /\ WithinConcurrency /\ PersonalExclusive

LEMMA InitInvariant ==
    ASSUME Init
    PROVE  IInv
  <1>1. NoRow \in Row
    BY DEF NoRow, Row, Statuses
  <1>2. TypeOK
    BY <1>1, JobQueueAssumption DEF Init, TypeOK, Days
  <1>3. /\ ReservationOK /\ LockMatchesStatus /\ LeasesDistinct
        /\ \A lane \in Lanes : Running(lane) = {}
        /\ \A p \in Payers, d \in Days : Reservations(p, d) = {}
    BY DEF Init, ReservationOK, LockMatchesStatus, LeasesDistinct, Running,
           Reservations, NoRow
  <1>4. WithinConcurrency
    <2>1. \A lane \in Lanes : Cardinality(Running(lane)) = 0 /\ Concurrency[lane] \in Nat
      BY <1>3, FS_EmptySet, JobQueueAssumption
    <2> QED BY <2>1 DEF WithinConcurrency
  <1>5. PersonalExclusive
    BY <1>3 DEF PersonalExclusive, Lanes
  <1>6. LedgerExact
    BY <1>3, FS_EmptySet DEF LedgerExact, Init
  <1> QED BY <1>2, <1>3, <1>4, <1>5, <1>6 DEF IInv

\* The invariant holds in every state, whatever the workers, webhooks and
\* stalled runs do.
THEOREM Invariant == Spec => []IInv
  <1>1. IInv /\ [Next]_vars => IInv'
    BY TypeStep, ReservationStep, LedgerStep, LeaseStep, LockStatusStep, ConcurrencyStep,
       ExclusiveStep DEF IInv
  <1> QED BY InitInvariant, <1>1, PTL DEF Spec

\* Rows, runs, counters and process states keep their types.
THEOREM TypeCorrect == Spec => []TypeOK
  BY Invariant, PTL DEF IInv

\* Usage counters always equal the reservations that jobs hold.
THEOREM LedgerCorrect == Spec => []LedgerExact
  BY Invariant, PTL DEF IInv

\* No lane runs more rows than its concurrency, on all hosts together.
THEOREM ConcurrencyCorrect == Spec => []WithinConcurrency
  BY Invariant, PTL DEF IInv

\* A user runs one heavy job at a time.
THEOREM ExclusionCorrect == Spec => []PersonalExclusive
  BY Invariant, PTL DEF IInv

\* A row is locked by a started process exactly while it runs.
THEOREM LocksCorrect == Spec => []LockMatchesStatus
  BY Invariant, PTL DEF IInv

\* Done and failed jobs stay so.
THEOREM TerminalCorrect == Spec => TerminalIsFinal
  <1>1. IInv /\ [Next]_vars =>
          [\A j \in Jobs : job[j].status \in {"done", "failed"}
                              => job'[j].status = job[j].status]_vars
    BY LockStepLemma DEF IInv, LockStep
  <1> QED BY Invariant, <1>1, PTL DEF Spec, TerminalIsFinal

\* Only an ending run of the lock holder completes a running job.
THEOREM CompletionCorrect == Spec => EndedByLockHolder
  <1>1. IInv /\ [Next]_vars =>
          [\A j \in Jobs :
              job[j].status = "running" /\ job'[j].status = "done"
                => \E r \in runs \ runs' :
                      r.job = j /\ r.worker = job[j].lockedBy]_vars
    BY LockStepLemma DEF IInv, LockStep, Owns
  <1> QED BY Invariant, <1>1, PTL DEF Spec, EndedByLockHolder

\* A charge stays within the daily allowance of the payer's plan.
THEOREM AllowanceCorrect == Spec => ChargeWithinAllowance
  <1>1. ASSUME IInv, [Next]_vars, NEW p \in Payers, NEW d \in Days,
               usage'[p][d] > usage[p][d]
        PROVE  d = today /\ usage'[p][d] <= HeavyUsageCap(p)
    <2>1. /\ usage \in [Payers -> [Days -> Nat]] /\ usage[p][d] \in Nat /\ today \in Days
          /\ HeavyUsageCap(p) \in Nat
      BY <1>1, JobQueueAssumption DEF IInv, TypeOK, HeavyUsageCap
    <2>2. CASE Frame
      BY <1>1, <2>1, <2>2 DEF Frame
    <2>3. ASSUME NEW j \in Jobs, Charge(j)
          PROVE  d = today /\ usage'[p][d] <= HeavyUsageCap(p)
      <3>1. Payer[j] \in Payers /\ usage' = ReserveBillingPayer(Payer[j])
        BY <2>3, BilledPayer DEF Charge
      <3>2. p = Payer[j] /\ d = today /\ usage'[p][d] = usage[p][d] + 1
        BY <1>1, <2>1, <3>1 DEF ReserveBillingPayer
      <3>3. usage[p][d] < HeavyUsageCap(p)
        BY <2>3, <3>2 DEF Charge
      <3> QED BY <2>1, <3>2, <3>3
    <2>4. ASSUME NEW j \in Jobs, Refund(j)
          PROVE  FALSE
      <3>1. /\ Payer[j] \in Payers /\ job[j].day \in Days
            /\ usage' = RefundBillingPayer(Payer[j], job[j].day)
        BY <1>1, <2>4 DEF IInv, Refund, ReservationOK
      <3>2. \/ usage'[p][d] = usage[p][d]
            \/ usage'[p][d] = IF usage[p][d] = 0 THEN 0 ELSE usage[p][d] - 1
        BY <2>1, <3>1 DEF RefundBillingPayer
      <3> QED BY <1>1, <2>1, <3>2
    <2> QED BY <1>1, <2>2, <2>3, <2>4, BillingStep DEF IInv
  <1>2. IInv /\ [Next]_vars =>
          [\A p \in Payers, d \in Days : usage'[p][d] > usage[p][d]
              => d = today /\ usage'[p][d] <= HeavyUsageCap(p)]_vars
    BY <1>1
  <1> QED BY Invariant, <1>2, PTL DEF Spec, ChargeWithinAllowance

\* Only an earlier run of the same process can refund what the current run scanned.
THEOREM RefundCorrect == Spec => RefundSparesScanned
  <1>1. ASSUME IInv, [Next]_vars, NEW r \in runs, Current(r), r.stage = "scanned",
               Kind[r.job] # "upload", job[r.job].reserved, ~job'[r.job].reserved
        PROVE  \E z \in runs : z.worker = r.worker /\ z.job = r.job /\ z.claim < r.claim
    <2>1. /\ r.job \in Jobs /\ job[r.job].status = "running"
          /\ job[r.job].lockedBy = r.worker /\ r.claim = job[r.job].claims
          /\ \A z \in runs : z.claim \in Nat
      BY <1>1 DEF IInv, TypeOK, Run, Current, Owns
    <2>2. RefundsOf(r.job)
      BY <1>1, <2>1, BillingStep DEF IInv, Frame, Charge, Refund, SameReservation
    <2>3. PICK z \in runs : /\ RefundJobUnpack(z) /\ z.job = r.job
                            /\ job[r.job].lockedBy = z.worker
      BY <1>1, <2>1, <2>2 DEF RefundsOf, RefundUpload, CancelObservation
    <2>4. z # r
      BY <1>1, <2>3 DEF RefundJobUnpack
    <2>5. z.claim <= r.claim /\ z.claim # r.claim
      BY <1>1, <2>1, <2>3, <2>4 DEF IInv, LeasesDistinct
    <2> QED BY <2>1, <2>3, <2>5
  <1>2. IInv /\ [Next]_vars =>
          [\A r \in runs :
              /\ Current(r) /\ r.stage = "scanned"
              /\ Kind[r.job] # "upload"
              /\ job[r.job].reserved /\ ~job'[r.job].reserved
              => \E z \in runs : /\ z.worker = r.worker /\ z.job = r.job
                                  /\ z.claim < r.claim]_vars
    BY <1>1
  <1> QED BY Invariant, <1>2, PTL DEF Spec, RefundSparesScanned

-----------------------------------------------------------------------------
(* The promise: every step of the queue, seen through the mapping, is a step *)
(* of JobPromise or leaves it alone.                                        *)

phaseBar == [j \in Jobs |-> Phase(job[j].status)]
holderBar == [j \in Jobs |-> job[j].lockedBy]
chargeBar == [j \in Jobs |-> IF job[j].reserved THEN job[j].day ELSE 0]

LEMMA PhaseValues ==
    /\ Phase("absent") = "absent" /\ Phase("queued") = "waiting"
    /\ Phase("running") = "held" /\ Phase("done") = "over" /\ Phase("failed") = "over"
  BY DEF Phase

\* The steps of the promise, written with the mapped variables.
LEMMA Mapped ==
    /\ Promise!Init <=>
         /\ phaseBar = [j \in Jobs |-> "absent"]
         /\ holderBar = [j \in Jobs |-> None]
         /\ chargeBar = [j \in Jobs |-> 0]
         /\ today = 1
    /\ Promise!vars = <<phaseBar, holderBar, chargeBar, today>>
    /\ \A p, d : Promise!ChargedFor(p, d) = {j \in Jobs : Payer[j] = p /\ chargeBar[j] = d}
    /\ \A lane : Promise!Held(lane) =
         {j \in Jobs : phaseBar[j] = "held" /\ [i \in Jobs |-> Lane(i)][j] = lane}
  BY DEF Promise!Init, Promise!vars, Promise!ChargedFor, Promise!Held,
         phaseBar, holderBar, chargeBar

\* The promise counts with its own instance of the library's definition.
LEMMA SameCount == \A S : Promise!Cardinality(S) = Cardinality(S)
  BY Zenon DEF Promise!Cardinality, Cardinality

-----------------------------------------------------------------------------
(* The books.                                                               *)

LEMMA FrameBar ==
    ASSUME Frame
    PROVE  UNCHANGED chargeBar
  BY DEF Frame, SameReservation, chargeBar

LEMMA RefundBar ==
    ASSUME NEW j \in Jobs, ~job'[j].reserved, \A i \in Jobs \ {j} : SameReservation(i)
    PROVE  chargeBar' = [chargeBar EXCEPT ![j] = 0]
  BY DEF SameReservation, chargeBar

\* The reservations of a day are the charges on that day's books.
LEMMA Books ==
    ASSUME NEW p, NEW d \in Days
    PROVE  Promise!ChargedFor(p, d) = Reservations(p, d)
  <1>1. d # 0
    BY JobQueueAssumption DEF Days
  <1>2. \A j \in Jobs : chargeBar[j] = d <=> job[j].reserved /\ job[j].day = d
    BY <1>1 DEF chargeBar
  <1> QED BY <1>2, Mapped DEF Reservations

\* A recharge or a first charge finds room on today's books.
LEMMA ChargeBar ==
    ASSUME IInv, NEW j \in Jobs, Charge(j)
    PROVE  Promise!Charge(j)
  <1>1. /\ Payer[j] \in Payers /\ today \in Days
        /\ usage[Payer[j]][today] < HeavyUsageCap(Payer[j])
    BY BilledPayer DEF Charge, IInv, TypeOK
  <1>2. Promise!Cardinality(Promise!ChargedFor(Payer[j], today)) < HeavyUsageCap(Payer[j])
    BY <1>1, Books, SameCount DEF IInv, LedgerExact
  <1>3. HeavyUsageCap(Payer[j]) \in {SoloDaily, TeamDaily}
    BY DEF HeavyUsageCap
  <1>4. chargeBar' = [chargeBar EXCEPT ![j] = today]
    BY DEF Charge, SameReservation, chargeBar
  <1> QED
    BY <1>2, <1>3, <1>4 DEF Promise!Charge, chargeBar, Charge

\* Nothing is charged for a job that nobody pays for or that is on the books.
LEMMA ChargedBar ==
    ASSUME IInv, NEW j \in Jobs, Frame, Billed(j) => job[j].reserved
    PROVE  Promise!Charge(j)
  <1>1. Billed(j) => chargeBar[j] # 0
    BY JobQueueAssumption DEF IInv, ReservationOK, chargeBar, Days
  <1> QED BY <1>1, FrameBar DEF Promise!Charge, chargeBar

-----------------------------------------------------------------------------
(* The hands.                                                               *)

LEMMA HandsSame ==
    ASSUME \A i \in Jobs : /\ job'[i].status = job[i].status
                           /\ job'[i].lockedBy = job[i].lockedBy
    PROVE  UNCHANGED <<phaseBar, holderBar>>
  BY DEF phaseBar, holderBar

LEMMA LeaveBar ==
    ASSUME NEW S \in SUBSET Jobs, NEW to,
           \A i \in S : Phase(job'[i].status) = to /\ job'[i].lockedBy = None,
           \A i \in Jobs \ S : /\ job'[i].status = job[i].status
                               /\ job'[i].lockedBy = job[i].lockedBy
    PROVE  Promise!Leave(S, to)
  <1>1. phaseBar' = [i \in Jobs |-> IF i \in S THEN to ELSE phaseBar[i]]
    BY DEF phaseBar
  <1>2. holderBar' = [i \in Jobs |-> IF i \in S THEN None ELSE holderBar[i]]
    BY DEF holderBar
  <1> QED BY <1>1, <1>2 DEF Promise!Leave, phaseBar, holderBar

LEMMA SubmitBar ==
    ASSUME IInv, NEW j \in Jobs, EnqueueJob(j)
    PROVE  Promise!Submit(j)
  <1> DEFINE row == [NoRow EXCEPT !.status = "queued", !.id = nextId, !.due = TRUE,
                       !.reserved = Billed(j), !.day = IF Billed(j) THEN today ELSE 0]
  <1>1. /\ job[j].status = "absent" /\ job' = [job EXCEPT ![j] = row]
        /\ job \in [Jobs -> Row] /\ today' = today
    BY DEF EnqueueJob, IInv, TypeOK
  <1>2. /\ row.status = "queued" /\ row.lockedBy = None /\ (row.reserved <=> Billed(j))
    BY DEF NoRow
  <1> HIDE DEF row
  <1>3. job[j].lockedBy = None /\ ~job[j].reserved
    BY <1>1 DEF IInv, LockMatchesStatus, ReservationOK
  <1>4. phaseBar[j] = "absent" /\ phaseBar' = [phaseBar EXCEPT ![j] = "waiting"]
    BY <1>1, <1>2, PhaseValues DEF phaseBar
  <1>5. holderBar' = holderBar
    BY <1>1, <1>2, <1>3 DEF holderBar
  <1>6. Promise!Charge(j)
    <2>2. \A i \in Jobs \ {j} : SameReservation(i)
      BY <1>1 DEF SameReservation
    <2>3. CASE Billed(j)
      <3>1. Charge(j)
        BY <1>1, <1>2, <1>3, <2>2, <2>3 DEF Charge, EnqueueJob, CanReserve
      <3> QED BY <3>1, ChargeBar
    <2>4. CASE ~Billed(j)
      <3>1. Frame
        BY <1>1, <1>2, <1>3, <2>2, <2>4 DEF EnqueueJob, Frame, SameReservation
      <3> QED BY <2>4, <3>1, ChargedBar
    <2> QED BY <2>3, <2>4
  <1> QED
    BY <1>1, <1>4, <1>5, <1>6 DEF Promise!Submit, phaseBar, holderBar

LEMMA TakeBar ==
    ASSUME IInv, NEW w \in Workers, NEW j \in Jobs, ClaimJob(w, j)
    PROVE  Promise!Take(w, j)
  <1> DEFINE row == Claimed(job[j], w, MustRecharge(j))
  <1>1. /\ job[j].status = "queued" /\ job' = [job EXCEPT ![j] = row]
        /\ job \in [Jobs -> Row] /\ today' = today
        /\ Cardinality(Running(Lane(j))) < Concurrency[Lane(j)]
    BY DEF ClaimJob, Picked, Claimable, HasSlot, Ticking, IInv, TypeOK
  <1>2. /\ row.status = "running" /\ row.lockedBy = w
        /\ MustRecharge(j) => row.reserved
    BY <1>1 DEF Claimed, Row
  <1> HIDE DEF row
  <1>3. phaseBar[j] = "waiting" /\ phaseBar' = [phaseBar EXCEPT ![j] = "held"]
    BY <1>1, <1>2, PhaseValues DEF phaseBar
  <1>4. holderBar' = [holderBar EXCEPT ![j] = w]
    BY <1>1, <1>2 DEF holderBar
  <1>5. Promise!Held(Lane(j)) = Running(Lane(j))
    <2>1. \A i \in Jobs : Phase(job[i].status) = "held" <=> job[i].status = "running"
      BY <1>1 DEF Phase, Row, Statuses
    <2> QED BY <2>1, Mapped DEF Running, phaseBar
  <1>6. Promise!Cardinality(Promise!Held(Lane(j))) < Concurrency[Lane(j)]
    BY <1>1, <1>5, SameCount
  <1>7. Promise!Charge(j)
    <2>1. CASE MustRecharge(j)
      <3>1. ~Frame
        BY <1>1, <1>2, <2>1 DEF Frame, SameReservation, MustRecharge
      <3> QED BY <3>1, ClaimStep, ChargeBar DEF IInv
    <2>2. CASE ~MustRecharge(j)
      <3>1. Billed(j) => job[j].reserved
        BY <2>2 DEF MustRecharge
      <3>2. Frame
        <4>1. Charge(j) => MustRecharge(j)
          BY DEF Charge, MustRecharge
        <4> QED BY <2>2, <4>1, ClaimStep DEF IInv
      <3> QED BY <3>1, <3>2, ChargedBar
    <2> QED BY <2>1, <2>2
  <1> QED
    BY <1>1, <1>3, <1>4, <1>6, <1>7 DEF Promise!Take, phaseBar, holderBar

\* A step that leaves the books alone and takes the jobs of S out of the
\* hands that hold them gives them back or closes them.
LEMMA GiveBackBar ==
    ASSUME NEW S \in SUBSET Jobs, Frame, UNCHANGED today,
           \A i \in S : /\ job[i].status = "running"
                        /\ job'[i].status = "queued" /\ job'[i].lockedBy = None,
           \A i \in Jobs \ S : /\ job'[i].status = job[i].status
                               /\ job'[i].lockedBy = job[i].lockedBy
    PROVE  Promise!GiveBack(S)
  <1>1. Promise!Leave(S, "waiting")
    BY LeaveBar, PhaseValues
  <1>2. \A i \in S : phaseBar[i] = "held"
    BY PhaseValues DEF phaseBar
  <1> QED BY <1>1, <1>2, FrameBar DEF Promise!GiveBack, phaseBar, chargeBar

LEMMA CloseBar ==
    ASSUME NEW S \in SUBSET Jobs, Frame, UNCHANGED today,
           \A i \in S : /\ job[i].status \in {"queued", "running"}
                        /\ job'[i].status \in {"done", "failed"} /\ job'[i].lockedBy = None,
           \A i \in Jobs \ S : /\ job'[i].status = job[i].status
                               /\ job'[i].lockedBy = job[i].lockedBy
    PROVE  Promise!Close(S)
  <1>1. Promise!Leave(S, "over")
    BY LeaveBar, PhaseValues
  <1>2. \A i \in S : phaseBar[i] \in {"waiting", "held"}
    BY PhaseValues DEF phaseBar
  <1> QED BY <1>1, <1>2, FrameBar DEF Promise!Close, phaseBar, chargeBar

LEMMA CancelBar ==
    ASSUME IInv, NEW j \in Jobs, CancelObservation(j)
    PROVE  Promise!Cancel(j)
  <1>1. /\ job \in [Jobs -> Row] /\ job[j].status = "queued" /\ job[j].lockedBy = None
        /\ today' = today
    BY DEF CancelObservation, IInv, TypeOK, LockMatchesStatus
  <1>2. /\ job'[j].status = "done" /\ job'[j].lockedBy = None /\ ~job'[j].reserved
        /\ \A i \in Jobs \ {j} : job'[i] = job[i]
    BY <1>1 DEF CancelObservation, Row
  <1>3. Promise!Leave({j}, "over")
    BY <1>2, LeaveBar, PhaseValues
  <1>4. chargeBar' = [chargeBar EXCEPT ![j] = 0]
    BY <1>2, RefundBar DEF SameReservation
  <1>5. phaseBar[j] = "waiting"
    BY <1>1, PhaseValues DEF phaseBar
  <1> QED BY <1>1, <1>3, <1>4, <1>5 DEF Promise!Cancel, phaseBar, chargeBar

LEMMA RefundReservationBar ==
    ASSUME IInv, NEW j \in Jobs, RefundJobReservation(j), UNCHANGED today
    PROVE  Promise!Refund(j) \/ UNCHANGED Promise!vars
  <1> job \in [Jobs -> Row]
    BY DEF IInv, TypeOK
  <1>1. \A i \in Jobs : /\ job'[i].status = job[i].status
                        /\ job'[i].lockedBy = job[i].lockedBy
    BY DEF RefundJobReservation, Row
  <1>2. CASE job[j].reserved
    <2>1. ~job'[j].reserved /\ \A i \in Jobs \ {j} : SameReservation(i)
      BY <1>2 DEF RefundJobReservation, SameReservation, Row
    <2>2. chargeBar' = [chargeBar EXCEPT ![j] = 0]
      BY <2>1, RefundBar
    <2> QED
      BY <1>1, <2>2, HandsSame DEF Promise!Refund, phaseBar, holderBar, chargeBar
  <1>3. CASE ~job[j].reserved
    <2>1. Frame
      BY <1>3 DEF RefundJobReservation, Frame, SameReservation
    <2> QED
      BY <1>1, <2>1, HandsSame, FrameBar DEF Promise!vars, phaseBar, holderBar, chargeBar
  <1> QED BY <1>2, <1>3

-----------------------------------------------------------------------------
(* Every step.                                                              *)

LEMMA Stutter ==
    ASSUME Frame, UNCHANGED today,
           \A i \in Jobs : /\ job'[i].status = job[i].status
                           /\ job'[i].lockedBy = job[i].lockedBy
    PROVE  UNCHANGED Promise!vars
  BY HandsSame, FrameBar DEF Promise!vars, phaseBar, holderBar, chargeBar

\* The end of a run gives its job back or closes it, or has lost the lock.
LEMMA EndBar ==
    ASSUME IInv, NEW r \in runs, FinishJob(r) \/ FailJob(r) \/ RequeueInterruptedJob(r)
    PROVE  \/ Promise!GiveBack({r.job}) \/ Promise!Close({r.job})
           \/ UNCHANGED Promise!vars
  <1>1. /\ r.job \in Jobs /\ job \in [Jobs -> Row]
        /\ today' = today /\ Frame /\ [Next]_vars
    BY QuietStep DEF IInv, TypeOK, Run, Quiet, Next, RunStep, FinishJob, FailJob,
                     RequeueInterruptedJob, EndRun
  <1>2. \A i \in Jobs \ {r.job} : job'[i] = job[i]
    BY <1>1 DEF FinishJob, FailJob, RequeueInterruptedJob, EndRun
  <1>3. CASE ~Owns(r)
    <2>1. job' = job
      BY <1>3 DEF FinishJob, FailJob, RequeueInterruptedJob, EndRun
    <2> QED BY <1>1, <2>1, Stutter
  <1>4. CASE Owns(r)
    <2>1. /\ job[r.job].status = "running"
          /\ job'[r.job].status \in {"queued", "done", "failed"}
          /\ job'[r.job].lockedBy = None
      <3>1. ASSUME NEW status \in {"queued", "done", "failed"}
            PROVE  LET row == Unlocked(job[r.job], status)
                   IN  row \in Row /\ row.status = status /\ row.lockedBy = None
        <4>1. job[r.job] \in Row /\ status \in Statuses
          BY <1>1 DEF Statuses
        <4>2. ASSUME NEW row \in Row
              PROVE  /\ Unlocked(row, status).status = status
                     /\ Unlocked(row, status).lockedBy = None
          BY DEF Unlocked, Row
        <4> QED BY <4>1, <4>2, UnlockedType
      <3>2. ASSUME NEW row \in Row, NEW n \in Nat
            PROVE  LET late == [row EXCEPT !.due = FALSE]
                       soon == [row EXCEPT !.due = TRUE, !.attempts = n]
                   IN  /\ late.status = row.status /\ late.lockedBy = row.lockedBy
                       /\ soon.status = row.status /\ soon.lockedBy = row.lockedBy
        BY DEF Row
      <3>3. job[r.job].status = "running"
        BY <1>4 DEF Owns
      <3> DEFINE over == Unlocked(job[r.job], "failed")
                 back == Unlocked(job[r.job], "queued")
      <3>4. CASE FinishJob(r)
        BY <1>1, <1>4, <3>1, <3>3, <3>4 DEF FinishJob, EndRun
      <3>5. CASE FailJob(r)
        <4>1. job'[r.job] = over \/ job'[r.job] = [back EXCEPT !.due = FALSE]
          BY <1>1, <1>4, <3>5 DEF FailJob, EndRun
        <4>2. /\ over \in Row /\ over.status = "failed" /\ over.lockedBy = None
              /\ back \in Row /\ back.status = "queued" /\ back.lockedBy = None
          BY <3>1
        <4> HIDE DEF over, back
        <4>3. 0 \in Nat
          OBVIOUS
        <4> QED BY <3>2, <3>3, <4>1, <4>2, <4>3
      <3>6. CASE RequeueInterruptedJob(r)
        <4> DEFINE row == Unlocked(job[r.job], "queued")
                   left == IF row.attempts = 0 THEN 0 ELSE row.attempts - 1
        <4>1. job'[r.job] = [row EXCEPT !.due = TRUE, !.attempts = left]
          BY <1>1, <1>4, <3>6 DEF RequeueInterruptedJob, EndRun
        <4>2. row \in Row /\ row.status = "queued" /\ row.lockedBy = None
          BY <3>1
        <4>3. left \in Nat
          BY <4>2, CountersType
        <4> HIDE DEF row, left
        <4> QED BY <3>2, <3>3, <4>1, <4>2, <4>3
      <3> QED BY <3>4, <3>5, <3>6
    <2>2. CASE job'[r.job].status = "queued"
      BY <1>1, <1>2, <2>1, <2>2, GiveBackBar
    <2>3. CASE job'[r.job].status # "queued"
      BY <1>1, <1>2, <2>1, <2>3, CloseBar
    <2> QED BY <2>2, <2>3
  <1> QED BY SMTT(40), <1>3, <1>4

LEMMA RecoverBar ==
    ASSUME IInv, NEW w \in Workers, RecoverStaleJobs(w)
    PROVE  \E S \in SUBSET Jobs : Promise!GiveBack(S)
  <1> DEFINE S == {j \in Jobs : job[j].status = "running" /\ job[j].stale}
  <1>1. job \in [Jobs -> Row] /\ today' = today /\ Frame
    BY QuietStep DEF IInv, TypeOK, Quiet, RecoverStaleJobs
  <1>2. \A row \in Row : LET new == Unlocked(row, "queued") IN
            new.status = "queued" /\ new.lockedBy = None
    BY DEF Unlocked, Row
  <1>3. \A i \in S : /\ job[i].status = "running"
                     /\ job'[i].status = "queued" /\ job'[i].lockedBy = None
    BY <1>1, <1>2 DEF RecoverStaleJobs
  <1>4. \A i \in Jobs \ S : job'[i] = job[i]
    BY DEF RecoverStaleJobs
  <1> HIDE DEF S
  <1>5. S \in SUBSET Jobs
    BY DEF S
  <1> QED BY <1>1, <1>3, <1>4, <1>5, GiveBackBar

LEMMA UninstallBar ==
    ASSUME IInv, NEW s \in Sources, DeleteInstallation(s)
    PROVE  \E S \in SUBSET Jobs : Promise!Close(S)
  <1> DEFINE S == {j \in Jobs : Source[j] = s /\ job[j].status \in {"queued", "running"}}
  <1>1. job \in [Jobs -> Row] /\ today' = today /\ Frame
    BY QuietStep DEF IInv, TypeOK, Quiet, DeleteInstallation
  <1>2. \A row \in Row : LET new == Unlocked(row, "failed") IN
            new.status = "failed" /\ new.lockedBy = None
    BY DEF Unlocked, Row
  <1>3. \A i \in S : /\ job[i].status \in {"queued", "running"}
                     /\ job'[i].status \in {"done", "failed"} /\ job'[i].lockedBy = None
    BY <1>1, <1>2 DEF DeleteInstallation
  <1>4. \A i \in Jobs \ S : job'[i] = job[i]
    BY DEF DeleteInstallation
  <1> HIDE DEF S
  <1>5. S \in SUBSET Jobs
    BY DEF S
  <1> QED BY <1>1, <1>3, <1>4, <1>5, CloseBar

LEMMA PromiseStep ==
    ASSUME IInv, [Next]_vars
    PROVE  [Promise!Next]_(Promise!vars)
  <1> DEFINE Kept == [Promise!Next]_(Promise!vars)
  <1> job \in [Jobs -> Row] /\ \A r \in runs : r.job \in Jobs
    BY DEF IInv, TypeOK, Run
  <1>1. ASSUME NEW j \in Jobs, EnqueueJob(j) \/ CancelObservation(j)
        PROVE  Kept
    BY <1>1, SubmitBar, CancelBar DEF Promise!Next
  <1>2. ASSUME NEW w \in Workers, NEW j \in Jobs, ClaimJob(w, j)
        PROVE  Kept
    BY <1>2, TakeBar DEF Promise!Next
  <1>3. ASSUME NEW j \in Jobs, RefundUpload(j)
        PROVE  Kept
    BY <1>3, RefundReservationBar DEF RefundUpload, Promise!Next
  <1>4. ASSUME NEW r \in runs, RefundJobUnpack(r)
        PROVE  Kept
    <2>1. CASE job[r.job].lockedBy = r.worker
      BY <1>4, <2>1, RefundReservationBar DEF RefundJobUnpack, Promise!Next
    <2>2. CASE job[r.job].lockedBy # r.worker
      BY <1>4, <2>2, Stutter DEF RefundJobUnpack, Frame, SameReservation
    <2> QED BY <2>1, <2>2
  <1>5. ASSUME NEW r \in runs, FinishJob(r) \/ FailJob(r) \/ RequeueInterruptedJob(r)
        PROVE  Kept
    BY <1>5, EndBar DEF Promise!Next
  <1>6. ASSUME NEW w \in Workers, RecoverStaleJobs(w) PROVE Kept
    BY <1>6, RecoverBar DEF Promise!Next
  <1>7. ASSUME NEW s \in Sources, DeleteInstallation(s) PROVE Kept
    BY <1>7, UninstallBar DEF Promise!Next
  <1>8. ASSUME NextDay PROVE Kept
    <2>1. UNCHANGED <<phaseBar, holderBar, chargeBar>>
      BY <1>8 DEF NextDay, phaseBar, holderBar, chargeBar
    <2> QED BY <1>8, <2>1 DEF Promise!Next, Promise!NextDay, NextDay, phaseBar, holderBar, chargeBar
  <1>9. ASSUME NEW j \in Jobs, NEW b \in BOOLEAN, Quiet, UNCHANGED today,
               job' = [job EXCEPT ![j].due = b] \/ job' = [job EXCEPT ![j].stale = b]
        PROVE  Kept
    <2>1. \A i \in Jobs : /\ job'[i].status = job[i].status
                          /\ job'[i].lockedBy = job[i].lockedBy
      BY <1>9 DEF Row
    <2> QED BY <1>9, <2>1, Stutter, QuietStep DEF IInv
  <1>10. ASSUME UNCHANGED <<job, usage, today>> PROVE Kept
    BY <1>10, Stutter DEF Frame, SameReservation
  <1>11. ASSUME NEW r \in runs, HeartbeatJob(r) PROVE Kept
    BY <1>9, <1>11 DEF HeartbeatJob, Quiet
  <1>12. ASSUME NEW w \in Workers, NEW j \in Jobs, DeferJob(w, j)
         PROVE  Kept
    BY <1>9, <1>12 DEF DeferJob, Quiet
  <1>13. ASSUME NEW r \in runs, RunStep(r)
         PROVE  Kept
    BY <1>4, <1>5, <1>10, <1>11, <1>13 DEF RunStep, Unpack
  <1>14. ASSUME NEW w \in Workers,
                \/ RecoverStaleJobs(w) \/ Start(w) \/ Stop(w) \/ TickEnds(w)
                \/ Exit(w) \/ Crash(w)
         PROVE  Kept
    BY <1>6, <1>10, <1>14 DEF Start, Stop, TickEnds, Exit, Crash, SetProc
  <1>15. ASSUME \/ UNCHANGED vars
                \/ \E s \in Sources : UpsertInstallation(s)
                \/ \E p \in Payers : ChangePlan(p)
         PROVE  Kept
    BY <1>10, <1>15 DEF UpsertInstallation, ChangePlan, vars
  <1>16. ASSUME NEW j \in Jobs, \/ EnqueueJob(j) \/ RefundUpload(j) \/ CancelObservation(j)
                                \/ LockGoesStale(j) \/ RunAfterPasses(j)
         PROVE  Kept
    <2>1. CASE LockGoesStale(j) \/ RunAfterPasses(j)
      BY <1>9, <2>1 DEF LockGoesStale, RunAfterPasses, Quiet
    <2> QED BY <1>1, <1>3, <1>16, <2>1
  <1> HIDE DEF Kept
  <1>17. Kept
    BY <1>2, <1>7, <1>8, <1>12, <1>13, <1>14, <1>15, <1>16 DEF Next
  <1> QED BY <1>17 DEF Kept

\* The queue implements its promise, for every number of jobs, workers, payers
\* and days: what store.ts, job-billing.ts and worker.ts do to rows, locks and
\* counters, interleaved in any way, is taking, giving back, closing, charging
\* and refunding as JobPromise allows it.
THEOREM PromiseKept == Spec => KeepsPromise
  <1>1. Init => Promise!Init
    <2>1. Init => /\ phaseBar = [j \in Jobs |-> "absent"]
                  /\ holderBar = [j \in Jobs |-> None]
                  /\ chargeBar = [j \in Jobs |-> 0]
                  /\ today = 1
      BY PhaseValues DEF Init, NoRow, phaseBar, holderBar, chargeBar
    <2> QED BY <2>1, Mapped
  <1>2. IInv /\ [Next]_vars => [Promise!Next]_(Promise!vars)
    BY PromiseStep
  <1> QED BY Invariant, <1>1, <1>2, PTL DEF Spec, KeepsPromise, Promise!Spec

-----------------------------------------------------------------------------
(* Uploads.                                                                 *)

\* An upload is inserted in the transaction that inserts its job, and no other job is.
UploadHasJob == \A j \in Jobs : job[j].status = "absent" <=> upload[j].status = "absent"

UploadsOnly == \A j \in Jobs : job[j].status # "absent" => Kind[j] = "upload"

StepsOK == step \in [{RunKey(r) : r \in runs} -> Steps]

UploadVarsOK == upload \in [Jobs -> Upload]

(* Refinement: every step of an upload or its handler is a step of the queue. *)

LEMMA RefundIsQueueStep ==
    ASSUME TypeOK, NEW j \in Jobs, NEW refund \in BOOLEAN, FailUploadedScan(j, refund),
           job[j].status # "absent", Kind[j] = "upload", UNCHANGED <<queueOnly, runs>>
    PROVE  [Next]_vars
  <1>1. CASE UNCHANGED <<job, usage>>
    BY <1>1 DEF vars, queueOnly
  <1>2. CASE RefundJobReservation(j)
    <2>1. RefundUpload(j)
      BY <1>2 DEF RefundUpload, queueOnly
    <2> QED BY <2>1 DEF Next
  <1> QED BY <1>1, <1>2 DEF FailUploadedScan

LEMMA UploadStepIsQueueStep ==
    ASSUME IInv, UploadHasJob, UploadsOnly, [UploadNext]_<<vars, uploadVars>>
    PROVE  [Next]_vars
  <1>1. /\ TypeOK
        /\ \A r \in runs : /\ r.job \in Jobs /\ job[r.job].status # "absent"
                           /\ Kind[r.job] = "upload"
    BY DEF IInv, TypeOK, Run, LeasesDistinct, UploadsOnly
  <1>2. ASSUME NEW j \in Jobs, QueueUploadedScan(j) PROVE [Next]_vars
    BY <1>2 DEF QueueUploadedScan, Next
  <1>3. ASSUME NEW j \in Jobs, RevokeAccess(j) \/ UploadExpires(j) \/ ExpireRest(j)
        PROVE  [Next]_vars
    BY <1>3 DEF RevokeAccess, UploadExpires, ExpireRest
  <1>4. ASSUME NEW j \in Jobs, ExpireQueued(j) PROVE [Next]_vars
    <2>1. job[j].status # "absent" /\ Kind[j] = "upload"
      <3>1. upload[j].status # "absent"
        BY <1>4 DEF ExpireQueued
      <3> QED BY <3>1 DEF UploadHasJob, UploadsOnly
    <2> QED BY <1>1, <1>4, <2>1, RefundIsQueueStep DEF ExpireQueued
  <1>5. ASSUME NEW s \in Sources, DisconnectSource(s) PROVE [Next]_vars
    BY <1>5 DEF DisconnectSource, Next
  <1>6. ASSUME NEW w \in Workers, NEW j \in Jobs, ClaimUpload(w, j) PROVE [Next]_vars
    BY <1>6 DEF ClaimUpload, Next
  <1>7. ASSUME NEW w \in Workers, CrashWorker(w) PROVE [Next]_vars
    BY <1>7 DEF CrashWorker, Next
  <1>8. ASSUME NEW r \in runs, HandlerStep(r) PROVE [Next]_vars
    <2>1. CASE StartUploadedScan(r) \/ HandlerFails(r) \/ Publish(r) \/ CheckLock(r)
      BY <2>1 DEF StartUploadedScan, HandlerFails, Publish, CheckLock
    <2>2. CASE NotEligible(r)
      BY <1>1, <2>2, RefundIsQueueStep DEF NotEligible
    <2>3. CASE FailUpload(r)
      <3>1. (~Parsing(r)) \in BOOLEAN
        BY DEF Parsing
      <3> QED BY <1>1, <2>3, <3>1, RefundIsQueueStep DEF FailUpload
    <2>4. CASE BeginParsing(r)
      BY <2>4 DEF BeginParsing, Next, RunStep
    <2>5. CASE HandlerReturns(r) \/ HandlerThrows(r) \/ HandlerInterrupted(r)
      BY <2>5 DEF HandlerReturns, HandlerThrows, HandlerInterrupted, Next, RunStep
    <2> QED BY <1>8, <2>1, <2>2, <2>3, <2>4, <2>5 DEF HandlerStep
  <1>9. CASE QueueStep
    BY <1>9 DEF QueueStep, Next, RunStep
  <1>10. CASE UNCHANGED <<vars, uploadVars>>
    BY <1>10
  <1> QED
    BY <1>2, <1>3, <1>4, <1>5, <1>6, <1>7, <1>8, <1>9, <1>10 DEF UploadNext

-----------------------------------------------------------------------------
(* What one step does to the row of upload j.                               *)

Published(j) ==
    /\ upload[j].status = "running" /\ upload'[j].status = "done"
    /\ ScanAccess(j)
    /\ \E r \in runs : r.job = j /\ Owns(r) /\ Parsing(r)

UploadStep(j) ==
    LET old == upload[j]
        new == upload'[j]
    IN  /\ new \in Upload
        /\ \/ new.status = old.status /\ (new.refunded <=> old.refunded)
           \/ QueueUploadedScan(j) /\ new.status = "queued" /\ ~new.refunded
           \/ old.status \in {"queued", "running", "failed"} /\ new.status = "failed"
           \/ /\ old.status \in {"queued", "running"} /\ new.status = "running"
              /\ new.refunded <=> old.refunded
           \/ Published(j) /\ (new.refunded <=> old.refunded)

\* When the parse of run r is under way, r has unpacked.
ScanUnpacked == \A r \in runs : At(r, "scan") => Parsing(r)

LEMMA FailStep ==
    ASSUME UploadVarsOK, NEW j \in Jobs, upload[j].status # "absent",
           NEW refund \in BOOLEAN, FailUploadedScan(j, refund), NEW i \in Jobs
    PROVE  UploadStep(i)
  <1>1. upload[j] \in Upload /\ upload[i] \in Upload
    BY DEF UploadVarsOK
  <1>2. CASE upload[j].status = "done"
    BY <1>1, <1>2 DEF FailUploadedScan, UploadStep
  <1>3. CASE upload[j].status # "done"
    <2> DEFINE row == [upload[j] EXCEPT !.status = "failed", !.bytes = FALSE,
                                        !.refunded = upload[j].refunded \/ refund]
    <2>1. row \in Upload /\ row.status = "failed"
      <3>1. (upload[j].refunded \/ refund) \in BOOLEAN
        BY <1>1 DEF Upload
      <3> QED BY <1>1, <3>1 DEF Upload, Statuses
    <2>2. upload' = [upload EXCEPT ![j] = row]
      BY <1>3 DEF FailUploadedScan
    <2>3. upload[j].status \in {"queued", "running", "failed"}
      BY <1>1, <1>3 DEF Upload, Statuses
    <2> HIDE DEF row
    <2> QED BY <1>1, <2>1, <2>2, <2>3 DEF UploadVarsOK, UploadStep
  <1> QED BY <1>2, <1>3

LEMMA UploadStepLemma ==
    ASSUME IInv, UploadVarsOK, UploadHasJob, ScanUnpacked,
           [UploadNext]_<<vars, uploadVars>>, NEW i \in Jobs
    PROVE  UploadStep(i)
  <1>1. /\ upload \in [Jobs -> Upload] /\ upload[i] \in Upload
        /\ \A r \in runs : r.job \in Jobs /\ upload[r.job].status # "absent"
    BY DEF IInv, TypeOK, Run, LeasesDistinct, UploadHasJob, UploadVarsOK
  <1>2. ASSUME NEW j \in Jobs, QueueUploadedScan(j) PROVE UploadStep(i)
    <2> DEFINE row == [NoUpload EXCEPT !.status = "queued", !.bytes = TRUE]
    <2>1. row \in Upload /\ row.status = "queued" /\ ~row.refunded
      BY DEF NoUpload, Upload, Statuses
    <2>2. upload' = [upload EXCEPT ![j] = row]
      BY <1>2 DEF QueueUploadedScan
    <2> HIDE DEF row
    <2> QED BY <1>1, <1>2, <2>1, <2>2 DEF UploadStep
  <1>3. ASSUME NEW j \in Jobs, RevokeAccess(j) PROVE UploadStep(i)
    BY <1>1, <1>3 DEF RevokeAccess, UploadStep
  <1>4. ASSUME NEW j \in Jobs, UploadExpires(j) PROVE UploadStep(i)
    <2> DEFINE row == [upload[j] EXCEPT !.expired = TRUE]
    <2>1. /\ row \in Upload /\ row.status = upload[j].status
          /\ row.refunded <=> upload[j].refunded
      BY <1>1 DEF Upload
    <2>2. upload' = [upload EXCEPT ![j] = row]
      BY <1>1, <1>4 DEF UploadExpires
    <2> HIDE DEF row
    <2> QED BY <1>1, <2>1, <2>2 DEF UploadStep
  <1>5. ASSUME NEW j \in Jobs, ExpireQueued(j) PROVE UploadStep(i)
    BY <1>5, FailStep DEF ExpireQueued
  <1>6. ASSUME NEW row \in Upload
        PROVE  LET failed == [row EXCEPT !.status = "failed", !.bytes = FALSE] IN
               failed \in Upload /\ failed.status = "failed"
    BY DEF Upload, Statuses
  <1>7. ASSUME NEW j \in Jobs, ExpireRest(j) PROVE UploadStep(i)
    <2> DEFINE row == [upload[j] EXCEPT !.status = "failed", !.bytes = FALSE]
    <2>1. row \in Upload /\ row.status = "failed"
      BY <1>1, <1>6
    <2>2. upload' = [upload EXCEPT ![j] = row] /\ upload[j].status \in {"queued", "running"}
      BY <1>1, <1>7 DEF ExpireRest
    <2> HIDE DEF row
    <2> QED BY <1>1, <2>1, <2>2 DEF UploadStep
  <1>8. ASSUME NEW s \in Sources, DisconnectSource(s) PROVE UploadStep(i)
    <2>1. \/ upload'[i] = upload[i]
          \/ /\ upload[i].status \in {"queued", "running"}
             /\ upload'[i] = [upload[i] EXCEPT !.status = "failed", !.bytes = FALSE]
      BY <1>8 DEF DisconnectSource
    <2> QED BY <1>1, <1>6, <2>1 DEF UploadStep
  <1>9. ASSUME NEW r \in runs, StartUploadedScan(r) PROVE UploadStep(i)
    <2>1. \/ upload' = upload
          \/ /\ upload[r.job].status \in {"queued", "running"}
             /\ upload' = [upload EXCEPT ![r.job].status = "running"]
      BY <1>9 DEF StartUploadedScan
    <2>2. [upload[r.job] EXCEPT !.status = "running"] \in Upload
      BY <1>1 DEF Upload, Statuses
    <2> QED BY <1>1, <2>1, <2>2 DEF UploadStep, Upload
  <1>10. ASSUME NEW r \in runs, NotEligible(r) PROVE UploadStep(i)
    BY <1>1, <1>10, FailStep DEF NotEligible, UploadVarsOK
  <1>11. ASSUME NEW r \in runs, FailUpload(r) PROVE UploadStep(i)
    <2>1. (~Parsing(r)) \in BOOLEAN
      BY DEF Parsing
    <2> QED BY <1>1, <1>11, <2>1, FailStep DEF FailUpload, UploadVarsOK
  <1>12. ASSUME NEW r \in runs, Publish(r) PROVE UploadStep(i)
    <2>1. CASE upload' = upload
      BY <1>1, <2>1 DEF UploadStep
    <2>2. CASE upload' # upload
      <3> DEFINE row == [upload[r.job] EXCEPT !.status = "done", !.bytes = FALSE]
      <3>1. /\ Owns(r) /\ ScanAccess(r.job) /\ upload[r.job].status = "running"
            /\ Parsing(r)
        BY <1>12, <2>2 DEF Publish, ScanUnpacked
      <3>2. upload' = [upload EXCEPT ![r.job] = row]
        BY <1>1, <1>12, <3>1 DEF Publish
      <3>3. /\ row \in Upload /\ row.status = "done"
            /\ row.refunded <=> upload[r.job].refunded
        BY <1>1 DEF Upload, Statuses
      <3> HIDE DEF row
      <3> QED BY <1>1, <3>1, <3>2, <3>3 DEF UploadStep, Published
    <2> QED BY <2>1, <2>2
  <1>13. CASE UNCHANGED upload
    BY <1>1, <1>13 DEF UploadStep
  <1> QED
    BY <1>2, <1>3, <1>4, <1>5, <1>7, <1>8, <1>9, <1>10, <1>11, <1>12, <1>13
    DEF UploadNext, HandlerStep, ClaimUpload, CrashWorker, HandlerFails, BeginParsing,
        CheckLock, HandlerReturns, HandlerThrows, HandlerInterrupted, Drop, uploadVars

\* A reservation is given up only together with a failed upload.
LEMMA KeepsReservation ==
    ASSUME IInv, UploadVarsOK, UploadHasJob, [UploadNext]_<<vars, uploadVars>>,
           NEW i \in Jobs, job[i].reserved, ~job'[i].reserved
    PROVE  upload'[i].status = "failed"
  <1> job \in [Jobs -> Row]
    BY DEF IInv, TypeOK
  <1>1. \A r \in runs : r.job \in Jobs
    BY DEF IInv, TypeOK, Run
  <1>2. ASSUME NEW j \in Jobs, NEW refund \in BOOLEAN, FailUploadedScan(j, refund)
        PROVE  upload'[i].status = "failed"
    <2>1. i = j /\ upload[j].status # "done"
      BY <1>2 DEF FailUploadedScan, RefundJobReservation, Row
    <2> QED BY <1>2, <2>1 DEF FailUploadedScan, UploadVarsOK, Upload
  <1>3. CASE \E j \in Jobs : ExpireQueued(j)
    BY <1>2, <1>3 DEF ExpireQueued
  <1>4. CASE \E r \in runs : NotEligible(r) \/ FailUpload(r)
    <2>1. \A r \in runs : (~Parsing(r)) \in BOOLEAN
      BY DEF Parsing
    <2> QED BY <1>1, <1>2, <1>4, <2>1 DEF NotEligible, FailUpload
  <1>5. ASSUME Frame PROVE FALSE
    BY <1>5 DEF Frame, SameReservation
  <1>6. ASSUME NEW j \in Jobs, QueueUploadedScan(j) PROVE FALSE
    BY <1>6 DEF QueueUploadedScan, EnqueueJob, IInv, ReservationOK, Row
  <1>7. ASSUME NEW w \in Workers, NEW j \in Jobs, ClaimUpload(w, j) PROVE FALSE
    <2>1. Frame \/ Charge(j)
      BY <1>7, ClaimStep DEF ClaimUpload, IInv
    <2> QED BY <1>5, <2>1 DEF Charge, SameReservation
  <1>8. CASE Quiet
    BY SMTT(40), <1>5, <1>8, QuietStep DEF IInv
  <1> QED
    BY <1>3, <1>4, <1>6, <1>7, <1>8
    DEF UploadNext, HandlerStep, QueueStep, Quiet, RevokeAccess, UploadExpires, ExpireRest,
        DisconnectSource, CrashWorker, StartUploadedScan, HandlerFails, BeginParsing, Unpack,
        Publish, CheckLock, HandlerReturns, HandlerThrows, HandlerInterrupted, Start, Stop, TickEnds,
        Exit, Crash, SetProc, UpsertInstallation, ChangePlan, NextDay, uploadVars, vars

-----------------------------------------------------------------------------
(* Where the handlers are.                                                  *)

LEMMA StepsStep ==
    ASSUME IInv, StepsOK, ScanUnpacked, [UploadNext]_<<vars, uploadVars>>
    PROVE  StepsOK' /\ ScanUnpacked'
  <1> USE DEF StepsOK, ScanUnpacked, At, Parsing
  <1>1. /\ runs \subseteq Run
        /\ \A r, z \in runs : RunKey(r) = RunKey(z) => r = z
    BY DEF IInv, TypeOK, LeasesDistinct, RunKey
  <1>2. CASE UNCHANGED <<runs, step>>
    BY <1>2 DEF RunKey
  <1>3. ASSUME NEW r \in runs, NEW s \in Steps \ {"scan"}, Goto(r, s), UNCHANGED runs
        PROVE  StepsOK' /\ ScanUnpacked'
    BY <1>3 DEF Goto, RunKey
  <1>4. ASSUME NEW r \in runs, StartUploadedScan(r) \/ HandlerFails(r) \/ NotEligible(r)
                              \/ Publish(r) \/ CheckLock(r) \/ FailUpload(r)
        PROVE  StepsOK' /\ ScanUnpacked'
    <2>1. UNCHANGED runs
      BY <1>4 DEF StartUploadedScan, HandlerFails, NotEligible, Publish, CheckLock,
                  FailUpload, vars
    <2>2. Goto(r, "check") \/ Goto(r, "caught") \/ Goto(r, "fail") \/ Goto(r, "return")
      BY <1>4 DEF StartUploadedScan, HandlerFails, NotEligible, Publish, CheckLock,
                  FailUpload
    <2> QED BY <1>3, <2>1, <2>2 DEF Steps
  <1>5. ASSUME NEW r \in runs, BeginParsing(r) PROVE StepsOK' /\ ScanUnpacked'
    <2> DEFINE new == [r EXCEPT !.stage = "scanned"]
    <2>1. RunKey(new) = RunKey(r) /\ new.stage = "scanned"
      BY <1>1 DEF Run, RunKey
    <2>2. /\ runs' = (runs \ {r}) \cup {new}
          /\ step' = [step EXCEPT ![RunKey(r)] = "scan"]
      BY <1>5 DEF BeginParsing, Unpack, SetStage
    <2> HIDE DEF new
    <2>3. {RunKey(z) : z \in runs'} = {RunKey(z) : z \in runs}
      BY <2>1, <2>2
    <2>4. StepsOK'
      <3>1. step' \in [{RunKey(z) : z \in runs} -> Steps]
        BY <2>2 DEF Steps
      <3> QED BY <2>3, <3>1 DEF RunKey
    <2>5. ScanUnpacked'
      <3> SUFFICES ASSUME NEW z \in runs', step'[RunKey(z)] = "scan"
                   PROVE  z.stage = "scanned"
        BY DEF RunKey
      <3>1. CASE z = new
        BY <2>1, <3>1
      <3>2. CASE z # new
        <4>1. z \in runs /\ RunKey(z) # RunKey(r)
          BY <1>1, <2>2, <3>2
        <4> QED BY <2>2, <4>1
      <3> QED BY <3>1, <3>2
    <2> QED BY <2>4, <2>5
  <1>6. ASSUME NEW w \in Workers, NEW j \in Jobs, ClaimUpload(w, j)
        PROVE  StepsOK' /\ ScanUnpacked'
    <2> DEFINE new == [worker |-> w, job |-> j, claim |-> job[j].claims + 1,
                       stage |-> "fresh"]
               key == <<w, j, job'[j].claims>>
    <2>1. /\ runs' = runs \cup {new}
          /\ step' = [k \in DOMAIN step \cup {key} |->
                         IF k \in DOMAIN step THEN step[k] ELSE "start"]
      BY <1>6 DEF ClaimUpload, ClaimJob
    <2>2. job'[j].claims = job[j].claims + 1 /\ job[j].claims \in Nat
      <3>1. job'[j] = Claimed(job[j], w, MustRecharge(j)) /\ job[j] \in Row
        BY <1>6 DEF ClaimUpload, ClaimJob, IInv, TypeOK
      <3> QED BY <3>1 DEF Claimed, Row
    <2>3. RunKey(new) = key
      BY <2>2 DEF RunKey
    <2>4. \A z \in runs : RunKey(z) # key
      BY <1>1, <2>2 DEF IInv, LeasesDistinct, RunKey, Run
    <2> HIDE DEF new, key
    <2>5. DOMAIN step' = {RunKey(z) : z \in runs'}
      BY <2>1, <2>3
    <2>6. step' \in [{RunKey(z) : z \in runs'} -> Steps]
      BY <2>1, <2>5 DEF Steps
    <2>7. StepsOK'
      BY <2>6 DEF RunKey
    <2>8. ScanUnpacked'
      <3> SUFFICES ASSUME NEW z \in runs', step'[RunKey(z)] = "scan"
                   PROVE  z.stage = "scanned"
        BY DEF RunKey
      <3>1. z \in runs /\ RunKey(z) \in DOMAIN step
        BY <2>1, <2>3, <2>4
      <3> QED BY <2>1, <3>1
    <2> QED BY <2>7, <2>8
  <1>7. ASSUME runs' \subseteq runs, step' = [k \in {RunKey(z) : z \in runs'} |-> step[k]]
        PROVE  StepsOK' /\ ScanUnpacked'
    BY <1>7 DEF RunKey
  <1>8. ASSUME NEW r \in runs, HandlerReturns(r) \/ HandlerThrows(r) \/ HandlerInterrupted(r)
        PROVE  StepsOK' /\ ScanUnpacked'
    <2>1. /\ runs' = runs \ {r}
          /\ step' = [k \in DOMAIN step \ {RunKey(r)} |-> step[k]]
      BY <1>8 DEF HandlerReturns, HandlerThrows, HandlerInterrupted, FinishJob, FailJob,
                  RequeueInterruptedJob, EndRun, Drop
    <2>2. DOMAIN step \ {RunKey(r)} = {RunKey(z) : z \in runs'}
      BY <1>1, <2>1
    <2> QED BY <1>7, <2>1, <2>2
  <1>9. ASSUME NEW w \in Workers, CrashWorker(w) PROVE StepsOK' /\ ScanUnpacked'
    <2>1. runs' \subseteq runs /\ step' = [k \in {RunKey(z) : z \in runs'} |-> step[k]]
      BY <1>9 DEF CrashWorker, Crash, RunKey
    <2> QED BY <1>7, <2>1
  <1> QED
    BY <1>2, <1>4, <1>5, <1>6, <1>8, <1>9
    DEF UploadNext, HandlerStep, QueueStep, QueueUploadedScan, EnqueueJob, RevokeAccess,
        UploadExpires, ExpireQueued, ExpireRest, DisconnectSource, DeleteInstallation,
        DeferJob, HeartbeatJob, RecoverStaleJobs, Start, Stop, TickEnds, Exit, SetProc,
        UpsertInstallation, ChangePlan, LockGoesStale, RunAfterPasses, NextDay, uploadVars,
        vars

-----------------------------------------------------------------------------
(* The invariant of the composition.                                        *)

\* An upload that can still be, or has been, published is paid for.
PaidUnlessFailed ==
    \A j \in Jobs : upload[j].status \in {"queued", "running", "done"}
                        => ~upload[j].refunded /\ job[j].reserved

UploadIInv ==
    /\ IInv /\ UploadVarsOK /\ UploadHasJob /\ UploadsOnly /\ StepsOK /\ ScanUnpacked
    /\ access \subseteq Jobs /\ PaidUnlessFailed

LEMMA UploadInitInvariant ==
    ASSUME UploadInit
    PROVE  UploadIInv
  <1>1. IInv /\ \A j \in Jobs : job[j].status = "absent"
    BY InitInvariant DEF UploadInit, Init, NoRow
  <1>2. NoUpload \in Upload /\ NoUpload.status = "absent"
    BY DEF NoUpload, Upload, Statuses
  <1>3. UploadVarsOK /\ UploadHasJob /\ UploadsOnly /\ PaidUnlessFailed /\ access \subseteq Jobs
    BY <1>1, <1>2 DEF UploadInit, UploadVarsOK, UploadHasJob, UploadsOnly, PaidUnlessFailed
  <1>4. StepsOK /\ ScanUnpacked
    BY DEF UploadInit, Init, StepsOK, ScanUnpacked
  <1> QED BY <1>1, <1>3, <1>4 DEF UploadIInv

LEMMA QueuedUploadPaid ==
    ASSUME NEW j \in Jobs, QueueUploadedScan(j), TypeOK
    PROVE  /\ job[j].status = "absent" /\ job'[j].status # "absent" /\ job'[j].reserved
           /\ Kind[j] = "upload"
  <1>1. Billed(j)
    BY JobQueueAssumption DEF QueueUploadedScan, Billed
  <1> QED BY <1>1 DEF QueueUploadedScan, EnqueueJob, TypeOK, NoRow

LEMMA UploadInvariantStep ==
    ASSUME UploadIInv, [UploadNext]_<<vars, uploadVars>>
    PROVE  UploadIInv'
  <1> USE DEF UploadIInv
  <1>1. [Next]_vars
    BY UploadStepIsQueueStep
  <1>2. IInv'
    BY <1>1, TypeStep, ReservationStep, LedgerStep, LeaseStep, LockStatusStep,
       ConcurrencyStep, ExclusiveStep DEF IInv
  <1>3. \A i \in Jobs : UploadStep(i)
    BY SMTT(40), UploadStepLemma
  <1>4. DOMAIN upload' = Jobs /\ upload' = [i \in Jobs |-> upload'[i]]
    BY ZenonT(60) DEF UploadNext, QueueUploadedScan, RevokeAccess, UploadExpires, ExpireQueued,
           ExpireRest, DisconnectSource, ClaimUpload, CrashWorker, HandlerStep,
           StartUploadedScan, HandlerFails, NotEligible, BeginParsing, Publish, CheckLock,
           FailUpload, HandlerReturns, HandlerThrows, HandlerInterrupted, Drop,
           FailUploadedScan, UploadVarsOK, uploadVars
  <1>5. UploadVarsOK'
    BY <1>3, <1>4 DEF UploadVarsOK, UploadStep
  <1>6. UploadHasJob' /\ UploadsOnly'
    <2> SUFFICES ASSUME NEW i \in Jobs
                 PROVE  /\ job'[i].status = "absent" <=> upload'[i].status = "absent"
                        /\ job'[i].status # "absent" => Kind[i] = "upload"
      BY DEF UploadHasJob, UploadsOnly
    <2>1. QueueUploadedScan(i) => /\ job[i].status = "absent"
                                  /\ job'[i].status # "absent" /\ Kind[i] = "upload"
      BY QueuedUploadPaid DEF IInv
    <2>2. ASSUME EnqueueJob(i) PROVE QueueUploadedScan(i)
      <3>1. nextId' # nextId
        BY <2>2 DEF EnqueueJob, IInv, TypeOK
      <3>2. PICK j \in Jobs : QueueUploadedScan(j)
        BY ZenonT(60), <3>1
        DEF UploadNext, HandlerStep, QueueStep, RevokeAccess, UploadExpires, ExpireQueued,
            ExpireRest, DisconnectSource, DeleteInstallation, ClaimUpload, ClaimJob, CrashWorker,
            StartUploadedScan, HandlerFails, NotEligible, BeginParsing, Unpack, Publish,
            CheckLock, FailUpload, HandlerReturns, HandlerThrows, HandlerInterrupted, FinishJob,
            FailJob, RequeueInterruptedJob, EndRun, DeferJob, HeartbeatJob, RecoverStaleJobs,
            Start, Stop, TickEnds, Exit, Crash, SetProc, UpsertInstallation, ChangePlan, LockGoesStale,
            RunAfterPasses, NextDay, queueOnly, uploadVars, vars
      <3>3. job[j].status = "absent" /\ job'[j].status # "absent"
        BY <3>2, QueuedUploadPaid DEF IInv
      <3>4. j = i
        BY <2>2, <3>3 DEF EnqueueJob, IInv, TypeOK
      <3> QED BY <3>2, <3>4
    <2>3. LockStep(i) /\ UploadStep(i)
      BY <1>1, <1>3, LockStepLemma DEF IInv
    <2>4. /\ job[i].status = "absent" <=> upload[i].status = "absent"
          /\ job[i].status # "absent" => Kind[i] = "upload"
      BY DEF UploadHasJob, UploadsOnly
    <2>5. CASE QueueUploadedScan(i)
      <3>1. upload'[i].status = "queued"
        BY <2>5 DEF QueueUploadedScan, UploadVarsOK, NoUpload
      <3> QED BY <2>1, <2>5, <3>1
    <2>6. CASE ~QueueUploadedScan(i)
      <3>1. job[i].status = "absent" <=> job'[i].status = "absent"
        BY <2>2, <2>3, <2>6 DEF LockStep
      <3>2. upload[i].status = "absent" <=> upload'[i].status = "absent"
        BY <2>3, <2>6 DEF UploadStep, Published
      <3> QED BY <2>4, <3>1, <3>2
    <2> QED BY <2>5, <2>6
  <1>7. PaidUnlessFailed'
    BY SMTT(40), <1>3, KeepsReservation, QueuedUploadPaid
    DEF PaidUnlessFailed, UploadStep, Published, IInv
  <1>8. access' \subseteq Jobs
    BY DEF UploadNext, QueueUploadedScan, RevokeAccess, UploadExpires, ExpireQueued,
           ExpireRest, DisconnectSource, ClaimUpload, CrashWorker, HandlerStep,
           StartUploadedScan, HandlerFails, NotEligible, BeginParsing, Publish, CheckLock,
           FailUpload, HandlerReturns, HandlerThrows, HandlerInterrupted, Drop, uploadVars
  <1> QED BY <1>2, <1>5, <1>6, <1>7, <1>8, StepsStep

\* The invariant holds however handlers, sweeps, revocations and lost leases interleave.
THEOREM UploadInvariant == UploadSpec => []UploadIInv
  BY UploadInitInvariant, UploadInvariantStep, PTL DEF UploadSpec

\* Uploads, handlers and the lease machinery together still implement the queue.
THEOREM ImplementsQueue == UploadSpec => Spec
  <1>1. UploadInit => Init
    BY DEF UploadInit
  <1>2. UploadIInv /\ [UploadNext]_<<vars, uploadVars>> => [Next]_vars
    BY UploadStepIsQueueStep DEF UploadIInv
  <1> QED BY UploadInvariant, <1>1, <1>2, PTL DEF UploadSpec, Spec

\* So the usage counters stay exact under the concrete handlers.
THEOREM UploadLedger == UploadSpec => []LedgerExact
  BY ImplementsQueue, LedgerCorrect, PTL

\* Upload rows and handler positions keep their types.
THEOREM UploadTypeCorrect == UploadSpec => []UploadTypeOK
  <1>1. UploadIInv => UploadTypeOK
    BY DEF UploadIInv, UploadTypeOK, UploadVarsOK, StepsOK
  <1> QED BY <1>1, UploadInvariant, PTL

\* Published evidence is paid for.
THEOREM EvidencePaid == UploadSpec => []PaidEvidence
  <1>1. UploadIInv => PaidEvidence
    BY DEF UploadIInv, PaidUnlessFailed, PaidEvidence
  <1> QED BY <1>1, UploadInvariant, PTL

\* A completed or failed upload keeps its verdict.
THEOREM VerdictFinal == UploadSpec => UploadFinal
  <1>1. UploadIInv /\ [UploadNext]_<<vars, uploadVars>> =>
          [\A j \in Jobs : upload[j].status \in {"done", "failed"}
              => upload'[j].status = upload[j].status]_<<vars, uploadVars>>
    <2> SUFFICES ASSUME UploadIInv, [UploadNext]_<<vars, uploadVars>>, NEW j \in Jobs,
                        upload[j].status \in {"done", "failed"}
                 PROVE  upload'[j].status = upload[j].status
      OBVIOUS
    <2>1. UploadStep(j)
      BY UploadStepLemma DEF UploadIInv
    <2>2. ~QueueUploadedScan(j)
      BY QueuedUploadPaid DEF UploadIInv, UploadHasJob, IInv
    <2> QED BY <2>1, <2>2 DEF UploadStep, Published
  <1> QED BY UploadInvariant, <1>1, PTL DEF UploadSpec, UploadFinal

\* Evidence appears only under standing access and the lock of a parsing run.
THEOREM PublicationFenced == UploadSpec => PublishedWithAccess
  <1>1. UploadIInv /\ [UploadNext]_<<vars, uploadVars>> =>
          [\A j \in Jobs : upload[j].status # "done" /\ upload'[j].status = "done"
              => /\ ScanAccess(j)
                 /\ \E r \in runs : r.job = j /\ Owns(r) /\ Parsing(r)]_<<vars, uploadVars>>
    <2> SUFFICES ASSUME UploadIInv, [UploadNext]_<<vars, uploadVars>>, NEW j \in Jobs,
                        upload[j].status # "done", upload'[j].status = "done"
                 PROVE  Published(j)
      BY DEF Published
    <2> QED BY UploadStepLemma DEF UploadIInv, UploadStep
  <1> QED BY UploadInvariant, <1>1, PTL DEF UploadSpec, PublishedWithAccess

-----------------------------------------------------------------------------
(* No upload is left behind.                                                *)

Ended == {"done", "failed"}

\* An upload without a verdict is staged; a handler past its start has an upload
\* that is running or has a verdict.
BytesStaged == \A j \in Jobs : upload[j].status \in {"queued", "running"} => upload[j].bytes

Begun == \A r \in runs : At(r, "start") \/ At(r, "return")
                            \/ upload[r.job].status \in {"running"} \cup Ended

LeftIInv == UploadIInv /\ BytesStaged /\ Begun /\ NoUploadLeftBehind

\* Expiry is not taken back, and only a verdict removes the artifact.
RowStep(i) ==
    /\ upload'[i].status \in {"queued", "running"} => upload'[i].bytes
    /\ upload[i].expired /\ upload[i].status # "absent" => upload'[i].expired

LEMMA FailRow ==
    ASSUME UploadVarsOK, BytesStaged, NEW j \in Jobs, upload[j].status # "absent",
           NEW refund \in BOOLEAN, FailUploadedScan(j, refund), NEW i \in Jobs
    PROVE  RowStep(i)
  <1>1. CASE upload[j].status = "done"
    BY <1>1 DEF FailUploadedScan, RowStep, BytesStaged
  <1>2. CASE upload[j].status # "done"
    <2> DEFINE row == [upload[j] EXCEPT !.status = "failed", !.bytes = FALSE,
                                        !.refunded = upload[j].refunded \/ refund]
    <2>1. row.status = "failed" /\ row.expired = upload[j].expired
      BY DEF UploadVarsOK, Upload
    <2>2. upload' = [upload EXCEPT ![j] = row]
      BY <1>2 DEF FailUploadedScan
    <2> HIDE DEF row
    <2> QED BY <2>1, <2>2 DEF UploadVarsOK, RowStep, BytesStaged
  <1> QED BY <1>1, <1>2

LEMMA RowStepLemma ==
    ASSUME UploadIInv, BytesStaged, [UploadNext]_<<vars, uploadVars>>, NEW i \in Jobs
    PROVE  RowStep(i)
  <1> USE DEF RowStep, BytesStaged
  <1>1. /\ upload \in [Jobs -> Upload] /\ UploadVarsOK
        /\ \A r \in runs : r.job \in Jobs /\ upload[r.job].status # "absent"
    BY DEF UploadIInv, IInv, TypeOK, Run, LeasesDistinct, UploadHasJob, UploadVarsOK
  <1>2. ASSUME NEW j \in Jobs, QueueUploadedScan(j) PROVE RowStep(i)
    <2>1. job[j].status = "absent"
      BY <1>2, QueuedUploadPaid DEF UploadIInv, IInv
    <2>2. upload[j].status = "absent"
      BY <2>1 DEF UploadIInv, UploadHasJob
    <2> DEFINE row == [NoUpload EXCEPT !.status = "queued", !.bytes = TRUE]
    <2>3. row.bytes
      BY DEF NoUpload
    <2>4. upload' = [upload EXCEPT ![j] = row]
      BY <1>2 DEF QueueUploadedScan
    <2> HIDE DEF row
    <2> QED BY <1>1, <2>2, <2>3, <2>4
  <1>3. ASSUME NEW j \in Jobs, UploadExpires(j) PROVE RowStep(i)
    BY <1>1, <1>3 DEF UploadExpires, Upload
  <1>4. ASSUME NEW j \in Jobs, ExpireQueued(j) PROVE RowStep(i)
    BY <1>1, <1>4, FailRow DEF ExpireQueued
  <1>5. ASSUME NEW row \in Upload
        PROVE  LET failed == [row EXCEPT !.status = "failed", !.bytes = FALSE] IN
               failed.status = "failed" /\ failed.expired = row.expired
    BY DEF Upload
  <1>6. ASSUME NEW j \in Jobs, ExpireRest(j) PROVE RowStep(i)
    <2> DEFINE row == [upload[j] EXCEPT !.status = "failed", !.bytes = FALSE]
    <2>1. row.status = "failed" /\ row.expired = upload[j].expired
      BY <1>1, <1>5
    <2>2. upload' = [upload EXCEPT ![j] = row]
      BY <1>6 DEF ExpireRest
    <2> HIDE DEF row
    <2> QED BY <1>1, <2>1, <2>2
  <1>7. ASSUME NEW s \in Sources, DisconnectSource(s) PROVE RowStep(i)
    <2>1. \/ upload'[i] = upload[i]
          \/ upload'[i] = [upload[i] EXCEPT !.status = "failed", !.bytes = FALSE]
      BY <1>7 DEF DisconnectSource
    <2> QED BY <1>1, <1>5, <2>1
  <1>8. ASSUME NEW r \in runs, StartUploadedScan(r) PROVE RowStep(i)
    <2> DEFINE row == [upload[r.job] EXCEPT !.status = "running"]
    <2>1. row.bytes = upload[r.job].bytes /\ row.expired = upload[r.job].expired
      BY <1>1 DEF Upload
    <2>2. upload' = upload \/ (upload[r.job].bytes /\ upload' = [upload EXCEPT ![r.job] = row])
      BY <1>8 DEF StartUploadedScan
    <2> HIDE DEF row
    <2> QED BY <1>1, <2>1, <2>2
  <1>9. ASSUME NEW r \in runs, NotEligible(r) \/ FailUpload(r) PROVE RowStep(i)
    <2>1. (~Parsing(r)) \in BOOLEAN
      BY DEF Parsing
    <2> QED BY <1>1, <1>9, <2>1, FailRow DEF NotEligible, FailUpload
  <1>10. ASSUME NEW r \in runs, Publish(r) PROVE RowStep(i)
    <2> DEFINE row == [upload[r.job] EXCEPT !.status = "done", !.bytes = FALSE]
    <2>1. row.status = "done" /\ row.expired = upload[r.job].expired
      BY <1>1 DEF Upload
    <2>2. upload' = upload \/ upload' = [upload EXCEPT ![r.job] = row]
      BY <1>10 DEF Publish
    <2> HIDE DEF row
    <2> QED BY <1>1, <2>1, <2>2
  <1>11. CASE UNCHANGED upload
    BY <1>11
  <1> QED
    BY <1>2, <1>3, <1>4, <1>6, <1>7, <1>8, <1>9, <1>10, <1>11
    DEF UploadNext, HandlerStep, RevokeAccess, ClaimUpload, CrashWorker, HandlerFails,
        BeginParsing, CheckLock, HandlerReturns, HandlerThrows, HandlerInterrupted, Drop,
        uploadVars

\* What holds of one handler.
Fine(r) ==
    /\ At(r, "start") \/ At(r, "return") \/ upload[r.job].status \in {"running"} \cup Ended
    /\ Current(r) /\ At(r, "return") =>
         upload[r.job].status \in Ended \/ upload[r.job].expired

LEMMA AllFine == Begun /\ NoUploadLeftBehind <=> \A r \in runs : Fine(r)
  BY DEF Begun, NoUploadLeftBehind, Fine, Ended

\* A run that has lost its lease does not get it back: the next claim has the
\* next number.
LEMMA LeaseIsLost ==
    ASSUME IInv, [Next]_vars, NEW r \in runs, Current(r)'
    PROVE  Current(r)
  <1>1. /\ r.job \in Jobs /\ r.claim \in Nat /\ r.claim <= job[r.job].claims
        /\ job[r.job].claims \in Nat /\ r.worker # None
    BY JobQueueAssumption DEF IInv, TypeOK, Run, Row, LeasesDistinct
  <1>2. LockStep(r.job)
    BY <1>1, LockStepLemma DEF IInv
  <1>3. /\ job'[r.job].status = "running" /\ job'[r.job].lockedBy = r.worker
        /\ r.claim = job'[r.job].claims
    BY DEF Current, Owns
  <1>4. job'[r.job].claims # job[r.job].claims + 1
    BY <1>1, <1>3
  <1>5. /\ job'[r.job].claims = job[r.job].claims
        /\ job'[r.job].status = job[r.job].status
        /\ job'[r.job].lockedBy = job[r.job].lockedBy
    BY <1>1, <1>2, <1>3, <1>4 DEF LockStep
  <1> QED BY <1>3, <1>5 DEF Current, Owns

\* The upload of a run keeps its verdict, and once running or judged stays so.
LEMMA UploadOfRun ==
    ASSUME UploadIInv, BytesStaged, [UploadNext]_<<vars, uploadVars>>, NEW r \in runs
    PROVE  /\ upload[r.job].status # "absent" /\ r.job \in Jobs
           /\ upload[r.job].status \in Ended => upload'[r.job].status \in Ended
           /\ upload[r.job].status = "running" =>
                 upload'[r.job].status \in {"running"} \cup Ended
           /\ upload[r.job].expired => upload'[r.job].expired
  <1>1. /\ upload[r.job].status # "absent" /\ r.job \in Jobs
        /\ job[r.job].status # "absent"
    BY DEF UploadIInv, IInv, TypeOK, Run, LeasesDistinct, UploadHasJob
  <1>2. ~QueueUploadedScan(r.job)
    BY <1>1, QueuedUploadPaid DEF UploadIInv, IInv
  <1>3. UploadStep(r.job) /\ RowStep(r.job)
    BY <1>1, UploadStepLemma, RowStepLemma DEF UploadIInv
  <1> QED BY <1>1, <1>2, <1>3 DEF UploadStep, Published, RowStep, Ended

\* A handler that stays where it is stays fine, whatever the others do.
LEMMA StaysFine ==
    ASSUME UploadIInv, BytesStaged, [UploadNext]_<<vars, uploadVars>>,
           NEW r \in runs, Fine(r), step'[RunKey(r)] = step[RunKey(r)]
    PROVE  Fine(r)'
  <1>1. Current(r)' => Current(r)
    BY LeaseIsLost, UploadStepIsQueueStep DEF UploadIInv
  <1>2. RunKey(r)' = RunKey(r)
    BY DEF RunKey
  <1> QED BY <1>1, <1>2, UploadOfRun DEF Fine, At

LEMMA FailsUpload ==
    ASSUME UploadVarsOK, NEW j \in Jobs, NEW refund \in BOOLEAN, FailUploadedScan(j, refund)
    PROVE  upload'[j].status \in Ended
  BY DEF UploadVarsOK, Upload, FailUploadedScan, Ended

\* A handler that moves on is fine where it gets.
LEMMA MovesFine ==
    ASSUME UploadIInv, BytesStaged, [UploadNext]_<<vars, uploadVars>>,
           NEW r \in runs, Fine(r),
           \/ StartUploadedScan(r) \/ HandlerFails(r) \/ NotEligible(r)
           \/ Publish(r) \/ CheckLock(r) \/ FailUpload(r)
    PROVE  Fine(r)'
  <1>1. /\ r.job \in Jobs /\ upload \in [Jobs -> Upload] /\ upload[r.job].status # "absent"
        /\ upload[r.job].status \in Statuses /\ UploadVarsOK
        /\ upload[r.job].status \in {"queued", "running"} => upload[r.job].bytes
    BY UploadOfRun DEF UploadIInv, UploadVarsOK, BytesStaged, Upload
  <1>2. RunKey(r)' = RunKey(r) /\ RunKey(r) \in DOMAIN step
    BY DEF RunKey, UploadIInv, StepsOK
  <1>3. \A s : Goto(r, s) => step'[RunKey(r)] = s
    BY <1>2 DEF Goto, UploadIInv, StepsOK
  <1> USE DEF Fine, At
  <1>4. CASE StartUploadedScan(r)
    <2> DEFINE startable == /\ upload[r.job].status \in {"queued", "running"}
                            /\ ~upload[r.job].expired /\ upload[r.job].bytes
    <2>1. CASE startable
      <3>1. upload'[r.job].status = "running" /\ step'[RunKey(r)] = "check"
        BY <1>1, <1>3, <1>4, <2>1 DEF StartUploadedScan, Upload
      <3> QED BY <1>2, <3>1
    <2>2. CASE ~startable
      <3>1. upload' = upload
        BY <1>4, <2>2 DEF StartUploadedScan
      <3>2. upload[r.job].status \in Ended \/ upload[r.job].expired
        BY <1>1, <2>2 DEF Ended, Statuses
      <3>3. step'[RunKey(r)] = "return"
        BY <1>3, <1>4, <2>2 DEF StartUploadedScan
      <3> QED BY <1>2, <3>1, <3>2, <3>3
    <2> QED BY <2>1, <2>2
  <1>5. CASE HandlerFails(r)
    BY <1>2, <1>3, <1>5 DEF HandlerFails
  <1>6. CASE NotEligible(r) \/ FailUpload(r)
    <2>1. upload'[r.job].status \in Ended
      <3>1. (~Parsing(r)) \in BOOLEAN
        BY DEF Parsing
      <3> QED BY <1>1, <1>6, <3>1, FailsUpload DEF NotEligible, FailUpload
    <2>2. step'[RunKey(r)] = "return"
      BY <1>3, <1>6 DEF NotEligible, FailUpload
    <2> QED BY <1>2, <2>1, <2>2
  <1>7. CASE Publish(r)
    <2>1. job' = job
      BY <1>7 DEF Publish, vars
    <2>2. CASE Owns(r) /\ ~ScanAccess(r.job)
      BY <1>2, <1>3, <1>7, <2>2 DEF Publish
    <2>3. CASE ~Owns(r)
      <3>1. step'[RunKey(r)] = "return" /\ ~Current(r)'
        BY <1>3, <1>7, <2>1, <2>3 DEF Publish, Current, Owns
      <3> QED BY <1>2, <3>1
    <2>4. CASE Owns(r) /\ ScanAccess(r.job)
      <3>1. step'[RunKey(r)] = "return"
        BY <1>3, <1>7, <2>4 DEF Publish
      <3>2. upload'[r.job].status \in Ended
        BY <1>1, <1>7, <2>4 DEF Publish, Ended, Upload
      <3> QED BY <1>2, <3>1, <3>2
    <2> QED BY <2>2, <2>3, <2>4
  <1>8. CASE CheckLock(r)
    <2>1. job' = job /\ upload' = upload
      BY <1>8 DEF CheckLock, vars
    <2>2. CASE Owns(r)
      BY <1>2, <1>3, <1>8, <2>1, <2>2 DEF CheckLock
    <2>3. CASE ~Owns(r)
      <3>1. step'[RunKey(r)] = "return" /\ ~Current(r)'
        BY SMTT(40), <1>3, <1>8, <2>1, <2>3 DEF CheckLock, Current, Owns
      <3> QED BY <1>2, <3>1
    <2> QED BY <2>2, <2>3
  <1> QED BY <1>4, <1>5, <1>6, <1>7, <1>8

LEMMA LeftInvariantStep ==
    ASSUME LeftIInv, [UploadNext]_<<vars, uploadVars>>
    PROVE  LeftIInv'
  <1> USE DEF LeftIInv
  <1>1. UploadIInv' /\ BytesStaged'
    BY UploadInvariantStep, RowStepLemma DEF BytesStaged, RowStep
  <1>2. /\ \A r \in runs : Fine(r) /\ r.claim \in Nat /\ r.claim <= job[r.job].claims
        /\ runs \subseteq Run /\ job \in [Jobs -> Row]
        /\ \A r, z \in runs : RunKey(r) = RunKey(z) => r = z
        /\ DOMAIN step = {RunKey(r) : r \in runs}
    BY AllFine DEF UploadIInv, IInv, TypeOK, Run, LeasesDistinct, RunKey, StepsOK
  <1> SUFFICES ASSUME NEW x \in runs' PROVE Fine(x)'
    BY <1>1, AllFine DEF Begun, NoUploadLeftBehind, Fine, Ended
  <1>3. ASSUME x \in runs, step'[RunKey(x)] = step[RunKey(x)] PROVE Fine(x)'
    BY <1>2, <1>3, StaysFine
  <1>4. CASE UNCHANGED <<runs, step>>
    BY <1>3, <1>4
  <1>5. ASSUME NEW r \in runs, StartUploadedScan(r) \/ HandlerFails(r) \/ NotEligible(r)
                              \/ Publish(r) \/ CheckLock(r) \/ FailUpload(r)
        PROVE  Fine(x)'
    <2>1. UNCHANGED runs /\ \E s : Goto(r, s)
      BY <1>5 DEF StartUploadedScan, HandlerFails, NotEligible, Publish, CheckLock,
                  FailUpload, vars
    <2>2. CASE x = r
      BY <1>2, <1>5, <2>2, MovesFine
    <2>3. CASE x # r
      BY <1>2, <1>3, <2>1, <2>3 DEF Goto
    <2> QED BY <2>2, <2>3
  <1>6. ASSUME NEW r \in runs, BeginParsing(r) PROVE Fine(x)'
    <2> DEFINE new == [r EXCEPT !.stage = "scanned"]
    <2>1. /\ RunKey(new) = RunKey(r) /\ new.job = r.job
      BY <1>2 DEF Run, RunKey
    <2>2. /\ runs' = (runs \ {r}) \cup {new} /\ upload' = upload
          /\ step' = [step EXCEPT ![RunKey(r)] = "scan"]
      BY <1>6 DEF BeginParsing, Unpack, SetStage
    <2> HIDE DEF new
    <2>3. CASE x = new
      <3>1. At(r, "check") /\ ~At(r, "start") /\ ~At(r, "return")
        BY <1>6 DEF BeginParsing, At
      <3>2. upload[r.job].status \in {"running"} \cup Ended
        BY <1>2, <3>1 DEF Fine
      <3>3. step'[RunKey(x)] = "scan"
        BY <1>2, <2>1, <2>2, <2>3
      <3>4. RunKey(x)' = RunKey(x)
        BY DEF RunKey
      <3> QED BY <2>1, <2>2, <2>3, <3>2, <3>3, <3>4 DEF Fine, At
    <2>4. CASE x # new
      BY <1>2, <1>3, <2>2, <2>4
    <2> QED BY <2>3, <2>4
  <1>7. ASSUME NEW w \in Workers, NEW j \in Jobs, ClaimUpload(w, j) PROVE Fine(x)'
    <2> DEFINE new == [worker |-> w, job |-> j, claim |-> job[j].claims + 1,
                       stage |-> "fresh"]
               key == <<w, j, job'[j].claims>>
    <2>1. /\ runs' = runs \cup {new}
          /\ step' = [k \in DOMAIN step \cup {key} |->
                         IF k \in DOMAIN step THEN step[k] ELSE "start"]
      BY <1>7 DEF ClaimUpload, ClaimJob
    <2>2. job'[j].claims = job[j].claims + 1 /\ job[j].claims \in Nat
      <3>1. job'[j] = Claimed(job[j], w, MustRecharge(j)) /\ job[j] \in Row
        BY <1>2, <1>7 DEF ClaimUpload, ClaimJob
      <3> QED BY <3>1 DEF Claimed, Row
    <2>3. RunKey(new) = key
      BY <2>2 DEF RunKey
    <2>4. key \notin DOMAIN step
      <3>1. \A z \in runs : z.job = j => z.claim # job[j].claims + 1
        BY <1>2, <2>2
      <3> QED BY <1>2, <2>2, <3>1 DEF RunKey, Run
    <2> HIDE DEF new, key
    <2>5. CASE x = new
      <3>1. step'[RunKey(x)] = "start"
        BY <2>1, <2>3, <2>4, <2>5
      <3>2. RunKey(x)' = RunKey(x)
        BY DEF RunKey
      <3> QED BY <3>1, <3>2 DEF Fine, At
    <2>6. CASE x # new
      BY <1>2, <1>3, <2>1, <2>6
    <2> QED BY <2>5, <2>6
  <1>8. ASSUME runs' \subseteq runs, step' = [k \in {RunKey(z) : z \in runs'} |-> step[k]]
        PROVE  Fine(x)'
    BY <1>3, <1>8 DEF RunKey
  <1>9. ASSUME NEW r \in runs, HandlerReturns(r) \/ HandlerThrows(r) \/ HandlerInterrupted(r)
        PROVE  Fine(x)'
    <2>1. /\ runs' = runs \ {r}
          /\ step' = [k \in DOMAIN step \ {RunKey(r)} |-> step[k]]
      BY <1>9 DEF HandlerReturns, HandlerThrows, HandlerInterrupted, FinishJob, FailJob,
                  RequeueInterruptedJob, EndRun, Drop
    <2>2. DOMAIN step \ {RunKey(r)} = {RunKey(z) : z \in runs'}
      BY <1>2, <2>1
    <2> QED BY <1>8, <2>1, <2>2
  <1>10. ASSUME NEW w \in Workers, CrashWorker(w) PROVE Fine(x)'
    <2>1. runs' \subseteq runs /\ step' = [k \in {RunKey(z) : z \in runs'} |-> step[k]]
      BY <1>10 DEF CrashWorker, Crash, RunKey
    <2> QED BY <1>8, <2>1
  <1> QED
    BY <1>4, <1>5, <1>6, <1>7, <1>9, <1>10
    DEF UploadNext, HandlerStep, QueueStep, QueueUploadedScan, EnqueueJob, RevokeAccess,
        UploadExpires, ExpireQueued, ExpireRest, DisconnectSource, DeleteInstallation,
        DeferJob, HeartbeatJob, RecoverStaleJobs, Start, Stop, TickEnds, Exit, SetProc,
        UpsertInstallation, ChangePlan, LockGoesStale, RunAfterPasses, NextDay, uploadVars,
        vars

\* Whatever a handler meets on its way, when it is done and still holds the lease
\* its upload has a verdict or has expired.
THEOREM NothingLeftBehind == UploadSpec => []NoUploadLeftBehind
  <1>1. UploadInit => LeftIInv
    <2>1. UploadInit => /\ UploadIInv /\ runs = {}
                        /\ \A j \in Jobs : upload[j].status = "absent"
      BY UploadInitInvariant DEF UploadInit, Init, NoUpload
    <2> QED BY <2>1 DEF LeftIInv, BytesStaged, Begun, NoUploadLeftBehind
  <1>2. LeftIInv => NoUploadLeftBehind
    BY DEF LeftIInv
  <1> QED BY <1>1, <1>2, LeftInvariantStep, PTL DEF UploadSpec
=============================================================================
