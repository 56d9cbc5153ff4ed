-------------------------- MODULE SourceWatchProofs --------------------------
(* Theorems about SourceWatch, for every number of checkers, workers, jobs,  *)
(* versions and changes of the connection.                                  *)
EXTENDS SourceWatch, FiniteSetTheorems, TLAPS

Check == [at : {"idle", "inserted", "importing", "listed", "fetched", "recorded", "stamped"},
          seen : Versions, pack : Versions, gen : 0..MaxChanges, epoch : 0..MaxChanges]
RunRow == [at : {"idle", "claimed", "scanning", "published"}, job : Jobs,
           gen : 0..MaxChanges]
Missed == [Versions -> Reasons \cup {"none"}]
Evidence == [version : Versions, queued : 0..MaxChanges, published : 0..MaxChanges]

\* The types of the variables; the uniqueness of deliveries is a part of its own.
Types ==
    /\ kind \in Kinds /\ source \in Source /\ epoch \in 0..MaxChanges /\ registry \in Versions
    /\ check \in [Checkers -> Check] /\ jobs \in [Jobs -> Job] /\ run \in [Workers -> RunRow]
    /\ evidence \subseteq Evidence /\ missed \in Missed

OneDelivery ==
    kind = "npm" => \A i, j \in Jobs :
         /\ i # j /\ jobs[i].status # "free" /\ jobs[j].status # "free"
         => jobs[i].version # jobs[j].version \/ jobs[i].gen # jobs[j].gen

LEMMA TypeParts == WatchTypeOK <=> Types /\ OneDelivery
  BY DEF WatchTypeOK, Types, OneDelivery, Check, RunRow, Evidence, Missed

LEMMA Bounds ==
    /\ 0 \in 0..MaxChanges /\ 0 \in Versions /\ 1 \in Versions /\ 1 \in Jobs /\ 0 \in 0..MaxAttempts
    /\ \A n \in 0..MaxChanges : n < MaxChanges => n + 1 \in 0..MaxChanges
    /\ \A n \in Versions : n < MaxVersion => n + 1 \in Versions
    /\ \A n \in 0..MaxAttempts : n < MaxAttempts => n + 1 \in 0..MaxAttempts
  BY WatchAssumption DEF Versions, Jobs

-----------------------------------------------------------------------------
(* Generations: the row counts the changes of its connection, and the        *)
(* generation a scan is queued for and run under is the one of the change    *)
(* it was queued after.                                                     *)

GenIsEpoch == source.gen = epoch

StampsTrue == \A c \in Checkers : check[c].at = "stamped" => check[c].gen = check[c].epoch

\* A job that is queued again has claims left.
JobsTrue ==
    \A j \in Jobs : /\ jobs[j].gen = jobs[j].epoch
                    /\ jobs[j].status = "queued" => jobs[j].attempts < MaxAttempts

RunsTrue ==
    \A w \in Workers :
        /\ run[w].at # "idle" => jobs[run[w].job].status # "free"
        /\ run[w].at = "scanning" => run[w].gen = jobs[run[w].job].gen

FenceIInv ==
    Types /\ GenIsEpoch /\ StampsTrue /\ JobsTrue /\ RunsTrue /\ PublicationFenced

-----------------------------------------------------------------------------
LEMMA FenceInit == Init => FenceIInv
  <1> SUFFICES ASSUME Init PROVE FenceIInv
    OBVIOUS
  <1> USE Bounds
  <1>1. Types
    BY WatchAssumption DEF Init, Types, Source, Check, Job, RunRow, NoCheck, NoRun, FreeJob,
       Versions, Jobs, Missed
  <1>2. GenIsEpoch /\ StampsTrue /\ JobsTrue /\ RunsTrue /\ PublicationFenced
    BY DEF Init, GenIsEpoch, StampsTrue, JobsTrue, RunsTrue, PublicationFenced, NoCheck, NoRun,
       FreeJob
  <1> QED BY <1>1, <1>2 DEF FenceIInv

-----------------------------------------------------------------------------
(* Users and the registry.                                                  *)

\* Whatever a user changes, the row's generation and the count advance together.
LEMMA ChangeFence ==
    ASSUME FenceIInv, NEW row \in Source, Change(row)
    PROVE  FenceIInv'
  <1> USE Bounds DEF FenceIInv
  <1>1. source.gen \in 0..MaxChanges /\ source.gen = epoch
    BY DEF Types, Source, GenIsEpoch
  <1>2. source' \in Source /\ epoch' \in 0..MaxChanges /\ source'.gen = epoch'
    BY <1>1 DEF Change, Source
  <1>3. Types'
    BY <1>2 DEF Types, Change, log
  <1>4. GenIsEpoch'
    BY <1>2 DEF GenIsEpoch
  <1>5. StampsTrue' /\ JobsTrue' /\ RunsTrue' /\ PublicationFenced'
    BY DEF Change, log, StampsTrue, JobsTrue, RunsTrue, PublicationFenced
  <1> QED BY <1>3, <1>4, <1>5

LEMMA UserFence ==
    ASSUME FenceIInv,
           \/ \E paused \in BOOLEAN : SetPaused(paused)
           \/ Disconnect \/ Challenge \/ MarkVerified
    PROVE  FenceIInv'
  <1>1. source \in Source
    BY DEF FenceIInv, Types
  <1>2. ASSUME NEW paused \in BOOLEAN, SetPaused(paused) PROVE FenceIInv'
    <2>1. [source EXCEPT !.paused = paused] \in Source
      BY <1>1 DEF Source
    <2> QED BY <1>2, <2>1, ChangeFence DEF SetPaused
  <1>3. CASE Disconnect
    <2>1. [source EXCEPT !.connected = FALSE] \in Source
      BY <1>1 DEF Source
    <2> QED BY <1>3, <2>1, ChangeFence DEF Disconnect
  <1>4. CASE Challenge
    <2>1. [source EXCEPT !.cleared = FALSE] \in Source
      BY <1>1 DEF Source
    <2> QED BY <1>4, <2>1, ChangeFence DEF Challenge
  <1>5. CASE MarkVerified
    <2>1. [source EXCEPT !.cleared = TRUE] \in Source
      BY <1>1 DEF Source
    <2> QED BY <1>5, <2>1, ChangeFence DEF MarkVerified
  <1> QED BY <1>2, <1>3, <1>4, <1>5

LEMMA ReleaseFence ==
    ASSUME FenceIInv, Release
    PROVE  FenceIInv'
  <1>1. Types'
    BY Bounds DEF FenceIInv, Types, Release, users, log
  <1> QED
    BY <1>1 DEF FenceIInv, Release, users, log, GenIsEpoch, StampsTrue, JobsTrue, RunsTrue,
       PublicationFenced

-----------------------------------------------------------------------------
(* Checks.                                                                  *)

\* A step of a check that leaves jobs, runs and what was published alone keeps
\* the invariant if the row keeps counting and a stamp is the row's own.
LEMMA CheckFence ==
    ASSUME FenceIInv, NEW c \in Checkers, NEW row \in Check,
           check' = [check EXCEPT ![c] = row],
           row.at = "stamped" => row.gen = row.epoch,
           source' \in Source, epoch' \in 0..MaxChanges, source'.gen = epoch',
           missed' \in Missed, UNCHANGED <<kind, registry, jobs, run, evidence>>
    PROVE  FenceIInv'
  <1>1. Types'
    BY DEF FenceIInv, Types
  <1>2. StampsTrue'
    BY DEF FenceIInv, Types, StampsTrue
  <1> QED
    BY <1>1, <1>2 DEF FenceIInv, GenIsEpoch, JobsTrue, RunsTrue, PublicationFenced

LEMMA CheckerFence ==
    ASSUME FenceIInv, NEW c \in Checkers,
           \/ InsertSource(c) \/ RecordFirst(c) \/ ImportPackage(c) \/ ListPackage(c)
           \/ GetPack(c) \/ TouchWatchedPackage(c) \/ StampPackage(c) \/ StampOrigin(c)
           \/ EndCheck(c)
    PROVE  FenceIInv'
  <1> USE Bounds
  <1>1. /\ source \in Source /\ source.gen = epoch /\ epoch \in 0..MaxChanges
        /\ source.version \in Versions /\ source.gen \in 0..MaxChanges
        /\ check[c] \in Check /\ check[c].pack \in Versions
        /\ registry \in Versions /\ missed \in Missed
        /\ check[c].at = "stamped" => check[c].gen = check[c].epoch
    BY DEF FenceIInv, Types, GenIsEpoch, StampsTrue, Source, Check
  <1>2. NoCheck \in Check /\ NoCheck.at = "idle"
    BY DEF NoCheck, Check
  <1>3. CASE InsertSource(c)
    <2>1. source' \in Source /\ epoch' \in 0..MaxChanges /\ source'.gen = epoch'
      BY <1>1, <1>3 DEF InsertSource, Source
    <2>2. CASE kind = "web"
      <3>1. check' = [check EXCEPT ![c] = check[c]]
        BY <1>3, <2>2 DEF InsertSource
      <3> QED BY <1>1, <1>3, <2>1, <3>1, CheckFence DEF InsertSource, log
    <2>3. CASE kind # "web"
      <3>1. PICK at \in {"inserted", "importing"} :
              check' = [check EXCEPT ![c] = [NoCheck EXCEPT !.at = at, !.pack = registry]]
        BY <1>3, <2>3 DEF InsertSource
      <3> DEFINE row == [NoCheck EXCEPT !.at = at, !.pack = registry]
      <3>2. row \in Check /\ row.at # "stamped"
        BY <1>1 DEF NoCheck, Check
      <3> QED BY <1>1, <1>3, <2>1, <3>1, <3>2, CheckFence DEF InsertSource, log
    <2> QED BY <2>2, <2>3
  <1>4. CASE RecordFirst(c)
    <2> DEFINE row == [check[c] EXCEPT !.at = "recorded"]
    <2>1. source' \in Source /\ source'.gen = source.gen
      BY <1>1, <1>4 DEF RecordFirst, Source
    <2>2. row \in Check /\ row.at # "stamped"
      BY <1>1 DEF Check
    <2>3. check' = [check EXCEPT ![c] = row]
      BY <1>4 DEF RecordFirst
    <2> QED BY <1>1, <1>4, <2>1, <2>2, <2>3, CheckFence DEF RecordFirst, log
  <1>5. CASE ListPackage(c)
    <2> DEFINE row == [NoCheck EXCEPT !.at = "listed", !.seen = source.version]
    <2>1. row \in Check /\ row.at # "stamped"
      BY <1>1 DEF NoCheck, Check
    <2>2. check' = [check EXCEPT ![c] = row]
      BY <1>5 DEF ListPackage
    <2> QED BY <1>1, <1>5, <2>1, <2>2, CheckFence DEF ListPackage, users, log
  <1>6. CASE GetPack(c)
    <2> DEFINE row == [check[c] EXCEPT !.at = "fetched", !.gen = source.gen, !.pack = registry]
    <2>1. row \in Check /\ row.at # "stamped"
      BY <1>1 DEF Check
    <2>2. check' = [check EXCEPT ![c] = row]
      BY <1>6 DEF GetPack
    <2> QED BY <1>1, <1>6, <2>1, <2>2, CheckFence DEF GetPack, users, log
  <1>7. CASE TouchWatchedPackage(c)
    <2> DEFINE row == IF check[c].pack = check[c].seen THEN NoCheck
                      ELSE [NoCheck EXCEPT !.at = "recorded", !.pack = check[c].pack]
    <2>1. source' \in Source /\ source'.gen = source.gen
      BY <1>1, <1>7 DEF TouchWatchedPackage, Source
    <2>2. row \in Check /\ row.at # "stamped"
      BY <1>1, <1>2 DEF Check, NoCheck
    <2>3. check' = [check EXCEPT ![c] = row]
      BY <1>7 DEF TouchWatchedPackage
    <2> QED BY <1>1, <1>7, <2>1, <2>2, <2>3, CheckFence DEF TouchWatchedPackage, log
  <1>8. CASE StampPackage(c)
    <2> DEFINE row == [check[c] EXCEPT !.at = "stamped", !.gen = source.gen, !.epoch = epoch]
    <2>1. row \in Check /\ row.gen = row.epoch
      BY <1>1 DEF Check
    <2>2. check' = [check EXCEPT ![c] = row]
      BY <1>8 DEF StampPackage
    <2> QED BY <1>1, <1>8, <2>1, <2>2, CheckFence DEF StampPackage, users, log
  <1>9. CASE StampOrigin(c)
    <2> DEFINE row == [NoCheck EXCEPT !.at = "stamped", !.gen = source.gen, !.epoch = epoch]
    <2>1. row \in Check /\ row.gen = row.epoch
      BY <1>1 DEF NoCheck, Check
    <2>2. check' = [check EXCEPT ![c] = row]
      BY <1>9 DEF StampOrigin
    <2> QED BY <1>1, <1>9, <2>1, <2>2, CheckFence DEF StampOrigin, users, log
  <1>10. CASE EndCheck(c)
    <2>1. missed' \in Missed
      BY <1>1, <1>10 DEF EndCheck, Missed, Reasons
    <2> QED BY <1>1, <1>2, <1>10, <2>1, CheckFence DEF EndCheck, users
  <1>11. CASE ImportPackage(c)
    <2>1. missed' \in Missed
      BY <1>1, <1>11 DEF ImportPackage, Missed, Reasons
    <2>2. source' \in Source /\ source'.gen = source.gen
      BY <1>1, <1>11 DEF ImportPackage, Source
    <2> QED BY <1>1, <1>2, <1>11, <2>1, <2>2, CheckFence DEF ImportPackage
  <1> QED BY <1>3, <1>4, <1>5, <1>6, <1>7, <1>8, <1>9, <1>10, <1>11

-----------------------------------------------------------------------------
(* Jobs and runs.                                                           *)

\* A job keeps what it was queued for, a place in use is not freed, and only a
\* job with claims left is queued again.
JobsKept ==
    \A j \in Jobs : /\ jobs'[j].gen = jobs[j].gen /\ jobs'[j].epoch = jobs[j].epoch
                    /\ jobs'[j].version = jobs[j].version
                    /\ jobs'[j].status = "free" <=> jobs[j].status = "free"
                    /\ jobs'[j].status = "queued" => jobs'[j].attempts < MaxAttempts

\* A step of a worker or of the recovery.
LEMMA WorkFence ==
    ASSUME FenceIInv, UNCHANGED <<kind, source, epoch, registry, check>>,
           jobs' \in [Jobs -> Job], JobsKept, run' \in [Workers -> RunRow],
           \A w \in Workers :
              \/ run'[w] = run[w] \/ run'[w].at = "idle"
              \/ /\ jobs[run'[w].job].status # "free"
                 /\ run'[w].at = "scanning" => run'[w].gen = jobs[run'[w].job].gen,
           evidence' \subseteq Evidence, missed' \in Missed,
           \A e \in evidence' : e.queued = e.published
    PROVE  FenceIInv'
  <1>1. Types' /\ GenIsEpoch' /\ StampsTrue' /\ PublicationFenced'
    BY DEF FenceIInv, Types, GenIsEpoch, StampsTrue, PublicationFenced
  <1>2. JobsTrue'
    BY DEF FenceIInv, JobsTrue, JobsKept
  <1>3. ASSUME NEW w \in Workers
        PROVE  /\ run'[w].at # "idle" => jobs'[run'[w].job].status # "free"
               /\ run'[w].at = "scanning" => run'[w].gen = jobs'[run'[w].job].gen
    <2>1. run'[w].job \in Jobs
      BY DEF RunRow
    <2>2. /\ jobs'[run'[w].job].status = "free" <=> jobs[run'[w].job].status = "free"
          /\ jobs'[run'[w].job].gen = jobs[run'[w].job].gen
      BY <2>1 DEF JobsKept
    <2>3. CASE run'[w] = run[w]
      BY <2>2, <2>3 DEF FenceIInv, RunsTrue
    <2>4. CASE run'[w] # run[w]
      BY <2>2, <2>4
    <2> QED BY <2>3, <2>4
  <1>4. RunsTrue'
    BY <1>3 DEF RunsTrue
  <1> QED BY <1>1, <1>2, <1>4 DEF FenceIInv

\* What a worker finds: its run, the job of it, and that the job is in use.
LEMMA RunFacts ==
    ASSUME FenceIInv, NEW w \in Workers
    PROVE  /\ run[w] \in RunRow /\ run[w].job \in Jobs /\ run[w].gen \in 0..MaxChanges
           /\ jobs[run[w].job] \in Job /\ NoRun \in RunRow /\ NoRun.at = "idle"
           /\ run[w].at # "idle" => jobs[run[w].job].status # "free"
           /\ run[w].at = "scanning" => run[w].gen = jobs[run[w].job].gen
           /\ jobs \in [Jobs -> Job] /\ run \in [Workers -> RunRow]
           /\ \A j \in Jobs : jobs[j].status = "queued" => jobs[j].attempts < MaxAttempts
           /\ evidence \subseteq Evidence /\ missed \in Missed
           /\ \A e \in evidence : e.queued = e.published
  BY Bounds DEF FenceIInv, Types, JobsTrue, RunsTrue, PublicationFenced, RunRow, NoRun

\* EndJob leaves a job that is in use in use.
LEMMA EndJobFence ==
    ASSUME FenceIInv, NEW w \in Workers, run[w].at # "idle",
           NEW status \in {"queued", "done", "failed"}, EndJob(w, status),
           status = "queued" => jobs[run[w].job].attempts < MaxAttempts,
           UNCHANGED <<kind, source, epoch, registry, check, evidence>>,
           missed' \in Missed
    PROVE  FenceIInv'
  <1>1. jobs' \in [Jobs -> Job] /\ JobsKept
    <2>1. CASE jobs[run[w].job].by # w
      <3>1. jobs' = jobs
        BY <2>1 DEF EndJob
      <3> QED BY <3>1, RunFacts DEF JobsKept
    <2>2. CASE jobs[run[w].job].by = w
      <3> DEFINE j == run[w].job
      <3>1. jobs' = [jobs EXCEPT ![j].status = status, ![j].by = "nobody"]
        BY <2>2 DEF EndJob
      <3>2. /\ j \in Jobs /\ jobs \in [Jobs -> Job] /\ jobs[j].status # "free"
            /\ status = "queued" => jobs[j].attempts < MaxAttempts
            /\ \A i \in Jobs : jobs[i].status = "queued" => jobs[i].attempts < MaxAttempts
        BY RunFacts
      <3> DEFINE ended == [jobs[j] EXCEPT !.status = status, !.by = "nobody"]
      <3>3. /\ ended \in Job /\ ended.gen = jobs[j].gen /\ ended.epoch = jobs[j].epoch
            /\ ended.version = jobs[j].version /\ ended.status = status
            /\ ended.attempts = jobs[j].attempts
        BY ZenonT(60), <3>2 DEF Job
      <3> HIDE DEF j
      <3>4. jobs' = [jobs EXCEPT ![j] = ended]
        BY <3>1
      <3> HIDE DEF ended
      <3>5. /\ jobs' \in [Jobs -> Job] /\ jobs'[j] = ended
            /\ \A i \in Jobs : i # j => jobs'[i] = jobs[i]
        BY <3>2, <3>3, <3>4
      <3> QED BY <3>2, <3>3, <3>5 DEF JobsKept
    <2> QED BY <2>1, <2>2
  <1>2. run' \in [Workers -> RunRow] /\ \A v \in Workers : run'[v] = run[v] \/ run'[v].at = "idle"
    BY RunFacts DEF EndJob
  <1> QED BY SMTT(40), <1>1, <1>2, RunFacts, WorkFence

LEMMA ClaimFence ==
    ASSUME FenceIInv, NEW w \in Workers, NEW j \in Jobs, ClaimScan(w, j)
    PROVE  FenceIInv'
  <1>1. jobs[j] \in Job /\ jobs[j].attempts + 1 \in 0..MaxAttempts
    BY Bounds DEF FenceIInv, Types, JobsTrue, Job, ClaimScan
  <1>2. jobs' \in [Jobs -> Job] /\ JobsKept
    BY <1>1, RunFacts DEF ClaimScan, JobsKept, Job
  <1>3. /\ run' \in [Workers -> RunRow]
        /\ \A v \in Workers : \/ run'[v] = run[v]
                              \/ run'[v].at = "claimed" /\ run'[v].job = j
    BY Bounds, RunFacts DEF ClaimScan, RunRow
  <1>4. jobs[j].status # "free"
    BY DEF ClaimScan
  <1> QED BY <1>2, <1>3, <1>4, RunFacts, WorkFence DEF ClaimScan, users, log

LEMMA WorkerFence ==
    ASSUME FenceIInv, NEW w \in Workers,
           \/ StartScan(w) \/ PublishObservation(w) \/ CompleteScan(w) \/ UnchangedCrawl(w)
           \/ MissingToken(w) \/ GiveUp(w) \/ FailScan(w) \/ CrashWorker(w)
    PROVE  FenceIInv'
  <1>1. jobs[run[w].job].version \in Versions /\ jobs[run[w].job].epoch \in 0..MaxChanges
    BY RunFacts DEF Job
  <1>2. source.gen = epoch /\ epoch \in 0..MaxChanges
    BY DEF FenceIInv, Types, GenIsEpoch
  <1>3. CASE StartScan(w)
    <2>1. run' \in [Workers -> RunRow]
      BY <1>2, <1>3, RunFacts DEF StartScan, RunRow
    <2>2. ASSUME NEW v \in Workers
          PROVE  \/ run'[v] = run[v]
                 \/ jobs[run'[v].job].status # "free" /\ run'[v].gen = jobs[run'[v].job].gen
      BY <1>3, RunFacts DEF StartScan, QueuedFor, RunRow
    <2>3. jobs' \in [Jobs -> Job] /\ JobsKept
      BY <1>3, RunFacts DEF StartScan, JobsKept
    <2> QED BY <1>3, <2>1, <2>2, <2>3, RunFacts, WorkFence DEF StartScan, users, log
  <1>4. CASE PublishObservation(w)
    <2> DEFINE e == [version |-> jobs[run[w].job].version,
                     queued |-> jobs[run[w].job].epoch, published |-> epoch]
    <2>1. jobs[run[w].job].epoch = epoch
      BY <1>2, <1>4, RunFacts DEF PublishObservation, StillConnected, FenceIInv, JobsTrue
    <2>2. e \in Evidence /\ e.queued = e.published
      BY <1>1, <1>2, <2>1 DEF Evidence
    <2>3. evidence' = evidence \cup {e}
      BY <1>4 DEF PublishObservation
    <2>4. evidence' \subseteq Evidence /\ \A x \in evidence' : x.queued = x.published
      BY <2>2, <2>3, RunFacts
    <2>5. run' \in [Workers -> RunRow]
      BY <1>4, RunFacts DEF PublishObservation, RunRow
    <2>6. ASSUME NEW v \in Workers
          PROVE  \/ run'[v] = run[v]
                 \/ jobs[run'[v].job].status # "free" /\ run'[v].at = "published"
      BY <1>4, RunFacts DEF PublishObservation, RunRow
    <2>7. jobs' \in [Jobs -> Job] /\ JobsKept
      BY <1>4, RunFacts DEF PublishObservation, JobsKept
    <2> QED BY <1>4, <2>4, <2>5, <2>6, <2>7, RunFacts, WorkFence DEF PublishObservation, users
  <1>5. CASE CompleteScan(w)
    BY <1>5, RunFacts, EndJobFence DEF CompleteScan, users, log
  <1>6. CASE UnchangedCrawl(w)
    <2>1. run[w].at # "idle" /\ missed' \in Missed
      BY <1>6, RunFacts DEF UnchangedCrawl, log
    <2>2. UNCHANGED <<kind, source, epoch, registry, check, evidence>> /\ EndJob(w, "done")
      BY <1>6 DEF UnchangedCrawl, users, log
    <2> QED BY <2>1, <2>2, EndJobFence
  <1>7. CASE GiveUp(w)
    <2>1. run[w].at # "idle" /\ missed' \in Missed
      BY <1>1, <1>7, RunFacts DEF GiveUp, Missed, Reasons
    <2> QED BY <1>7, <2>1, EndJobFence DEF GiveUp, users
  <1>10. CASE MissingToken(w)
    <2>1. run[w].at # "idle" /\ missed' \in Missed
      BY <1>1, <1>10, RunFacts DEF MissingToken, Missed, Reasons
    <2> QED BY <1>10, <2>1, EndJobFence DEF MissingToken, users
  <1>8. CASE FailScan(w)
    <2>1. CASE jobs[run[w].job].attempts < MaxAttempts
      BY <1>8, <2>1, RunFacts, EndJobFence DEF FailScan, users, log
    <2>2. CASE ~(jobs[run[w].job].attempts < MaxAttempts)
      BY <1>8, <2>2, RunFacts, EndJobFence DEF FailScan, users, log
    <2> QED BY <2>1, <2>2
  <1>9. CASE CrashWorker(w)
    <2>1. run' \in [Workers -> RunRow] /\ \A v \in Workers : run'[v] = run[v] \/ run'[v].at = "idle"
      BY <1>9, RunFacts DEF CrashWorker
    <2>2. jobs' \in [Jobs -> Job] /\ JobsKept
      BY <1>9, RunFacts DEF CrashWorker, JobsKept
    <2> QED BY <1>9, <2>1, <2>2, RunFacts, WorkFence DEF CrashWorker, users, log
  <1> QED BY <1>3, <1>4, <1>5, <1>6, <1>7, <1>8, <1>9, <1>10

LEMMA RecoverFence ==
    ASSUME FenceIInv, NEW j \in Jobs, RecoverScan(j)
    PROVE  FenceIInv'
  <1>1. jobs \in [Jobs -> Job] /\ run \in [Workers -> RunRow]
    BY DEF FenceIInv, Types
  <1>2. jobs' \in [Jobs -> Job] /\ JobsKept
    BY ZenonT(60), <1>1 DEF RecoverScan, JobsKept, Job, FenceIInv, JobsTrue
  <1> QED
    BY <1>1, <1>2, WorkFence DEF RecoverScan, users, log, FenceIInv, Types, PublicationFenced

\* A job is queued into a free place, which no run refers to, for the connection
\* its check was stamped with.
LEMMA EnqueueFence ==
    ASSUME FenceIInv, NEW c \in Checkers, EnqueueScan(c)
    PROVE  FenceIInv'
  <1> USE Bounds
  <1>1. /\ check[c] \in Check /\ check[c].gen = check[c].epoch /\ NoCheck \in Check
        /\ NoCheck.at = "idle" /\ check' = [check EXCEPT ![c] = NoCheck]
        /\ UNCHANGED <<kind, source, epoch, registry, run, evidence, missed>>
    BY DEF FenceIInv, Types, StampsTrue, EnqueueScan, NoCheck, Check, users, log
  <1>2. CASE UNCHANGED jobs
    BY <1>1, <1>2, CheckFence DEF FenceIInv, Types, GenIsEpoch
  <1>3. ASSUME NEW j \in Jobs, jobs[j].status = "free",
               jobs' = [jobs EXCEPT ![j] = QueuedJob(c)]
        PROVE  FenceIInv'
    <2> DEFINE new == QueuedJob(c)
    <2>1. new \in Job /\ new.gen = new.epoch /\ new.attempts < MaxAttempts
      BY <1>1, WatchAssumption DEF QueuedJob, Job, Check
    <2>2. jobs' = [jobs EXCEPT ![j] = new]
      BY <1>3
    <2> HIDE DEF new
    <2>3. Types' /\ JobsTrue'
      BY <1>1, <2>1, <2>2 DEF FenceIInv, Types, JobsTrue
    <2>4. StampsTrue'
      BY <1>1 DEF FenceIInv, Types, StampsTrue
    <2>5. ASSUME NEW w \in Workers
          PROVE  /\ run'[w].at # "idle" => jobs'[run'[w].job].status # "free"
                 /\ run'[w].at = "scanning" => run'[w].gen = jobs'[run'[w].job].gen
      BY <1>1, <1>3, <2>2, RunFacts
    <2>6. RunsTrue'
      BY <2>5 DEF RunsTrue
    <2> QED BY <1>1, <2>3, <2>4, <2>6 DEF FenceIInv, GenIsEpoch, PublicationFenced
  <1> QED BY <1>2, <1>3 DEF EnqueueScan

-----------------------------------------------------------------------------
LEMMA FenceStep == FenceIInv /\ [Next]_vars => FenceIInv'
  <1> SUFFICES ASSUME FenceIInv, [Next]_vars PROVE FenceIInv'
    OBVIOUS
  <1>1. CASE UNCHANGED vars
    BY <1>1 DEF vars, FenceIInv, Types, GenIsEpoch, StampsTrue, JobsTrue, RunsTrue,
       PublicationFenced
  <1>2. CASE Next
    BY <1>2, UserFence, ReleaseFence, CheckerFence, EnqueueFence, ClaimFence,
       WorkerFence, RecoverFence DEF Next
  <1> QED BY <1>1, <1>2

LEMMA FenceInvariant == Spec => []FenceIInv
  BY FenceInit, FenceStep, PTL DEF Spec

\* A scan publishes only under the connection it was queued for, whatever users
\* change while it waits, runs and is run again.
THEOREM FenceHolds == Spec => []PublicationFenced
  <1>1. FenceIInv => PublicationFenced
    BY SMTT(40) DEF FenceIInv
  <1> QED BY <1>1, FenceInvariant, PTL

-----------------------------------------------------------------------------
(* What becomes of a version of a package that was recorded.                *)

Published(v) == \E e \in evidence : e.version = v
Settled(v) == (v \in Versions /\ missed[v] \in Reasons) \/ Published(v)
Waiting(v) == \E j \in Jobs : /\ jobs[j].version = v
                              /\ jobs[j].status \in {"queued", "running", "failed"}
Coming(v) == \E c \in Checkers : check[c].pack = v /\ check[c].at \in {"recorded", "stamped"}
Accounted(v) == Settled(v) \/ Waiting(v) \/ Coming(v)

PublishedTrue == \A w \in Workers : run[w].at = "published" => Published(jobs[run[w].job].version)
DoneTrue == \A j \in Jobs : jobs[j].status = "done" => Settled(jobs[j].version)
SeenTrue == \A c \in Checkers : check[c].seen # 0 => Accounted(check[c].seen)

\* A check may find that nothing has changed since the row it listed: what that
\* row called recorded must be accounted for, too.
AccountIInv ==
    /\ FenceIInv /\ OneDelivery
    /\ kind = "npm" => /\ PublishedTrue /\ DoneTrue /\ SeenTrue
                       /\ source.version # 0 => Accounted(source.version)

\* What was published or missed stays so.
LEMMA LogGrows ==
    ASSUME FenceIInv, [Next]_vars
    PROVE  /\ evidence \subseteq evidence' /\ kind' = kind
           /\ \A v \in Versions : missed[v] \in Reasons => missed'[v] \in Reasons
  <1>1. missed \in Missed
    BY DEF FenceIInv, Types
  <1>2. evidence \subseteq evidence' /\ kind' = kind
    BY ZenonT(60) DEF Next, vars, users, log, SetPaused, Disconnect, Challenge, MarkVerified,
       Change, Release, InsertSource, RecordFirst, ImportPackage, ListPackage, GetPack,
       TouchWatchedPackage, StampPackage, StampOrigin, EnqueueScan, EndCheck, ClaimScan,
       StartScan, PublishObservation, CompleteScan, UnchangedCrawl, MissingToken, GiveUp,
       FailScan, RecoverScan, CrashWorker
  <1>3. \/ missed' = missed
        \/ \E v : missed' = [missed EXCEPT ![v] = "unqueued"]
        \/ \E v : missed' = [missed EXCEPT ![v] = "imported"]
        \/ \E v : missed' = [missed EXCEPT ![v] = "disconnected"]
        \/ \E v : missed' = [missed EXCEPT ![v] = "tokenless"]
    BY ZenonT(60) DEF Next, vars, users, log, SetPaused, Disconnect, Challenge, MarkVerified,
       Change, Release, InsertSource, RecordFirst, ImportPackage, ListPackage, GetPack,
       TouchWatchedPackage, StampPackage, StampOrigin, EnqueueScan, EndCheck, ClaimScan,
       StartScan, PublishObservation, CompleteScan, UnchangedCrawl, MissingToken, GiveUp,
       FailScan, RecoverScan, CrashWorker
  <1> QED BY <1>1, <1>2, <1>3 DEF Missed, Reasons

LEMMA SettledGrows ==
    ASSUME FenceIInv, [Next]_vars, NEW v
    PROVE  (Settled(v) => Settled(v)') /\ (Published(v) => Published(v)')
  BY LogGrows DEF Settled, Published

\* What a step does to a job: in use it stays what it is a scan of; a free place
\* is taken by one check alone, whose delivery no job has.
JobKept(j) ==
    /\ jobs[j].status # "free" =>
        /\ jobs'[j].status # "free" /\ jobs'[j].version = jobs[j].version
        /\ jobs'[j].gen = jobs[j].gen
    /\ jobs[j].status = "free" =>
        \/ jobs'[j].status = "free"
        \/ \E c \in Checkers : /\ jobs' = [jobs EXCEPT ![j] = QueuedJob(c)]
                               /\ ~\E i \in Jobs : SameDelivery(jobs[i], c)

LEMMA EndJobKept ==
    ASSUME FenceIInv, NEW w \in Workers, run[w].at # "idle",
           NEW status \in {"queued", "done", "failed"}, EndJob(w, status), NEW j \in Jobs
    PROVE  /\ JobKept(j)
           /\ jobs'[j].status = "done" =>
                jobs[j].status = "done" \/ (status = "done" /\ j = run[w].job)
  BY RunFacts DEF EndJob, JobKept, Job

LEMMA JobsStep ==
    ASSUME FenceIInv, PublishedTrue, kind = "npm", [Next]_vars, NEW j \in Jobs,
           NEW v, v = jobs[j].version
    PROVE  /\ JobKept(j)
           /\ jobs[j].status # "free" /\ jobs'[j].status = "done" =>
                jobs[j].status = "done" \/ Settled(v)'
  <1> DEFINE P == /\ JobKept(j)
                  /\ jobs[j].status # "free" /\ jobs'[j].status = "done" =>
                       jobs[j].status = "done" \/ Settled(v)'
  <1> SUFFICES P
    OBVIOUS
  <1>1. jobs \in [Jobs -> Job]
    BY DEF FenceIInv, Types
  <1>2. ASSUME UNCHANGED jobs PROVE P
    BY <1>2 DEF JobKept
  <1>3. ASSUME NEW c \in Checkers, EnqueueScan(c) PROVE P
    BY <1>1, <1>3 DEF EnqueueScan, JobKept
  <1>4. ASSUME NEW w \in Workers, NEW i \in Jobs, ClaimScan(w, i) PROVE P
    BY <1>1, <1>4 DEF ClaimScan, JobKept, Job
  <1>5. ASSUME NEW i \in Jobs, RecoverScan(i) PROVE P
    BY <1>1, <1>5 DEF RecoverScan, JobKept, Job
  <1>6. ASSUME NEW w \in Workers, CompleteScan(w) PROVE P
    <2>1. run[w].at = "published" /\ EndJob(w, "done") /\ evidence' = evidence
      BY <1>6 DEF CompleteScan, log
    <2>2. Published(jobs[run[w].job].version)
      BY <2>1 DEF PublishedTrue
    <2> QED BY <2>1, <2>2, EndJobKept DEF Settled, Published
  <1>7. ASSUME NEW w \in Workers, GiveUp(w) PROVE P
    <2> DEFINE i == run[w].job
    <2>1. /\ run[w].at # "idle" /\ EndJob(w, "done")
          /\ missed' = [missed EXCEPT ![jobs[i].version] = "disconnected"]
      BY <1>7 DEF GiveUp
    <2>2. jobs[i].version \in Versions /\ missed'[jobs[i].version] \in Reasons
      BY <2>1, RunFacts DEF Job, Missed, Reasons
    <2> QED BY <2>1, <2>2, EndJobKept DEF Settled
  <1>16. ASSUME NEW w \in Workers, MissingToken(w) PROVE P
    <2> DEFINE i == run[w].job
    <2>1. /\ run[w].at # "idle" /\ EndJob(w, "done")
          /\ missed' = [missed EXCEPT ![jobs[i].version] = "tokenless"]
      BY <1>16 DEF MissingToken
    <2>2. jobs[i].version \in Versions /\ missed'[jobs[i].version] \in Reasons
      BY <2>1, RunFacts DEF Job, Missed, Reasons
    <2> QED BY <2>1, <2>2, EndJobKept DEF Settled
  <1>8. ASSUME NEW w \in Workers, FailScan(w) PROVE P
    <2>1. CASE jobs[run[w].job].attempts < MaxAttempts
      BY <1>8, <2>1, EndJobKept DEF FailScan
    <2>2. CASE ~(jobs[run[w].job].attempts < MaxAttempts)
      BY <1>8, <2>2, EndJobKept DEF FailScan
    <2> QED BY <2>1, <2>2
  <1>9. CASE UNCHANGED vars
    BY <1>2, <1>9 DEF vars
  <1>10. CASE \/ \E paused \in BOOLEAN : SetPaused(paused)
              \/ Disconnect \/ Challenge \/ MarkVerified \/ Release
    BY <1>2, <1>10 DEF SetPaused, Disconnect, Challenge, MarkVerified, Change, Release
  <1>11. ASSUME NEW c \in Checkers,
                \/ InsertSource(c) \/ RecordFirst(c) \/ ImportPackage(c) \/ ListPackage(c)
                \/ GetPack(c) \/ TouchWatchedPackage(c) \/ StampPackage(c) \/ StampOrigin(c)
                \/ EndCheck(c)
         PROVE  P
    BY <1>2, <1>11 DEF InsertSource, RecordFirst, ImportPackage, ListPackage, GetPack,
       TouchWatchedPackage, StampPackage, StampOrigin, EndCheck
  <1>12. ASSUME NEW w \in Workers,
                \/ StartScan(w) \/ PublishObservation(w) \/ UnchangedCrawl(w) \/ CrashWorker(w)
         PROVE  P
    BY <1>2, <1>12 DEF StartScan, PublishObservation, UnchangedCrawl, CrashWorker
  <1> HIDE DEF P
  <1>13. ASSUME NEW w \in Workers,
                \/ (\E i \in Jobs : ClaimScan(w, i)) \/ StartScan(w) \/ PublishObservation(w)
                \/ CompleteScan(w) \/ UnchangedCrawl(w) \/ MissingToken(w) \/ GiveUp(w)
                \/ FailScan(w) \/ CrashWorker(w)
         PROVE  P
    BY <1>4, <1>6, <1>7, <1>8, <1>12, <1>13, <1>16
  <1>14. ASSUME NEW c \in Checkers,
                \/ InsertSource(c) \/ RecordFirst(c) \/ ImportPackage(c) \/ ListPackage(c)
                \/ GetPack(c) \/ TouchWatchedPackage(c) \/ StampPackage(c) \/ StampOrigin(c)
                \/ EnqueueScan(c) \/ EndCheck(c)
         PROVE  P
    BY <1>3, <1>11, <1>14
  <1>15. CASE Next
    BY <1>5, <1>10, <1>13, <1>14, <1>15 DEF Next
  <1> QED BY <1>9, <1>15

LEMMA WaitingGrows ==
    ASSUME FenceIInv, PublishedTrue, kind = "npm", [Next]_vars, NEW v, Waiting(v)
    PROVE  Waiting(v)' \/ Settled(v)'
  <1>1. PICK j \in Jobs : jobs[j].version = v /\ jobs[j].status \in {"queued", "running", "failed"}
    BY DEF Waiting
  <1>2. /\ jobs'[j].version = v /\ jobs'[j].status # "free"
        /\ jobs'[j].status = "done" => Settled(v)'
    BY <1>1, JobsStep DEF JobKept
  <1>3. jobs'[j].status \in {"free", "queued", "running", "done", "failed"}
    BY FenceStep DEF FenceIInv, Types, Job
  <1> QED BY <1>2, <1>3 DEF Waiting

LEMMA ComingGrows ==
    ASSUME FenceIInv, DoneTrue, kind = "npm", [Next]_vars, NEW v, Coming(v)
    PROVE  Accounted(v)'
  <1>1. PICK c \in Checkers : check[c].pack = v /\ check[c].at \in {"recorded", "stamped"}
    BY DEF Coming
  <1>2. check \in [Checkers -> Check] /\ jobs \in [Jobs -> Job]
    BY DEF FenceIInv, Types
  <1>3. CASE EnqueueScan(c)
    <2>1. ASSUME NEW j \in Jobs, jobs' = [jobs EXCEPT ![j] = QueuedJob(c)]
          PROVE  Waiting(v)'
      BY <1>1, <1>2, <2>1 DEF Waiting, QueuedJob
    <2>2. ASSUME NEW i \in Jobs, SameDelivery(jobs[i], c), UNCHANGED jobs
          PROVE  Waiting(v)' \/ Settled(v)'
      <3>1. jobs[i].version = v /\ jobs[i].status # "free"
        BY <1>1, <2>2 DEF SameDelivery
      <3>2. CASE jobs[i].status = "done"
        BY <3>1, <3>2, SettledGrows DEF DoneTrue
      <3>3. CASE jobs[i].status # "done"
        BY <1>2, <2>2, <3>1, <3>3 DEF Waiting, Job
      <3> QED BY <3>2, <3>3
    <2> QED BY <1>3, <2>1, <2>2 DEF EnqueueScan, Accounted
  <1>4. CASE EndCheck(c)
    <2>1. missed' = [missed EXCEPT ![v] = "unqueued"]
      BY <1>1, <1>4 DEF EndCheck
    <2>2. v \in Versions /\ missed \in Missed
      BY <1>1, <1>2 DEF Check, FenceIInv, Types
    <2> QED BY <2>1, <2>2 DEF Accounted, Settled, Missed, Reasons
  <1>5. CASE ~EnqueueScan(c) /\ ~EndCheck(c)
    <2> DEFINE Q == check'[c].pack = v /\ check'[c].at \in {"recorded", "stamped"}
    <2>1. ASSUME UNCHANGED check PROVE Q
      BY <1>1, <2>1
    <2>2. ASSUME NEW d \in Checkers, d # c,
                 \/ InsertSource(d) \/ RecordFirst(d) \/ ImportPackage(d)
                 \/ ListPackage(d) \/ GetPack(d)
                 \/ TouchWatchedPackage(d) \/ StampPackage(d) \/ StampOrigin(d)
                 \/ EnqueueScan(d) \/ EndCheck(d)
          PROVE  Q
      <3>1. check'[c] = check[c]
        BY <1>2, <2>2 DEF InsertSource, RecordFirst, ImportPackage, ListPackage, GetPack, TouchWatchedPackage,
           StampPackage, StampOrigin, EnqueueScan, EndCheck
      <3> QED BY <1>1, <3>1
    <2>3. ASSUME \/ InsertSource(c) \/ RecordFirst(c) \/ ImportPackage(c)
                 \/ ListPackage(c) \/ GetPack(c)
                 \/ TouchWatchedPackage(c) \/ StampPackage(c) \/ StampOrigin(c)
          PROVE  Q
      <3>1. StampPackage(c)
        BY SMTT(40), <1>1, <2>3 DEF InsertSource, RecordFirst, ImportPackage, ListPackage,
           GetPack, TouchWatchedPackage, StampOrigin
      <3> QED BY <1>1, <1>2, <3>1 DEF StampPackage, Check
    <2>4. ASSUME \/ (\E paused \in BOOLEAN : SetPaused(paused))
                 \/ Disconnect \/ Challenge \/ MarkVerified \/ Release
                 \/ (\E j \in Jobs : RecoverScan(j))
                 \/ \E w \in Workers :
                      \/ (\E j \in Jobs : ClaimScan(w, j)) \/ StartScan(w)
                      \/ PublishObservation(w) \/ CompleteScan(w) \/ UnchangedCrawl(w)
                      \/ MissingToken(w) \/ GiveUp(w) \/ FailScan(w) \/ CrashWorker(w)
          PROVE  Q
      BY <2>1, <2>4 DEF SetPaused, Disconnect, Challenge, MarkVerified, Change, Release,
         RecoverScan, ClaimScan, StartScan, PublishObservation, CompleteScan, UnchangedCrawl,
         MissingToken, GiveUp, FailScan, CrashWorker
    <2> HIDE DEF Q
    <2>5. ASSUME Next PROVE Q
      BY <1>5, <2>2, <2>3, <2>4, <2>5 DEF Next
    <2>6. ASSUME UNCHANGED vars PROVE Q
      BY <2>1, <2>6 DEF vars
    <2>7. Q
      BY <2>5, <2>6
    <2> QED BY <2>7 DEF Q, Accounted, Coming
  <1> QED BY <1>3, <1>4, <1>5

LEMMA AccountedGrows ==
    ASSUME FenceIInv, PublishedTrue, DoneTrue, kind = "npm", [Next]_vars, NEW v, Accounted(v)
    PROVE  Accounted(v)'
  BY SettledGrows, WaitingGrows, ComingGrows DEF Accounted

\* Where a run that has published, a version that was listed and a version that
\* was recorded come from.
LEMMA Origins ==
    ASSUME FenceIInv, kind = "npm", [Next]_vars
    PROVE  /\ \A w \in Workers : run'[w].at = "published" =>
                 run'[w] = run[w] \/ PublishObservation(w)
           /\ \A c \in Checkers : check'[c].seen \in {0, check[c].seen, source.version}
           /\ \/ source'.version = source.version
              \/ \E c \in Checkers :
                   \/ source'.version = check[c].seen
                   \/ check'[c].pack = source'.version /\ check'[c].at = "recorded"
                   \/ source'.version \in Versions /\ missed'[source'.version] \in Reasons
  <1> DEFINE Runs == \A w \in Workers : run'[w].at = "published" =>
                        run'[w] = run[w] \/ PublishObservation(w)
             Seen == \A c \in Checkers : check'[c].seen \in {0, check[c].seen, source.version}
             Version == \/ source'.version = source.version
                        \/ \E c \in Checkers :
                             \/ source'.version = check[c].seen
                             \/ check'[c].pack = source'.version /\ check'[c].at = "recorded"
                             \/ source'.version \in Versions /\ missed'[source'.version] \in Reasons
  <1>1. check \in [Checkers -> Check] /\ run \in [Workers -> RunRow] /\ source \in Source
    BY DEF FenceIInv, Types
  <1>2. ASSUME NEW row \in Source, Change(row), row.version = source.version
        PROVE  Runs /\ Seen /\ Version
    <2>1. source'.version = source.version
      BY <1>2 DEF Change, Source
    <2> QED BY <1>2, <2>1 DEF Change
  <1>3. ASSUME \/ \E paused \in BOOLEAN : SetPaused(paused)
               \/ Disconnect \/ Challenge \/ MarkVerified
        PROVE  Runs /\ Seen /\ Version
    <2> HIDE DEF Runs, Seen, Version
    <2>1. ASSUME NEW paused \in BOOLEAN
          PROVE  /\ [source EXCEPT !.paused = paused] \in Source
                 /\ [source EXCEPT !.paused = paused].version = source.version
      BY <1>1 DEF Source
    <2>2. /\ [source EXCEPT !.connected = FALSE] \in Source
          /\ [source EXCEPT !.connected = FALSE].version = source.version
      BY <1>1 DEF Source
    <2>3. ASSUME NEW b \in BOOLEAN
          PROVE  /\ [source EXCEPT !.cleared = b] \in Source
                 /\ [source EXCEPT !.cleared = b].version = source.version
      BY <1>1 DEF Source
    <2> QED BY <1>2, <1>3, <2>1, <2>2, <2>3 DEF SetPaused, Disconnect, Challenge, MarkVerified
  <1>4. ASSUME NEW c \in Checkers,
               \/ InsertSource(c) \/ ListPackage(c) \/ GetPack(c)
               \/ StampPackage(c) \/ StampOrigin(c) \/ EnqueueScan(c) \/ EndCheck(c)
        PROVE  Runs /\ Seen /\ Version
    <2>1. Runs
      BY <1>4 DEF InsertSource, ListPackage, GetPack, StampPackage, StampOrigin, EnqueueScan,
         EndCheck
    <2>2. source'.version = source.version
      BY <1>1, <1>4 DEF InsertSource, ListPackage, GetPack, StampPackage, StampOrigin,
         EnqueueScan, EndCheck, users, Source
    <2>3. \A d \in Checkers : d # c => check'[d] = check[d]
      BY <1>1, <1>4 DEF InsertSource, ListPackage, GetPack, StampPackage, StampOrigin,
         EnqueueScan, EndCheck
    <2>4. check'[c].seen \in {0, check[c].seen, source.version}
      <3>1. NoCheck.seen = 0
        BY DEF NoCheck
      <3>2. CASE InsertSource(c)
        BY <1>1, <3>2 DEF InsertSource, NoCheck
      <3>3. CASE ListPackage(c)
        BY <1>1, <3>3 DEF ListPackage, NoCheck
      <3>4. CASE GetPack(c) \/ StampPackage(c)
        BY <1>1, <3>4 DEF GetPack, StampPackage, Check
      <3>5. CASE StampOrigin(c) \/ EnqueueScan(c) \/ EndCheck(c)
        BY <1>1, <3>1, <3>5 DEF StampOrigin, EnqueueScan, EndCheck
      <3> QED BY <1>4, <3>2, <3>3, <3>4, <3>5
    <2> QED BY <2>1, <2>2, <2>3, <2>4
  <1>5. ASSUME NEW c \in Checkers, RecordFirst(c) PROVE Runs /\ Seen /\ Version
    <2>1. /\ Runs /\ source'.version = check[c].pack /\ check'[c].pack = check[c].pack
          /\ check'[c].at = "recorded" /\ check'[c].seen = check[c].seen
      BY <1>1, <1>5 DEF RecordFirst, Source, Check
    <2>2. \A d \in Checkers : d # c => check'[d] = check[d]
      BY <1>1, <1>5 DEF RecordFirst
    <2> QED BY <2>1, <2>2
  <1>6. ASSUME NEW c \in Checkers, TouchWatchedPackage(c) PROVE Runs /\ Seen /\ Version
    <2>1. Runs /\ source'.version = check[c].pack
      BY <1>1, <1>6 DEF TouchWatchedPackage, Source
    <2>2. \A d \in Checkers : d # c => check'[d] = check[d]
      BY <1>1, <1>6 DEF TouchWatchedPackage
    <2>3. CASE check[c].pack = check[c].seen
      <3>1. check'[c].seen = 0
        BY <1>1, <1>6, <2>3 DEF TouchWatchedPackage, NoCheck
      <3> QED BY <2>1, <2>2, <2>3, <3>1
    <2>4. CASE check[c].pack # check[c].seen
      <3>1. /\ check'[c].pack = check[c].pack /\ check'[c].at = "recorded"
            /\ check'[c].seen = 0
        BY <1>1, <1>6, <2>4 DEF TouchWatchedPackage, Check, NoCheck
      <3> QED BY <2>1, <2>2, <3>1
    <2> QED BY <2>3, <2>4
  <1>10. ASSUME NEW c \in Checkers, ImportPackage(c) PROVE Runs /\ Seen /\ Version
    <2>1. /\ Runs /\ source'.version = check[c].pack /\ check'[c].seen = 0
          /\ check[c].pack \in Versions
      BY <1>1, <1>10 DEF ImportPackage, Source, Check, NoCheck
    <2>2. \A d \in Checkers : d # c => check'[d] = check[d]
      BY <1>1, <1>10 DEF ImportPackage
    <2>3. missed'[check[c].pack] \in Reasons
      BY <1>10, <2>1 DEF ImportPackage, FenceIInv, Types, Missed, Reasons
    <2> QED BY <2>1, <2>2, <2>3
  <1>7. ASSUME NEW w \in Workers,
               \/ (\E j \in Jobs : ClaimScan(w, j)) \/ StartScan(w) \/ PublishObservation(w)
               \/ CompleteScan(w) \/ UnchangedCrawl(w) \/ MissingToken(w) \/ GiveUp(w)
               \/ FailScan(w) \/ CrashWorker(w)
        PROVE  Runs /\ Seen /\ Version
    <2>1. UNCHANGED <<source, check>>
      BY <1>7 DEF ClaimScan, StartScan, PublishObservation, CompleteScan, UnchangedCrawl, MissingToken, GiveUp,
         FailScan, CrashWorker, users
    <2>2. \A v \in Workers : v # w => run'[v] = run[v]
      <3>1. ASSUME NEW row, run' = [run EXCEPT ![w] = row]
            PROVE  \A v \in Workers : v # w => run'[v] = run[v]
        BY <1>1, <3>1
      <3> HIDE DEF Runs, Seen, Version
      <3>2. \E row : run' = [run EXCEPT ![w] = row]
        BY ZenonT(40), <1>7 DEF ClaimScan, StartScan, PublishObservation, CompleteScan,
           UnchangedCrawl, MissingToken, GiveUp, FailScan, CrashWorker, EndJob
      <3> QED BY <3>1, <3>2
    <2>3. run'[w].at = "published" => PublishObservation(w)
      <3>1. NoRun.at = "idle"
        BY DEF NoRun
      <3>2. ASSUME NEW status, EndJob(w, status) PROVE run'[w].at = "idle"
        BY <1>1, <3>1, <3>2 DEF EndJob
      <3>3. CASE CompleteScan(w) \/ UnchangedCrawl(w) \/ MissingToken(w) \/ GiveUp(w)
        BY <3>2, <3>3 DEF CompleteScan, UnchangedCrawl, MissingToken, GiveUp
      <3>4. CASE FailScan(w)
        BY <3>2, <3>4 DEF FailScan
      <3>5. ASSUME NEW j \in Jobs, ClaimScan(w, j) PROVE run'[w].at = "claimed"
        BY <1>1, <3>5 DEF ClaimScan
      <3>6. CASE StartScan(w)
        BY <1>1, <3>6 DEF StartScan, RunRow
      <3>7. CASE CrashWorker(w)
        BY <1>1, <3>1, <3>7 DEF CrashWorker
      <3> QED BY <1>7, <3>3, <3>4, <3>5, <3>6, <3>7
    <2> QED BY <2>1, <2>2, <2>3
  <1>8. ASSUME \/ UNCHANGED vars \/ Release \/ \E j \in Jobs : RecoverScan(j)
        PROVE  Runs /\ Seen /\ Version
    BY <1>8 DEF vars, Release, RecoverScan, users
  <1> HIDE DEF Runs, Seen, Version
  <1>9. Runs /\ Seen /\ Version
    BY <1>3, <1>4, <1>5, <1>6, <1>7, <1>8, <1>10 DEF Next
  <1> QED BY <1>9 DEF Runs, Seen, Version

LEMMA DeliveryStep ==
    ASSUME FenceIInv, OneDelivery, kind = "npm" => PublishedTrue, [Next]_vars
    PROVE  OneDelivery'
  <1> SUFFICES ASSUME kind = "npm", NEW i \in Jobs, NEW j \in Jobs, i # j,
                      jobs'[i].status # "free", jobs'[j].status # "free"
               PROVE  jobs'[i].version # jobs'[j].version \/ jobs'[i].gen # jobs'[j].gen
    BY LogGrows DEF OneDelivery
  <1>1. JobKept(i) /\ JobKept(j) /\ jobs \in [Jobs -> Job]
    BY JobsStep DEF FenceIInv, Types
  <1>2. CASE jobs[i].status # "free" /\ jobs[j].status # "free"
    BY <1>1, <1>2 DEF JobKept, OneDelivery
  <1>3. CASE jobs[i].status = "free"
    <2>1. PICK c \in Checkers : /\ jobs' = [jobs EXCEPT ![i] = QueuedJob(c)]
                                /\ ~\E k \in Jobs : SameDelivery(jobs[k], c)
      BY <1>1, <1>3 DEF JobKept
    <2> QED BY <1>1, <2>1 DEF SameDelivery, QueuedJob
  <1>4. CASE jobs[j].status = "free"
    <2>1. PICK c \in Checkers : /\ jobs' = [jobs EXCEPT ![j] = QueuedJob(c)]
                                /\ ~\E k \in Jobs : SameDelivery(jobs[k], c)
      BY <1>1, <1>4 DEF JobKept
    <2> QED BY <1>1, <2>1 DEF SameDelivery, QueuedJob
  <1> QED BY <1>2, <1>3, <1>4

LEMMA AccountInit == Init => AccountIInv
  <1> SUFFICES ASSUME Init PROVE AccountIInv
    OBVIOUS
  <1>1. FenceIInv
    BY FenceInit
  <1>2. OneDelivery
    BY DEF Init, OneDelivery, FreeJob
  <1>3. PublishedTrue /\ DoneTrue /\ SeenTrue /\ source.version = 0
    BY DEF Init, PublishedTrue, DoneTrue, SeenTrue, FreeJob, NoCheck, NoRun
  <1> QED BY <1>1, <1>2, <1>3 DEF AccountIInv

LEMMA AccountStep == AccountIInv /\ [Next]_vars => AccountIInv'
  <1> SUFFICES ASSUME AccountIInv, [Next]_vars PROVE AccountIInv'
    OBVIOUS
  <1> USE DEF AccountIInv
  <1>1. FenceIInv'
    BY FenceStep
  <1>2. OneDelivery'
    BY DeliveryStep
  <1>3. ASSUME kind = "npm"
        PROVE  /\ (PublishedTrue /\ DoneTrue /\ SeenTrue)'
               /\ (source.version # 0 => Accounted(source.version))'
    <2>1. ASSUME NEW w \in Workers, run'[w].at = "published"
          PROVE  Published(jobs[run[w].job].version)'
      <3>1. CASE PublishObservation(w)
        <4>1. jobs' = jobs /\ run'[w].job = run[w].job
          BY <3>1, RunFacts DEF PublishObservation, RunRow
        <4> DEFINE e == [version |-> jobs[run[w].job].version,
                         queued |-> jobs[run[w].job].epoch, published |-> epoch]
        <4>2. e \in evidence' /\ e.version = jobs[run[w].job].version
          BY <3>1 DEF PublishObservation
        <4> QED BY <4>1, <4>2 DEF Published
      <3>2. CASE run'[w] = run[w]
        <4> DEFINE v == jobs[run[w].job].version
        <4>1. Published(v)
          BY <1>3, <2>1, <3>2 DEF PublishedTrue, Published
        <4>2. jobs'[run'[w].job].version = jobs[run[w].job].version
          BY <1>3, <2>1, <3>2, RunFacts, JobsStep DEF JobKept
        <4> QED BY <4>1, <4>2, LogGrows DEF Published
      <3> QED BY <1>3, <2>1, <3>1, <3>2, Origins
    <2>2. ASSUME NEW j \in Jobs, jobs'[j].status = "done" PROVE Settled(jobs[j].version)'
      <3>1. JobKept(j) /\ jobs \in [Jobs -> Job]
        BY <1>3, JobsStep DEF FenceIInv, Types
      <3>2. jobs[j].status # "free"
        BY <2>2, <3>1 DEF JobKept, QueuedJob
      <3>3. jobs'[j].version = jobs[j].version
        BY <3>1, <3>2 DEF JobKept
      <3>4. CASE jobs[j].status = "done"
        <4>1. Settled(jobs[j].version)
          BY <1>3, <3>4 DEF DoneTrue
        <4> QED BY <3>3, <4>1, LogGrows DEF Settled, Published
      <3>5. CASE jobs[j].status # "done"
        <4>1. ASSUME NEW v, v = jobs[j].version PROVE Settled(v)'
          BY <1>3, <2>2, <3>2, <3>5, <4>1, JobsStep
        <4> QED BY <3>3, <4>1 DEF Settled, Published
      <3> QED BY <3>4, <3>5
    <2>3. ASSUME NEW v, Accounted(v) PROVE Accounted(v)'
      BY <1>3, <2>3, AccountedGrows
    <2>4. ASSUME NEW c \in Checkers, check'[c].seen # 0 PROVE Accounted(check[c].seen)'
      <3>1. \A v : v = check'[c].seen => Accounted(v)'
        BY <1>3, <2>3, <2>4, Origins DEF SeenTrue
      <3> QED BY <3>1 DEF Accounted, Settled, Published, Waiting, Coming
    <2>5. ASSUME source'.version # 0 PROVE Accounted(source.version)'
      <3>1. ASSUME NEW v, v = source'.version PROVE Accounted(v)'
        <4>1. CASE v = source.version
          BY <1>3, <2>3, <2>5, <3>1, <4>1
        <4>2. ASSUME NEW c \in Checkers, v = check[c].seen PROVE Accounted(v)'
          BY <1>3, <2>3, <2>5, <3>1, <4>2 DEF SeenTrue
        <4>3. ASSUME NEW c \in Checkers, check'[c].pack = v, check'[c].at = "recorded"
              PROVE  Accounted(v)'
          BY <4>3 DEF Accounted, Coming
        <4>4. ASSUME v \in Versions, missed'[v] \in Reasons PROVE Accounted(v)'
          BY <4>4 DEF Accounted, Settled
        <4> QED BY <1>3, <3>1, <4>1, <4>2, <4>3, <4>4, Origins
      <3> QED BY <3>1 DEF Accounted, Settled, Published, Waiting, Coming
    <2> QED BY <2>1, <2>2, <2>4, <2>5 DEF PublishedTrue, DoneTrue, SeenTrue
  <1> QED BY <1>1, <1>2, <1>3, LogGrows

LEMMA AccountInvariant == Spec => []AccountIInv
  BY AccountInit, AccountStep, PTL DEF Spec

\* Every variable keeps its type, and a version is queued once for a connection.
THEOREM WatchTypeCorrect == Spec => []WatchTypeOK
  <1>1. AccountIInv => WatchTypeOK
    BY TypeParts DEF AccountIInv, FenceIInv
  <1> QED BY <1>1, AccountInvariant, PTL

\* A version that was recorded is published, or its scan is queued, running or
\* failed, or a check is about to queue it, or one of the four reasons is on
\* record: the check ended, the package was imported, the connection changed, or
\* the token was missing.
THEOREM RecordedIsAccounted == Spec => []RecordedAccounted
  <1>1. AccountIInv => RecordedAccounted
    BY DEF AccountIInv, RecordedAccounted, Accounted, Settled, Published, Waiting, Coming
  <1> QED BY <1>1, AccountInvariant, PTL
-----------------------------------------------------------------------------
(* The promise: what the checks and the runs do to the scans is submitting,   *)
(* taking, giving back and closing as JobPromise allows it.                  *)

\* A scan has a worker just while it runs.
LocksTrue == \A j \in Jobs : jobs[j].by # "nobody" <=> jobs[j].status = "running"

JobsAlone == \A j \in Jobs : jobs'[j].status = jobs[j].status /\ jobs'[j].by = jobs[j].by

\* Only scan j moves, to a status and a worker.
Moves(j, status, by) ==
    /\ jobs'[j].status = status /\ jobs'[j].by = by
    /\ \A i \in Jobs \ {j} : jobs'[i].status = jobs[i].status /\ jobs'[i].by = jobs[i].by

\* What a step may do to the scans.
JobMoves ==
    \/ JobsAlone
    \/ \E j \in Jobs : jobs[j].status = "free" /\ Moves(j, "queued", "nobody")
    \/ \E j \in Jobs, w \in Workers : jobs[j].status = "queued" /\ Moves(j, "running", w)
    \/ \E j \in Jobs, status \in {"queued", "done", "failed"} :
         jobs[j].by # "nobody" /\ Moves(j, status, "nobody")

\* A run that was overtaken does not move its job; one that holds it does.
LEMMA EndJobMoves ==
    ASSUME FenceIInv, NEW w \in Workers, run[w].at # "idle",
           NEW status \in {"queued", "done", "failed"}, EndJob(w, status)
    PROVE  JobMoves
  <1>1. run[w].job \in Jobs /\ jobs \in [Jobs -> Job] /\ w # "nobody"
    BY RunFacts, WatchAssumption
  <1>2. CASE jobs[run[w].job].by = w
    <2>1. Moves(run[w].job, status, "nobody")
      BY <1>1, <1>2 DEF EndJob, Moves, Job
    <2> QED BY <1>1, <1>2, <2>1 DEF JobMoves
  <1>3. CASE jobs[run[w].job].by # w
    BY <1>3 DEF EndJob, JobMoves, JobsAlone
  <1> QED BY <1>2, <1>3

LEMMA JobMovesStep == FenceIInv /\ LocksTrue /\ [Next]_vars => JobMoves
  <1> SUFFICES ASSUME FenceIInv, LocksTrue, [Next]_vars PROVE JobMoves
    OBVIOUS
  <1>1. jobs \in [Jobs -> Job]
    BY DEF FenceIInv, Types
  <1>2. ASSUME UNCHANGED jobs PROVE JobMoves
    BY <1>2 DEF JobMoves, JobsAlone
  <1>3. ASSUME NEW c \in Checkers, EnqueueScan(c) PROVE JobMoves
    <2>1. ASSUME NEW j \in Jobs, jobs[j].status = "free",
                 jobs' = [jobs EXCEPT ![j] = QueuedJob(c)]
          PROVE  JobMoves
      <3>1. Moves(j, "queued", "nobody")
        BY <1>1, <2>1 DEF Moves, QueuedJob
      <3> QED BY <2>1, <3>1 DEF JobMoves
    <2> QED BY <1>2, <1>3, <2>1 DEF EnqueueScan
  <1>4. ASSUME NEW w \in Workers, NEW j \in Jobs, ClaimScan(w, j) PROVE JobMoves
    <2>1. jobs[j].status = "queued" /\ Moves(j, "running", w)
      BY <1>1, <1>4 DEF ClaimScan, Moves, Job
    <2> QED BY <2>1 DEF JobMoves
  <1>5. ASSUME NEW j \in Jobs, RecoverScan(j) PROVE JobMoves
    <2>1. jobs[j].by # "nobody" /\ Moves(j, "queued", "nobody")
      BY <1>1, <1>5 DEF RecoverScan, Moves, Job, LocksTrue
    <2> QED BY <2>1 DEF JobMoves
  <1>6. ASSUME NEW w \in Workers,
               \/ CompleteScan(w) \/ UnchangedCrawl(w) \/ MissingToken(w) \/ GiveUp(w)
               \/ FailScan(w)
        PROVE  JobMoves
    <2>1. run[w].at # "idle" /\ \E status \in {"queued", "done", "failed"} : EndJob(w, status)
      BY <1>6 DEF CompleteScan, UnchangedCrawl, MissingToken, GiveUp, FailScan
    <2> QED BY <2>1, EndJobMoves
  <1>7. CASE UNCHANGED vars
    BY <1>2, <1>7 DEF vars
  <1>8. CASE \/ \E paused \in BOOLEAN : SetPaused(paused)
             \/ Disconnect \/ Challenge \/ MarkVerified \/ Release
    BY <1>2, <1>8 DEF SetPaused, Disconnect, Challenge, MarkVerified, Change, Release
  <1>9. ASSUME NEW c \in Checkers,
               \/ InsertSource(c) \/ RecordFirst(c) \/ ImportPackage(c) \/ ListPackage(c)
               \/ GetPack(c) \/ TouchWatchedPackage(c) \/ StampPackage(c) \/ StampOrigin(c)
               \/ EndCheck(c)
        PROVE  JobMoves
    BY <1>2, <1>9 DEF InsertSource, RecordFirst, ImportPackage, ListPackage, GetPack, TouchWatchedPackage,
       StampPackage, StampOrigin, EndCheck
  <1>10. ASSUME NEW w \in Workers, StartScan(w) \/ PublishObservation(w) \/ CrashWorker(w)
         PROVE  JobMoves
    BY <1>2, <1>10 DEF StartScan, PublishObservation, CrashWorker
  <1>11. CASE Next
    BY <1>3, <1>4, <1>5, <1>6, <1>8, <1>9, <1>10, <1>11 DEF Next
  <1> QED BY <1>7, <1>11

LEMMA LocksStep == FenceIInv /\ LocksTrue /\ [Next]_vars => LocksTrue'
  <1> SUFFICES ASSUME FenceIInv, LocksTrue, JobMoves PROVE LocksTrue'
    BY JobMovesStep
  <1>1. CASE JobsAlone
    BY <1>1 DEF JobsAlone, LocksTrue
  <1>2. ASSUME NEW j \in Jobs, NEW status, NEW by, Moves(j, status, by),
               by # "nobody" <=> status = "running"
        PROVE  LocksTrue'
    BY <1>2 DEF Moves, LocksTrue
  <1> QED BY <1>1, <1>2, WatchAssumption DEF JobMoves

LEMMA LocksInvariant == Spec => []LocksTrue
  <1>1. Init => LocksTrue
    BY DEF Init, FreeJob, LocksTrue
  <1> QED BY <1>1, FenceInvariant, LocksStep, PTL DEF Spec

-----------------------------------------------------------------------------
phaseBar == [j \in Jobs |-> Phase(jobs[j].status)]
holderBar == [j \in Jobs |-> jobs[j].by]
chargeBar == [j \in Jobs |-> 0]

LEMMA PhaseValues ==
    /\ Phase("free") = "absent" /\ Phase("queued") = "waiting"
    /\ Phase("running") = "held" /\ Phase("done") = "over" /\ Phase("failed") = "over"
  BY DEF Phase

LEMMA Mapped ==
    /\ Promise!Init <=> /\ phaseBar = [j \in Jobs |-> "absent"]
                        /\ holderBar = [j \in Jobs |-> "nobody"]
                        /\ chargeBar = [j \in Jobs |-> 0]
    /\ Promise!vars = <<phaseBar, holderBar, chargeBar, 1>>
    /\ \A lane : Promise!Held(lane) =
         {j \in Jobs : phaseBar[j] = "held" /\ [i \in Jobs |-> "scan"][j] = lane}
  BY DEF Promise!Init, Promise!vars, Promise!Held, phaseBar, holderBar, chargeBar

\* The promise counts with its own instance of the library's definition.
LEMMA SameCount == \A S : Promise!Cardinality(S) = Cardinality(S)
  BY Zenon DEF Promise!Cardinality, Cardinality

\* Nobody pays, so nothing is charged.
LEMMA NoCharge == \A j : Promise!Charge(j)
  BY DEF Promise!Charge

\* Jobs that leave out one have room for it.
LEMMA JobsCount ==
    ASSUME NEW S \in SUBSET Jobs, NEW j \in Jobs \ S
    PROVE  Cardinality(S) < MaxJobs
  <1>1. IsFiniteSet(Jobs) /\ Cardinality(Jobs) = MaxJobs
    BY FS_Interval, WatchAssumption DEF Jobs
  <1>2. IsFiniteSet(S) /\ Cardinality(S) < Cardinality(Jobs)
    BY <1>1, FS_Subset, FS_CardinalityType
  <1> QED BY <1>1, <1>2

LEMMA SubmitBar ==
    ASSUME LocksTrue, NEW j \in Jobs, jobs[j].status = "free", Moves(j, "queued", "nobody")
    PROVE  Promise!Submit(j)
  <1>1. phaseBar[j] = "absent" /\ phaseBar' = [phaseBar EXCEPT ![j] = "waiting"]
    BY PhaseValues DEF Moves, phaseBar
  <1>2. holderBar' = holderBar
    BY DEF Moves, LocksTrue, holderBar
  <1> QED BY <1>1, <1>2, NoCharge DEF Promise!Submit, phaseBar, holderBar

LEMMA TakeBar ==
    ASSUME NEW j \in Jobs, NEW w \in Workers, jobs[j].status = "queued", Moves(j, "running", w)
    PROVE  Promise!Take(w, j)
  <1>1. phaseBar[j] = "waiting" /\ phaseBar' = [phaseBar EXCEPT ![j] = "held"]
    BY PhaseValues DEF Moves, phaseBar
  <1>2. holderBar' = [holderBar EXCEPT ![j] = w]
    BY DEF Moves, holderBar
  <1>3. Promise!Held("scan") \in SUBSET Jobs /\ j \notin Promise!Held("scan")
    BY <1>1, Mapped
  <1>4. Promise!Cardinality(Promise!Held("scan")) < MaxJobs
    BY <1>3, JobsCount, SameCount
  <1> QED BY <1>1, <1>2, <1>4, NoCharge DEF Promise!Take, phaseBar, holderBar

LEMMA LeaveBar ==
    ASSUME LocksTrue, NEW j \in Jobs, NEW status \in {"queued", "done", "failed"},
           jobs[j].by # "nobody", Moves(j, status, "nobody")
    PROVE  Promise!GiveBack({j}) \/ Promise!Close({j})
  <1>1. phaseBar[j] = "held"
    BY PhaseValues DEF LocksTrue, phaseBar
  <1>2. /\ phaseBar' = [i \in Jobs |-> IF i \in {j} THEN Phase(status) ELSE phaseBar[i]]
        /\ holderBar' = [i \in Jobs |-> IF i \in {j} THEN "nobody" ELSE holderBar[i]]
    BY DEF Moves, phaseBar, holderBar
  <1>3. Promise!Leave({j}, Phase(status))
    BY <1>2 DEF Promise!Leave, phaseBar, holderBar
  <1>4. CASE status = "queued"
    BY <1>1, <1>3, <1>4, PhaseValues DEF Promise!GiveBack, phaseBar
  <1>5. CASE status \in {"done", "failed"}
    BY <1>1, <1>3, <1>5, PhaseValues DEF Promise!Close, phaseBar
  <1> QED BY <1>4, <1>5

LEMMA PromiseStep ==
    ASSUME FenceIInv, LocksTrue, [Next]_vars
    PROVE  [Promise!Next]_(Promise!vars)
  <1>1. CASE JobsAlone
    BY <1>1, Mapped DEF JobsAlone, Promise!vars, phaseBar, holderBar, chargeBar
  <1>2. ASSUME NEW j \in Jobs, jobs[j].status = "free", Moves(j, "queued", "nobody")
        PROVE  Promise!Next
    BY <1>2, SubmitBar DEF Promise!Next
  <1>3. ASSUME NEW j \in Jobs, NEW w \in Workers, jobs[j].status = "queued",
               Moves(j, "running", w)
        PROVE  Promise!Next
    BY <1>3, TakeBar DEF Promise!Next
  <1>4. ASSUME NEW j \in Jobs, NEW status \in {"queued", "done", "failed"},
               jobs[j].by # "nobody", Moves(j, status, "nobody")
        PROVE  Promise!Next
    BY <1>4, LeaveBar DEF Promise!Next
  <1> QED BY JobMovesStep, <1>1, <1>2, <1>3, <1>4 DEF JobMoves

\* The scans of a watched source implement JobPromise: a scan is in the hands
\* of one worker at a time and once over stays over, however the checks that
\* queue it, the runs that are overtaken by a recovery, given up or crash, and
\* the changes of the connection interleave.
THEOREM ScansKeepPromise == Spec => KeepsPromise
  <1>1. Init => Promise!Init
    <2>1. Init => /\ phaseBar = [j \in Jobs |-> "absent"]
                  /\ holderBar = [j \in Jobs |-> "nobody"]
                  /\ chargeBar = [j \in Jobs |-> 0]
      BY PhaseValues DEF Init, FreeJob, phaseBar, holderBar, chargeBar
    <2> QED BY <2>1, Mapped
  <1>2. FenceIInv /\ LocksTrue /\ [Next]_vars => [Promise!Next]_(Promise!vars)
    BY PromiseStep
  <1> QED BY FenceInvariant, LocksInvariant, <1>1, <1>2, PTL DEF Spec, KeepsPromise, Promise!Spec
=============================================================================
