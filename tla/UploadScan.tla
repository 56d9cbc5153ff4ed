----------------------------- MODULE UploadScan -----------------------------
(***************************************************************************)
(* Uploaded artifacts (upload-store.ts) and the handler that scans them    *)
(* (upload-worker.ts), composed with the job queue: upload j is the row of *)
(* uploaded_scans whose job has the delivery identity upload:<id>.         *)
(*                                                                         *)
(* The handler keeps no transaction open while it works, so each of its    *)
(* database round trips is an action and everything may happen in between: *)
(* the lock is taken over, the upload expires, access is revoked.          *)
(***************************************************************************)
EXTENDS JobQueue

VARIABLES
    upload,  \* the uploaded_scans table
    access,  \* uploads whose token, membership and workspace still allow the scan
    step     \* step[RunKey(r)]: where the handler of run r is

uploadVars == <<upload, access, step>>

\* expired: expires_at has passed.  bytes: the artifact is still staged.
Upload == [status : Statuses, expired : BOOLEAN, bytes : BOOLEAN,
           refunded : BOOLEAN]

NoUpload == [status |-> "absent", expired |-> FALSE, bytes |-> FALSE,
             refunded |-> FALSE]

\* start: the handler was entered.  check: the upload is running.
\* scan: parsing started.  caught: an error reached the catch block.
\* fail: the catch block saw the lock still held.  return: the handler is done.
Steps == {"start", "check", "scan", "caught", "fail", "return"}

RunKey(r) == <<r.worker, r.job, r.claim>>
At(r, s) == step[RunKey(r)] = s
Goto(r, s) == step' = [step EXCEPT ![RunKey(r)] = s]
Parsing(r) == r.stage = "scanned"    \* the handler's local parsingStarted

queueOnly == <<nextId, plan, today, live, proc>>

-----------------------------------------------------------------------------
(* Admission and revocation.                                               *)

\* assertScanAccess: the source is connected, and the actor or token may scan.
ScanAccess(j) == j \in access /\ (Source[j] = None \/ Source[j] \in live)

\* A repeated request finds its row and changes nothing; every upload is paid for.
QueueUploadedScan(j) ==
    /\ Kind[j] = "upload" /\ Payer[j] \in Payers /\ ScanAccess(j)
    /\ EnqueueJob(j)
    /\ upload' = [upload EXCEPT ![j] =
                    [NoUpload EXCEPT !.status = "queued", !.bytes = TRUE]]
    /\ UNCHANGED <<access, step>>

RevokeAccess(j) ==
    /\ j \in access
    /\ access' = access \ {j}
    /\ UNCHANGED <<vars, upload, step>>

\* Uploads made with a token of the source lose their access with it.
DisconnectSource(s) ==
    /\ DeleteInstallation(s)
    /\ \E byToken \in SUBSET {j \in Jobs : Source[j] = s} : access' = access \ byToken
    /\ upload' = [j \in Jobs |->
          IF Source[j] = s /\ upload[j].status \in {"queued", "running"}
          THEN [upload[j] EXCEPT !.status = "failed", !.bytes = FALSE]
          ELSE upload[j]]
    /\ UNCHANGED step

-----------------------------------------------------------------------------
(* Writes of upload-store.ts to the row.                                   *)

\* Mutant: the refund does not spare a completed upload.
RefundAnyUpload(j, refund) ==
    LET row == upload[j] IN
    /\ IF refund /\ ~row.refunded
       THEN RefundJobReservation(j) ELSE UNCHANGED <<job, usage>>
    /\ upload' = IF row.status = "done" THEN upload
                 ELSE [upload EXCEPT ![j] = [row EXCEPT
                   !.status = "failed", !.bytes = FALSE, !.refunded = @ \/ refund]]

\* Mutant: neither does the failure.
FailAnyUpload(j, refund) ==
    /\ IF refund /\ ~upload[j].refunded
       THEN RefundJobReservation(j) ELSE UNCHANGED <<job, usage>>
    /\ upload' = [upload EXCEPT ![j] = [upload[j] EXCEPT
                   !.status = "failed", !.bytes = FALSE, !.refunded = @ \/ refund]]

\* failUploadedScan: a completed upload is left alone, a refund happens once.
FailUploadedScan(j, refund) ==
    LET row == upload[j] IN
    /\ IF refund /\ row.status # "done" /\ ~row.refunded
       THEN RefundJobReservation(j) ELSE UNCHANGED <<job, usage>>
    /\ upload' = IF row.status = "done" THEN upload
                 ELSE [upload EXCEPT ![j] = [row EXCEPT
                   !.status = "failed", !.bytes = FALSE, !.refunded = @ \/ refund]]

UploadExpires(j) ==
    /\ upload[j].status # "absent" /\ ~upload[j].expired
    /\ upload' = [upload EXCEPT ![j].expired = TRUE]
    /\ UNCHANGED <<vars, access, step>>

\* expireUploadedScans, first loop: expired queued uploads are refunded.
ExpireQueued(j) ==
    /\ upload[j].status = "queued" /\ upload[j].expired
    /\ FailUploadedScan(j, TRUE)
    /\ UNCHANGED <<queueOnly, runs, access, step>>

\* Its last update: what is still running, or has expired since the first
\* query, fails without a refund.
ExpireRest(j) ==
    /\ upload[j].status \in {"queued", "running"} /\ upload[j].expired
    /\ upload' = [upload EXCEPT ![j].status = "failed", ![j].bytes = FALSE]
    /\ UNCHANGED <<vars, access, step>>

-----------------------------------------------------------------------------
(* The handler, processUploadedScan.                                       *)

\* Mutant: the claimed job is not handed to a handler.
ClaimWithoutHandler(w, j) == ClaimJob(w, j) /\ UNCHANGED uploadVars

ClaimUpload(w, j) ==
    /\ ClaimJob(w, j)
    /\ step' = [k \in DOMAIN step \cup {<<w, j, job'[j].claims>>} |->
                  IF k \in DOMAIN step THEN step[k] ELSE "start"]
    /\ UNCHANGED <<upload, access>>

StartUploadedScan(r) ==
    /\ At(r, "start")
    /\ LET row == upload[r.job]
           startable == /\ row.status \in {"queued", "running"}
                        /\ ~row.expired /\ row.bytes
       IN /\ upload' = IF startable
                       THEN [upload EXCEPT ![r.job].status = "running"] ELSE upload
          /\ Goto(r, IF startable THEN "check" ELSE "return")
    /\ UNCHANGED <<vars, access>>

\* An error before or during the scan: access, policy, crawl, parser, signing.
HandlerFails(r) ==
    /\ At(r, "check") \/ At(r, "scan")
    /\ Goto(r, "caught")
    /\ UNCHANGED <<vars, upload, access>>

Eligible(j) == plan[Payer[j]] \in {"solo", "team"}

\* The plan ended since admission: the upload fails and is refunded.
NotEligible(r) ==
    /\ At(r, "check") /\ ScanAccess(r.job) /\ ~Eligible(r.job)
    /\ FailUploadedScan(r.job, TRUE)
    /\ Goto(r, "return")
    /\ UNCHANGED <<queueOnly, runs, access>>

BeginParsing(r) ==
    /\ At(r, "check") /\ ScanAccess(r.job) /\ Eligible(r.job)
    /\ Unpack(r)
    /\ step' = [step EXCEPT ![RunKey(r)] = "scan"]
    /\ UNCHANGED <<upload, access>>

\* Mutant: access is not checked again after the scan.
PublishUnchecked(r) ==
    /\ At(r, "scan")
    /\ upload' = IF Owns(r) /\ upload[r.job].status = "running"
                 THEN [upload EXCEPT ![r.job].status = "done", ![r.job].bytes = FALSE]
                 ELSE upload
    /\ Goto(r, "return")
    /\ UNCHANGED <<vars, access>>

\* The publication transaction: nothing is written unless the lock is held, the
\* access still stands and the upload is still running.
Publish(r) ==
    /\ At(r, "scan")
    /\ LET ok == Owns(r) /\ ScanAccess(r.job) /\ upload[r.job].status = "running"
       IN /\ upload' = IF ok
                       THEN [upload EXCEPT ![r.job].status = "done",
                                           ![r.job].bytes = FALSE]
                       ELSE upload
          /\ Goto(r, IF Owns(r) /\ ~ScanAccess(r.job) THEN "caught" ELSE "return")
    /\ UNCHANGED <<vars, access>>

\* Mutant: the catch block only swallows the error.
Swallow(r) == At(r, "caught") /\ Goto(r, "return") /\ UNCHANGED <<vars, upload, access>>

\* The catch block reads the lock in a query of its own.
CheckLock(r) ==
    /\ At(r, "caught")
    /\ Goto(r, IF Owns(r) THEN "fail" ELSE "return")
    /\ UNCHANGED <<vars, upload, access>>

FailUpload(r) ==
    /\ At(r, "fail")
    /\ FailUploadedScan(r.job, ~Parsing(r))
    /\ Goto(r, "return")
    /\ UNCHANGED <<queueOnly, runs, access>>

Drop(r) ==
    /\ step' = [k \in DOMAIN step \ {RunKey(r)} |-> step[k]]
    /\ UNCHANGED <<upload, access>>

\* Mutant: the job is completed without looking at the lock.
ReturnAnyRun(r) ==
    /\ At(r, "return")
    /\ runs' = runs \ {r}
    /\ job' = [job EXCEPT ![r.job] = Unlocked(job[r.job], "done")]
    /\ UNCHANGED <<nextId, usage, plan, today, live, proc>>
    /\ Drop(r)

HandlerReturns(r) == At(r, "return") /\ FinishJob(r) /\ Drop(r)

\* A database error where the handler does not catch it.
HandlerThrows(r) ==
    step[RunKey(r)] \in {"start", "caught", "fail"} /\ FailJob(r) /\ Drop(r)

\* Shutdown aborts the scanner; the upload stays running for the next claim.
HandlerInterrupted(r) ==
    step[RunKey(r)] \in {"check", "scan"} /\ RequeueInterruptedJob(r) /\ Drop(r)

CrashWorker(w) ==
    /\ Crash(w)
    /\ step' = [k \in {RunKey(r) : r \in runs'} |-> step[k]]
    /\ UNCHANGED <<upload, access>>

-----------------------------------------------------------------------------
UploadInit ==
    /\ Init
    /\ upload = [j \in Jobs |-> NoUpload]
    /\ access = Jobs
    /\ step = [k \in {} |-> "start"]

HandlerStep(r) ==
    \/ StartUploadedScan(r) \/ HandlerFails(r) \/ NotEligible(r)
    \/ BeginParsing(r) \/ Publish(r) \/ CheckLock(r) \/ FailUpload(r)
    \/ HandlerReturns(r) \/ HandlerThrows(r) \/ HandlerInterrupted(r)

\* Steps of the queue that do not touch uploads or handlers.
QueueStep ==
    \/ \E w \in Workers, j \in Jobs : DeferJob(w, j)
    \/ \E r \in runs : HeartbeatJob(r)
    \/ \E w \in Workers : \/ RecoverStaleJobs(w) \/ Start(w) \/ Stop(w)
                           \/ TickEnds(w) \/ Exit(w)
    \/ \E s \in Sources : UpsertInstallation(s)
    \/ \E p \in Payers : ChangePlan(p)
    \/ \E j \in Jobs : LockGoesStale(j) \/ RunAfterPasses(j)
    \/ NextDay

UploadNext ==
    \/ \E j \in Jobs : \/ QueueUploadedScan(j) \/ RevokeAccess(j)
                       \/ UploadExpires(j) \/ ExpireQueued(j) \/ ExpireRest(j)
    \/ \E s \in Sources : DisconnectSource(s)
    \/ \E w \in Workers, j \in Jobs : ClaimUpload(w, j)
    \/ \E w \in Workers : CrashWorker(w)
    \/ \E r \in runs : HandlerStep(r)
    \/ QueueStep /\ UNCHANGED uploadVars

UploadSpec == UploadInit /\ [][UploadNext]_<<vars, uploadVars>>

-----------------------------------------------------------------------------
(* Properties.  UploadSpec also implements Spec, the queue on its own.      *)

UploadTypeOK ==
    /\ upload \in [Jobs -> Upload]
    /\ access \subseteq Jobs
    /\ step \in [{RunKey(r) : r \in runs} -> Steps]

\* A verdict is final: no late run, expiry sweep, uninstall or retry turns a
\* completed upload into a failed one or revives a failed one.
UploadFinal ==
    [][\A j \in Jobs : upload[j].status \in {"done", "failed"}
                          => upload'[j].status = upload[j].status]_<<vars, uploadVars>>

\* Signed evidence is paid for: a completed upload was not refunded and its job
\* holds a reservation, whichever run published it and whoever failed it before.
PaidEvidence ==
    \A j \in Jobs : upload[j].status = "done"
                        => ~upload[j].refunded /\ job[j].reserved

\* Evidence is published only while the access that was checked before the scan
\* still stands, and by a run of the worker that holds the lock.
PublishedWithAccess ==
    [][\A j \in Jobs : upload[j].status # "done" /\ upload'[j].status = "done"
          => /\ ScanAccess(j)
             /\ \E r \in runs : r.job = j /\ Owns(r) /\ Parsing(r)]_<<vars, uploadVars>>

\* No upload is left behind: when the handler of the run that holds the lease is
\* done and its job is about to be completed, the upload has its verdict, or its
\* time is over and the sweep fails it.
NoUploadLeftBehind ==
    \A r \in runs : Current(r) /\ At(r, "return") =>
        upload[r.job].status \in {"done", "failed"} \/ upload[r.job].expired
=============================================================================
