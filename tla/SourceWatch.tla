------------------------------ MODULE SourceWatch ------------------------------
(***************************************************************************)
(* Watched npm packages and websites (npm-watch.ts, web-watch.ts, the       *)
(* npm_scan and web_origin_scan jobs of worker.ts, package-publication.ts,  *)
(* website-publication.ts, and the watch queries of store.ts): checks read  *)
(* a registry and queue scans while the source is paused, disconnected,     *)
(* connected again or verified.                                            *)
(*                                                                         *)
(* One source, a website or a package, of the public registry or of a       *)
(* private one whose token administrators save and delete as they please.   *)
(* What the job queue does with a job is JobQueue's; here a job may be      *)
(* recovered while its old run goes on.                                     *)
(***************************************************************************)
EXTENDS Naturals

CONSTANTS
    Kinds,        \* kinds of the source: "npm", "web"
    Checkers,     \* the poller and requests that check or connect the source
    Workers,      \* workers' runs
    MaxVersion,   \* bound: versions the registry publishes
    MaxChanges,   \* bound: changes users make to the connection
    MaxJobs,      \* bound: jobs queued
    MaxAttempts   \* bound: claims of one job

ASSUME WatchAssumption ==
    /\ Kinds \subseteq {"npm", "web"}
    /\ MaxVersion \in Nat \ {0} /\ MaxChanges \in Nat /\ MaxJobs \in Nat \ {0}
    /\ MaxAttempts \in Nat \ {0} /\ "nobody" \notin Workers

VARIABLES
    kind,       \* the kind of the source
    source,     \* its row; version is the last one recorded, 0 for none
    epoch,      \* history: how often its connection has changed
    registry,   \* the version the registry calls latest
    check,      \* check[c]: what a checker has read
    jobs,       \* jobs[j]: scans; a free place has status "free"
    run,        \* run[w]: the job a worker handles
    evidence,   \* what was published
    missed      \* history: missed[v]: why the version was left without a scan

vars == <<kind, source, epoch, registry, check, jobs, run, evidence, missed>>
users == <<source, epoch>>
log == <<evidence, missed>>

Jobs == 1..MaxJobs
Versions == 0..MaxVersion
Reasons == {"unqueued", "imported", "disconnected", "tokenless"}

\* cleared: a website that needs no proof of control, or has given it.
Source == [known : BOOLEAN, connected : BOOLEAN, paused : BOOLEAN, cleared : BOOLEAN,
           gen : 0..MaxChanges, version : Versions]
Job == [status : {"free", "queued", "running", "done", "failed"}, version : Versions,
        gen : 0..MaxChanges, epoch : 0..MaxChanges, by : Workers \cup {"nobody"},
        attempts : 0..MaxAttempts]
FreeJob == [status |-> "free", version |-> 0, gen |-> 0, epoch |-> 0, by |-> "nobody",
            attempts |-> 0]
NoCheck == [at |-> "idle", seen |-> 0, pack |-> 0, gen |-> 0, epoch |-> 0]
NoRun == [at |-> "idle", job |-> 1, gen |-> 0]

Live == source.connected /\ ~source.paused /\ source.cleared

-----------------------------------------------------------------------------
(* Users and the registry.                                                  *)

\* Every change advances the connection's generation: by the statement for a
\* package, by the trigger advance_origin_connection_generation for a website.
Change(row) ==
    /\ epoch < MaxChanges
    /\ source' = [row EXCEPT !.gen = source.gen + 1] /\ epoch' = epoch + 1
    /\ UNCHANGED <<kind, registry, check, jobs, run, log>>

\* setSourcePausedForUser
SetPaused(paused) ==
    /\ kind = "npm" /\ source.connected /\ source.paused # paused
    /\ Change([source EXCEPT !.paused = paused])

\* deleteWatchedPackageForUser, deleteWatchedOriginForUser
Disconnect == source.connected /\ Change([source EXCEPT !.connected = FALSE])

\* setOriginVerificationChallenge withdraws the proof given for the last one.
Challenge == kind = "web" /\ source.connected /\ Change([source EXCEPT !.cleared = FALSE])

\* markOriginVerified
MarkVerified == kind = "web" /\ source.connected /\ Change([source EXCEPT !.cleared = TRUE])

Release ==
    /\ kind = "npm" /\ registry < MaxVersion
    /\ registry' = registry + 1
    /\ UNCHANGED <<kind, users, check, jobs, run, log>>

-----------------------------------------------------------------------------
(* Connecting a source and checking it.                                     *)

\* insertWatchedPackage, insertWatchedOrigin: a source that was disconnected is
\* taken up again, still paused; a new website is cleared until it is challenged.
\* A package is taken up by connectWatchedPackage or by importProtectedPackages.
InsertSource(c) ==
    /\ check[c].at = "idle" /\ ~source.connected /\ epoch < MaxChanges
    /\ source' = [source EXCEPT !.known = TRUE, !.connected = TRUE,
                                !.cleared = kind = "npm" \/ ~source.known,
                                !.gen = IF source.known THEN @ + 1 ELSE @]
    /\ epoch' = IF source.known THEN epoch + 1 ELSE epoch
    /\ \E at \in {"inserted", "importing"} :
         check' = [check EXCEPT ![c] = IF kind = "web" THEN @
                     ELSE [NoCheck EXCEPT !.at = at, !.pack = registry]]
    /\ UNCHANGED <<kind, registry, jobs, run, log>>

\* connectWatchedPackage records the version whatever has become of the package.
RecordFirst(c) ==
    /\ check[c].at = "inserted"
    /\ source' = [source EXCEPT !.version = check[c].pack]
    /\ check' = [check EXCEPT ![c].at = "recorded"]
    /\ UNCHANGED <<kind, epoch, registry, jobs, run, log>>

\* importProtectedPackages records it too, and queues no scan.
ImportPackage(c) ==
    /\ check[c].at = "importing"
    /\ source' = [source EXCEPT !.version = check[c].pack]
    /\ missed' = [missed EXCEPT ![check[c].pack] = "imported"]
    /\ check' = [check EXCEPT ![c] = NoCheck]
    /\ UNCHANGED <<kind, epoch, registry, jobs, run, evidence>>

\* The poller lists the packages first and checks one after the other; a manual
\* check reads one row.
ListPackage(c) ==
    /\ kind = "npm" /\ check[c].at = "idle" /\ source.connected
    /\ check' = [check EXCEPT ![c] = [NoCheck EXCEPT !.at = "listed", !.seen = source.version]]
    /\ UNCHANGED <<kind, users, registry, jobs, run, log>>

\* checkWatchedPackage reads the generation and asks the registry,
GetPack(c) ==
    /\ check[c].at = "listed" /\ Live
    /\ check' = [check EXCEPT ![c].at = "fetched", ![c].gen = source.gen, ![c].pack = registry]
    /\ UNCHANGED <<kind, users, registry, jobs, run, log>>

\* and records what it got (touchWatchedPackage) if the connection is the one it
\* began with. Whether a scan is due it decides by the row it had listed.
TouchWatchedPackage(c) ==
    /\ check[c].at = "fetched" /\ Live /\ source.gen = check[c].gen
    /\ source' = [source EXCEPT !.version = check[c].pack]
    /\ check' = [check EXCEPT ![c] = IF check[c].pack = check[c].seen THEN NoCheck
                                     ELSE [NoCheck EXCEPT !.at = "recorded",
                                                          !.pack = check[c].pack]]
    /\ UNCHANGED <<kind, epoch, registry, jobs, run, log>>

\* enqueueNpmScan reads the generation again.
StampPackage(c) ==
    /\ check[c].at = "recorded" /\ Live
    /\ check' = [check EXCEPT ![c].at = "stamped", ![c].gen = source.gen, ![c].epoch = epoch]
    /\ UNCHANGED <<kind, users, registry, jobs, run, log>>

\* runWebOriginPoll and checkWatchedOrigin take the generation of the row.
StampOrigin(c) ==
    /\ kind = "web" /\ check[c].at = "idle" /\ Live
    /\ check' = [check EXCEPT ![c] = [NoCheck EXCEPT !.at = "stamped", !.gen = source.gen,
                                                     !.epoch = epoch]]
    /\ UNCHANGED <<kind, users, registry, jobs, run, log>>

\* Mutant: the delivery id names the connection and not the version.
SameConnection(job, c) == kind = "npm" /\ job.status # "free" /\ job.gen = check[c].gen

\* Mutant: each delivery id is new.
NeverSame(job, c) == FALSE

\* npmScanDeliveryId names version and connection. A website's has a random
\* part or the hour.
SameDelivery(job, c) ==
    /\ kind = "npm" /\ job.status # "free"
    /\ job.version = check[c].pack /\ job.gen = check[c].gen

QueuedJob(c) == [status |-> "queued", version |-> check[c].pack, gen |-> check[c].gen,
                 epoch |-> check[c].epoch, by |-> "nobody", attempts |-> 0]

\* enqueueJob; the scan may be queued already.
EnqueueScan(c) ==
    /\ check[c].at = "stamped"
    /\ \/ \E j \in Jobs :
            /\ ~\E i \in Jobs : SameDelivery(jobs[i], c)
            /\ jobs[j].status = "free" /\ \A i \in 1..(j - 1) : jobs[i].status # "free"
            /\ jobs' = [jobs EXCEPT ![j] = QueuedJob(c)]
       \/ (\E i \in Jobs : SameDelivery(jobs[i], c)) /\ UNCHANGED jobs
    /\ check' = [check EXCEPT ![c] = NoCheck]
    /\ UNCHANGED <<kind, users, registry, run, log>>

\* The check ends early: a query or the registry fails, the source is not what
\* it was, the token is gone, the allowance is used up (fair_use), the process
\* goes away. Nothing queues a version that was recorded again.
EndCheck(c) ==
    /\ check[c].at # "idle"
    /\ missed' = IF check[c].at \in {"recorded", "stamped"}
                 THEN [missed EXCEPT ![check[c].pack] = "unqueued"] ELSE missed
    /\ check' = [check EXCEPT ![c] = NoCheck]
    /\ UNCHANGED <<kind, users, registry, jobs, run, evidence>>

-----------------------------------------------------------------------------
(* Scanning.                                                                *)

ClaimScan(w, j) ==
    /\ run[w].at = "idle" /\ jobs[j].status = "queued"
    /\ jobs' = [jobs EXCEPT ![j].status = "running", ![j].by = w, ![j].attempts = @ + 1]
    /\ run' = [run EXCEPT ![w] = [at |-> "claimed", job |-> j, gen |-> 0]]
    /\ UNCHANGED <<kind, users, registry, check, log>>

\* Mutant: a scan takes whatever connection it finds.
AnyConnection(w) == Live

\* A scan starts only under the generation it was queued for.
QueuedFor(w) == Live /\ source.gen = jobs[run[w].job].gen

StartScan(w) ==
    /\ run[w].at = "claimed" /\ QueuedFor(w)
    /\ run' = [run EXCEPT ![w].at = "scanning", ![w].gen = source.gen]
    /\ UNCHANGED <<kind, users, registry, check, jobs, log>>

\* The condition of publishPackageObservation and publishWebsiteObservation,
\* which lock the row. The reads after the download and after the scan only end
\* a run earlier.
StillConnected(w) == Live /\ source.gen = run[w].gen

\* A scan of a package that is too large and a crawl that fails are published
\* as inconclusive, without a scan.
PublishObservation(w) ==
    /\ run[w].at = "scanning" /\ StillConnected(w)
    /\ evidence' = evidence \cup {[version |-> jobs[run[w].job].version,
                                   queued |-> jobs[run[w].job].epoch, published |-> epoch]}
    /\ run' = [run EXCEPT ![w].at = "published"]
    /\ UNCHANGED <<kind, users, registry, check, jobs, missed>>

\* Only the run that holds the job ends it.
EndJob(w, status) ==
    /\ jobs' = IF jobs[run[w].job].by = w
               THEN [jobs EXCEPT ![run[w].job].status = status, ![run[w].job].by = "nobody"]
               ELSE jobs
    /\ run' = [run EXCEPT ![w] = NoRun]

CompleteScan(w) ==
    /\ run[w].at = "published" /\ EndJob(w, "done")
    /\ UNCHANGED <<kind, users, registry, check, log>>

\* A crawl that found what the last conclusive one found publishes nothing.
UnchangedCrawl(w) ==
    /\ kind = "web" /\ run[w].at = "scanning" /\ StillConnected(w) /\ evidence # {}
    /\ EndJob(w, "done")
    /\ UNCHANGED <<kind, users, registry, check, log>>

\* The token of a private registry has been deleted: the scan is given up, with an
\* alert, and the job is done.
MissingToken(w) ==
    /\ kind = "npm" /\ run[w].at = "claimed" /\ QueuedFor(w)
    /\ EndJob(w, "done")
    /\ missed' = [missed EXCEPT ![jobs[run[w].job].version] = "tokenless"]
    /\ UNCHANGED <<kind, users, registry, check, evidence>>

\* The connection changed: the scan is given up and the job is done.
GiveUp(w) ==
    /\ \/ run[w].at = "claimed" /\ ~QueuedFor(w)
       \/ run[w].at = "scanning" /\ ~StillConnected(w)
    /\ EndJob(w, "done")
    /\ missed' = [missed EXCEPT ![jobs[run[w].job].version] = "disconnected"]
    /\ UNCHANGED <<kind, users, registry, check, evidence>>

\* An error, in the notifications after the publication too, is tried again.
FailScan(w) ==
    /\ run[w].at # "idle"
    /\ EndJob(w, IF jobs[run[w].job].attempts < MaxAttempts THEN "queued" ELSE "failed")
    /\ UNCHANGED <<kind, users, registry, check, log>>

\* The lease runs out. The old run may be over, or go on.
RecoverScan(j) ==
    /\ jobs[j].status = "running" /\ jobs[j].attempts < MaxAttempts
    /\ jobs' = [jobs EXCEPT ![j].status = "queued", ![j].by = "nobody"]
    /\ UNCHANGED <<kind, users, registry, check, run, log>>

CrashWorker(w) ==
    /\ run[w].at # "idle"
    /\ run' = [run EXCEPT ![w] = NoRun]
    /\ UNCHANGED <<kind, users, registry, check, jobs, log>>

-----------------------------------------------------------------------------
Init ==
    /\ kind \in Kinds
    /\ source = [known |-> FALSE, connected |-> FALSE, paused |-> FALSE, cleared |-> TRUE,
                 gen |-> 0, version |-> 0]
    /\ epoch = 0 /\ registry = IF kind = "npm" THEN 1 ELSE 0
    /\ check = [c \in Checkers |-> NoCheck] /\ jobs = [j \in Jobs |-> FreeJob]
    /\ run = [w \in Workers |-> NoRun] /\ evidence = {}
    /\ missed = [v \in Versions |-> "none"]

Next ==
    \/ (\E paused \in BOOLEAN : SetPaused(paused)) \/ Disconnect \/ Challenge \/ MarkVerified
    \/ Release
    \/ \E c \in Checkers :
         \/ InsertSource(c) \/ RecordFirst(c) \/ ImportPackage(c)
         \/ ListPackage(c) \/ GetPack(c)
         \/ TouchWatchedPackage(c) \/ StampPackage(c) \/ StampOrigin(c)
         \/ EnqueueScan(c) \/ EndCheck(c)
    \/ \E w \in Workers :
         \/ (\E j \in Jobs : ClaimScan(w, j)) \/ StartScan(w) \/ PublishObservation(w)
         \/ CompleteScan(w) \/ UnchangedCrawl(w) \/ MissingToken(w) \/ GiveUp(w)
         \/ FailScan(w) \/ CrashWorker(w)
    \/ \E j \in Jobs : RecoverScan(j)

Spec == Init /\ [][Next]_vars

-----------------------------------------------------------------------------
(* Properties.                                                             *)

\* Every variable has its type, and a version is queued once for a connection.
WatchTypeOK ==
    /\ kind \in Kinds /\ source \in Source /\ epoch \in 0..MaxChanges /\ registry \in Versions
    /\ check \in [Checkers -> [at : {"idle", "inserted", "importing", "listed", "fetched",
                                     "recorded", "stamped"},
                               seen : Versions, pack : Versions, gen : 0..MaxChanges,
                               epoch : 0..MaxChanges]]
    /\ jobs \in [Jobs -> Job]
    /\ run \in [Workers -> [at : {"idle", "claimed", "scanning", "published"}, job : Jobs,
                            gen : 0..MaxChanges]]
    /\ evidence \subseteq [version : Versions, queued : 0..MaxChanges,
                           published : 0..MaxChanges]
    /\ missed \in [Versions -> Reasons \cup {"none"}]
    /\ kind = "npm" => \A i, j \in Jobs :
         /\ i # j /\ jobs[i].status # "free" /\ jobs[j].status # "free"
         => jobs[i].version # jobs[j].version \/ jobs[i].gen # jobs[j].gen

\* What is published was queued for the very connection it is published under:
\* the source was not paused, resumed, disconnected, connected again, challenged
\* or verified in between, however long the job waited and however often it was
\* recovered and run again.
PublicationFenced == \A e \in evidence : e.queued = e.published

\* A version that was recorded is forgotten for one of four reasons only: a check
\* ended before it queued the scan, the package was imported, its connection
\* changed before it was scanned, or the scan found no token. Otherwise it was
\* published, its scan is queued, running or failed, or a check is about to queue it.
RecordedAccounted ==
    kind = "npm" /\ source.version # 0 =>
        \/ missed[source.version] \in Reasons
        \/ \E e \in evidence : e.version = source.version
        \/ \E j \in Jobs : /\ jobs[j].version = source.version
                           /\ jobs[j].status \in {"queued", "running", "failed"}
        \/ \E c \in Checkers : /\ check[c].pack = source.version
                               /\ check[c].at \in {"recorded", "stamped"}

\* "Save an encrypted private-registry token on Watch, then check the package
\* again" (the alert of worker.ts:467): a check of a version whose scan found no
\* token, and that no scan has published, goes on to queue it.
SavedTokenScans ==
    [][\A c \in Checkers :
          /\ TouchWatchedPackage(c)
          /\ missed[check[c].pack] = "tokenless"
          /\ ~\E e \in evidence : e.version = check[c].pack
          => check'[c].at = "recorded"]_vars

-----------------------------------------------------------------------------
(* The scans implement JobPromise.  Who pays for them, and how many run at    *)
(* once, is left to JobQueue.                                               *)

Phase(status) ==
    CASE status = "queued" -> "waiting"
      [] status = "running" -> "held"
      [] status \in {"done", "failed"} -> "over"
      [] OTHER -> "absent"

Promise == INSTANCE JobPromise WITH
    None <- "nobody",
    LaneOf <- [j \in Jobs |-> "scan"],
    Room <- [lane \in {"scan"} |-> MaxJobs],
    Paid <- {},
    Payer <- [j \in Jobs |-> "nobody"],
    Allowances <- {},
    phase <- [j \in Jobs |-> Phase(jobs[j].status)],
    holder <- [j \in Jobs |-> jobs[j].by],
    charge <- [j \in Jobs |-> 0],
    today <- 1

\* A scan is in the hands of one worker at a time and once over stays over,
\* however runs are overtaken, given up and recovered.
KeepsPromise == Promise!Spec
=============================================================================
