------------------------ MODULE ProductionParityProofs ------------------------
(* Theorems about ProductionParity, for every set of observations, workers   *)
(* and places for handlers, and any number of attempts and faults.           *)
EXTENDS ProductionParity, FiniteSetTheorems, TLAPS

Row == [status : Finished \cup {"none", "queued", "running", "failed"}, bound : BOOLEAN]
JobRow == [status : {"none", "queued", "running", "done", "failed"},
           by : Workers \cup {None}, attempts : Nat]
Handler == [step : Steps, of : Observations \cup {None}, latest : BOOLEAN]

-----------------------------------------------------------------------------
(* The invariant.                                                           *)

VarsOK ==
    /\ usable \in BOOLEAN /\ manages \in BOOLEAN /\ lost \in BOOLEAN
    /\ obs \in [Observations -> Row] /\ job \in [Observations -> JobRow]
    /\ at \in [Handlers -> Handler] /\ faults \in 0..MaxFaults
    /\ shared \subseteq Observations

\* A row and its job appear together, and a job that runs has a worker.
JobsTrue ==
    \A o \in Observations :
        /\ job[o].status = "none" <=> obs[o].status = "none"
        /\ job[o].status = "running" <=> job[o].by # None

\* A place without a handler is idle.
HandlersTrue == \A h \in Handlers : at[h].of = None <=> at[h] = Idle

\* The handler in place h works on o and its process holds the lease.
Handling(h, o) == at[h].of = o /\ job[o].by = Process[h]

\* A process that holds the lease and has a handler at work has the handler of
\* the latest claim at work.
LatestTrue ==
    \A o \in Observations, h \in Handlers :
        Handling(h, o) => \E g \in Handlers : Handling(g, o) /\ at[g].latest

\* Each attempt beyond the last one is paid for by a fault, also the one that a
\* waiting or abandoned job may still be given.
AttemptsPaid ==
    \A o \in Observations :
        /\ job[o].attempts <= MaxAttempts + faults
        /\ job[o].status = "none" => job[o].attempts = 0
        /\ job[o].status = "running" => job[o].attempts >= 1
        /\ \/ job[o].status = "queued"
           \/ job[o].status = "running" /\ ~\E h \in Handlers : Handling(h, o)
           => job[o].attempts < MaxAttempts + faults

\* Not only the rows under way but all that are pending are one at most: a
\* failed row whose job is tried again comes back under way.
OnePending == \A o, p \in Observations : Pending(o) /\ Pending(p) => o = p

ParityIInv == VarsOK /\ JobsTrue /\ HandlersTrue /\ LatestTrue /\ AttemptsPaid /\ OnePending

LEMMA ParityInit == Init => ParityIInv
  <1> SUFFICES ASSUME Init PROVE ParityIInv
    OBVIOUS
  <1> USE ParityAssumption, NoneAssumption
  <1>1. VarsOK
    <2>1. obs \in [Observations -> Row] /\ job \in [Observations -> JobRow]
      BY DEF Init, Row, JobRow
    <2>2. at \in [Handlers -> Handler]
      BY DEF Init, Handler, Idle, Steps
    <2>3. faults \in 0..MaxFaults
      BY DEF Init
    <2>4. usable \in BOOLEAN /\ manages \in BOOLEAN /\ lost \in BOOLEAN /\ shared = {}
      BY DEF Init
    <2> QED BY <2>1, <2>2, <2>3, <2>4 DEF VarsOK
  <1>2. JobsTrue /\ HandlersTrue /\ LatestTrue /\ AttemptsPaid /\ OnePending
    BY DEF Init, JobsTrue, HandlersTrue, LatestTrue, Handling, AttemptsPaid, OnePending,
           Pending, Idle
  <1> QED BY <1>1, <1>2 DEF ParityIInv

-----------------------------------------------------------------------------
(* Administrators.                                                          *)

\* A step that leaves the statuses, the jobs and the handlers alone.
LEMMA AuthorityStep ==
    ASSUME ParityIInv, ChangeEvidence \/ ChangeAccess
    PROVE  ParityIInv'
  <1>1. /\ usable' \in BOOLEAN /\ manages' \in BOOLEAN
        /\ UNCHANGED <<job, at, faults, lost, shared>>
    BY DEF ParityIInv, VarsOK, ChangeEvidence, ChangeAccess, doubts
  <1>2. /\ obs' \in [Observations -> Row]
        /\ \A o \in Observations : obs'[o].status = obs[o].status
    <2>1. CASE Unbind
      BY <2>1 DEF ParityIInv, VarsOK, Unbind, Row
    <2>2. CASE UNCHANGED obs
      BY <2>2 DEF ParityIInv, VarsOK
    <2> QED BY <2>1, <2>2 DEF ChangeEvidence, ChangeAccess
  <1>3. VarsOK'
    BY <1>1, <1>2 DEF ParityIInv, VarsOK
  <1>4. JobsTrue' /\ HandlersTrue' /\ LatestTrue' /\ AttemptsPaid'
    BY <1>1, <1>2 DEF ParityIInv, JobsTrue, HandlersTrue, LatestTrue, AttemptsPaid, Handling
  <1>5. OnePending'
    BY <1>1, <1>2 DEF ParityIInv, OnePending, Pending
  <1> QED BY <1>3, <1>4, <1>5 DEF ParityIInv

LEMMA QueueStep ==
    ASSUME ParityIInv, NEW o \in Observations, Queue(o)
    PROVE  ParityIInv'
  <1> USE ParityAssumption, NoneAssumption
  <1>1. /\ obs' = [obs EXCEPT ![o] = [status |-> "queued", bound |-> TRUE]]
        /\ job' = [job EXCEPT ![o].status = "queued"]
        /\ UNCHANGED <<usable, manages, at, faults, lost, shared>>
        /\ obs[o].status = "none" /\ \A p \in Observations : ~Pending(p)
    BY DEF Queue, authority, doubts
  <1>2. VarsOK'
    BY <1>1 DEF ParityIInv, VarsOK, Row, JobRow
  <1>3. /\ \A p \in Observations : /\ job'[p].by = job[p].by
                                   /\ job'[p].attempts = job[p].attempts
                                   /\ p # o => job'[p] = job[p] /\ obs'[p] = obs[p]
        /\ job'[o].status = "queued" /\ obs'[o].status = "queued"
    BY <1>1 DEF ParityIInv, VarsOK, Row, JobRow
  <1>4. JobsTrue' /\ HandlersTrue' /\ LatestTrue'
    BY <1>1, <1>3 DEF ParityIInv, JobsTrue, HandlersTrue, LatestTrue, Handling
  <1>5. AttemptsPaid'
    <2>1. job[o].attempts = 0 /\ faults \in Nat
      BY <1>1 DEF ParityIInv, VarsOK, JobsTrue, AttemptsPaid
    <2> QED BY <1>1, <1>3, <2>1 DEF ParityIInv, AttemptsPaid, Handling
  <1>6. OnePending'
    BY <1>1, <1>3 DEF ParityIInv, OnePending, Pending
  <1> QED BY <1>2, <1>4, <1>5, <1>6 DEF ParityIInv

LEMMA CancelStep ==
    ASSUME ParityIInv, NEW o \in Observations, Cancel(o)
    PROVE  ParityIInv'
  <1> USE ParityAssumption, NoneAssumption
  <1>1. /\ obs' = [obs EXCEPT ![o].status = "cancelled"]
        /\ UNCHANGED <<usable, manages, at, faults, lost, shared>>
        /\ obs[o].status # "none"
    BY DEF Cancel, authority, doubts
  <1>2. \/ job' = job
        \/ job[o].status = "queued" /\ job' = [job EXCEPT ![o].status = "done"]
    BY DEF Cancel
  <1>3. VarsOK'
    <2>1. obs' \in [Observations -> Row]
      BY <1>1 DEF ParityIInv, VarsOK, Row, Finished
    <2>2. job' \in [Observations -> JobRow]
      BY <1>2 DEF ParityIInv, VarsOK, JobRow
    <2> QED BY <1>1, <2>1, <2>2 DEF ParityIInv, VarsOK
  <1>4. /\ \A p \in Observations : /\ job'[p].by = job[p].by
                                   /\ job'[p].attempts = job[p].attempts
                                   /\ \/ job'[p].status = job[p].status
                                      \/ job[p].status = "queued" /\ job'[p].status = "done"
                                   /\ p # o => obs'[p] = obs[p]
        /\ obs'[o].status = "cancelled"
    BY <1>1, <1>2 DEF ParityIInv, VarsOK, Row, JobRow
  <1>5. JobsTrue' /\ HandlersTrue' /\ LatestTrue'
    BY <1>1, <1>4 DEF ParityIInv, JobsTrue, HandlersTrue, LatestTrue, Handling
  <1>6. AttemptsPaid'
    BY <1>1, <1>4 DEF ParityIInv, VarsOK, JobsTrue, AttemptsPaid, Handling
  <1>7. OnePending'
    BY <1>1, <1>4 DEF ParityIInv, OnePending, Pending
  <1> QED BY <1>3, <1>5, <1>6, <1>7 DEF ParityIInv

-----------------------------------------------------------------------------
(* The handler.                                                             *)

LEMMA ClaimStep ==
    ASSUME ParityIInv, NEW h \in Handlers, NEW o \in Observations, Claim(h, o)
    PROVE  ParityIInv'
  <1> USE ParityAssumption, NoneAssumption
  <1>1. /\ job' = [job EXCEPT ![o] = [status |-> "running", by |-> Process[h],
                                     attempts |-> @.attempts + 1]]
        /\ at' = [g \in Handlers |->
                    IF g = h THEN [step |-> "claimed", of |-> o, latest |-> TRUE]
                    ELSE [at[g] EXCEPT !.latest = @ /\ at[g].of # o]]
        /\ shared' \in {shared, shared \cup {o}}
        /\ UNCHANGED <<usable, manages, obs, faults, lost>>
        /\ at[h] = Idle /\ job[o].status = "queued" /\ Process[h] \in Workers
    BY DEF Claim, authority
  <1>2. at' \in [Handlers -> Handler]
    <2>1. [step |-> "claimed", of |-> o, latest |-> TRUE] \in Handler
      BY DEF Handler, Steps
    <2>2. ASSUME NEW g \in Handlers
          PROVE  [at[g] EXCEPT !.latest = @ /\ at[g].of # o] \in Handler
      BY DEF ParityIInv, VarsOK, Handler
    <2> QED BY <1>1, <2>1, <2>2
  <1>3. VarsOK'
    <2>1. job' \in [Observations -> JobRow]
      BY <1>1 DEF ParityIInv, VarsOK, JobRow
    <2> QED BY <1>1, <1>2, <2>1 DEF ParityIInv, VarsOK
  <1>4. /\ \A p \in Observations : p # o => job'[p] = job[p]
        /\ job'[o].status = "running" /\ job'[o].by = Process[h]
        /\ job'[o].attempts = job[o].attempts + 1 /\ job[o].attempts \in Nat
    BY <1>1 DEF ParityIInv, VarsOK, JobRow
  <1>5. /\ \A g \in Handlers : g # h => /\ at'[g].of = at[g].of /\ at'[g].step = at[g].step
                                        /\ at[g].of # o => at'[g] = at[g]
        /\ at'[h].of = o /\ at'[h].latest /\ at'[h].step = "claimed"
    BY <1>1 DEF ParityIInv, VarsOK, Handler
  <1>6. JobsTrue'
    BY <1>1, <1>4 DEF ParityIInv, JobsTrue
  <1>7. HandlersTrue'
    <2> SUFFICES ASSUME NEW g \in Handlers
                 PROVE  at'[g].of = None <=> at'[g] = Idle
      BY DEF HandlersTrue
    <2>1. CASE at'[g].of = o
      BY <2>1 DEF Idle
    <2>2. CASE at'[g].of # o
      BY <1>5, <2>2 DEF ParityIInv, HandlersTrue
    <2> QED BY <2>1, <2>2
  <1>8. LatestTrue'
    <2> SUFFICES ASSUME NEW p \in Observations, NEW g \in Handlers, Handling(g, p)'
                 PROVE  \E k \in Handlers : Handling(k, p)' /\ at'[k].latest
      BY DEF LatestTrue
    <2>1. CASE p = o
      BY <1>4, <1>5, <2>1 DEF Handling
    <2>2. CASE p # o
      <3>1. Handling(g, p)
        BY <1>4, <1>5, <2>2 DEF Handling
      <3>2. PICK k \in Handlers : Handling(k, p) /\ at[k].latest
        BY <3>1 DEF ParityIInv, LatestTrue
      <3>3. k # h
        BY <1>1, <3>2 DEF Handling, Idle
      <3> QED BY <1>4, <1>5, <2>2, <3>2, <3>3 DEF Handling
    <2> QED BY <2>1, <2>2
  <1>9. AttemptsPaid'
    BY <1>1, <1>4, <1>5 DEF ParityIInv, VarsOK, JobsTrue, AttemptsPaid, Handling, Idle
  <1>10. OnePending'
    BY <1>1, <1>4 DEF ParityIInv, OnePending, Pending
  <1> QED BY <1>3, <1>6, <1>7, <1>8, <1>9, <1>10 DEF ParityIInv

\* A step of a handler writes its own row at most, while its process holds the
\* lease, and leaves the jobs alone.
LEMMA HandlerStep ==
    ASSUME ParityIInv, NEW h \in Handlers, at[h].of # None,
           NEW s \in Steps \ {"idle"}, at' = [at EXCEPT ![h].step = s],
           obs' \in [Observations -> Row], faults' \in faults..MaxFaults, lost' \in BOOLEAN,
           \A p \in Observations :
               \/ obs'[p] = obs[p]
               \/ job[p].status = "running" /\ Pending(p) /\ obs'[p].status # "none",
           UNCHANGED <<usable, manages, job, shared>>
    PROVE  ParityIInv'
  <1> USE ParityAssumption, NoneAssumption
  <1>1. VarsOK'
    BY DEF ParityIInv, VarsOK, Handler
  <1>2. \A g \in Handlers : /\ at'[g].of = at[g].of /\ at'[g].latest = at[g].latest
                            /\ at'[g] = Idle <=> at[g] = Idle
    BY DEF ParityIInv, VarsOK, Handler, HandlersTrue, Idle
  <1>3. JobsTrue' /\ HandlersTrue' /\ LatestTrue'
    BY <1>2 DEF ParityIInv, JobsTrue, HandlersTrue, LatestTrue, Handling, Pending
  <1>4. AttemptsPaid'
    BY <1>2 DEF ParityIInv, VarsOK, JobRow, AttemptsPaid, Handling
  <1>5. OnePending'
    BY DEF ParityIInv, OnePending, Pending
  <1> QED BY <1>1, <1>3, <1>4, <1>5 DEF ParityIInv

LEMMA PrepareStep ==
    ASSUME ParityIInv, NEW h \in Handlers, Prepare(h)
    PROVE  ParityIInv'
  <1> DEFINE o == at[h].of
  <1>1. at[h].step = "claimed" /\ UNCHANGED <<usable, manages, job, faults, lost, shared>>
    BY DEF Prepare, authority, doubts
  <1>2. o \in Observations
    BY <1>1 DEF ParityIInv, VarsOK, Handler, HandlersTrue, Idle
  <1>3. PICK s \in Steps \ {"idle"} : at' = [at EXCEPT ![h].step = s]
    BY DEF Prepare, GoTo, Steps
  <1>4. \/ obs' = obs
        \/ /\ obs' = [obs EXCEPT ![o].status = "running"]
           /\ obs[o].status \notin Finished /\ Owns(h, o)
    BY DEF Prepare
  <1>5. /\ obs' \in [Observations -> Row]
        /\ \A p \in Observations :
             \/ obs'[p] = obs[p]
             \/ job[p].status = "running" /\ Pending(p) /\ obs'[p].status # "none"
    <2>1. CASE obs' = obs
      BY <2>1 DEF ParityIInv, VarsOK
    <2>2. CASE /\ obs' = [obs EXCEPT ![o].status = "running"]
               /\ obs[o].status \notin Finished /\ Owns(h, o)
      <3>1. Pending(o) /\ job[o].status = "running"
        BY <1>2, <2>2 DEF Owns, Pending, ParityIInv, VarsOK, Row, JobsTrue
      <3> QED BY <1>2, <2>2, <3>1 DEF ParityIInv, VarsOK, Row
    <2> QED BY <1>4, <2>1, <2>2
  <1>6. at[h].of # None
    BY <1>2, NoneAssumption
  <1>7. faults' \in faults..MaxFaults /\ lost' \in BOOLEAN
    BY <1>1 DEF ParityIInv, VarsOK
  <1> QED BY <1>1, <1>3, <1>5, <1>6, <1>7, HandlerStep

LEMMA CompleteStep ==
    ASSUME ParityIInv, NEW h \in Handlers, Complete(h)
    PROVE  ParityIInv'
  <1> DEFINE o == at[h].of
  <1>1. at[h].step = "prepared" /\ UNCHANGED <<usable, manages, job, faults, lost, shared>>
    BY DEF Complete, authority, doubts
  <1>2. o \in Observations
    BY <1>1 DEF ParityIInv, VarsOK, Handler, HandlersTrue, Idle
  <1>3. PICK s \in Steps \ {"idle"} : at' = [at EXCEPT ![h].step = s]
    BY DEF Complete, GoTo, Steps
  <1>4. \/ obs' = obs
        \/ /\ obs' = [obs EXCEPT ![o].status = "completed"]
           /\ obs[o].status = "running" /\ Owns(h, o)
    BY DEF Complete
  <1>5. /\ obs' \in [Observations -> Row]
        /\ \A p \in Observations :
             \/ obs'[p] = obs[p]
             \/ job[p].status = "running" /\ Pending(p) /\ obs'[p].status # "none"
    BY <1>2, <1>4 DEF ParityIInv, VarsOK, Row, Finished, Owns, Pending
  <1>6. at[h].of # None
    BY <1>2, NoneAssumption
  <1>7. faults' \in faults..MaxFaults /\ lost' \in BOOLEAN
    BY <1>1 DEF ParityIInv, VarsOK
  <1> QED BY <1>1, <1>3, <1>5, <1>6, <1>7, HandlerStep

LEMMA CatchStep ==
    ASSUME ParityIInv, NEW h \in Handlers, Catch(h)
    PROVE  ParityIInv'
  <1> DEFINE o == at[h].of
  <1>1. at[h].step \in {"stop", "fail"} /\ UNCHANGED <<usable, manages, job, faults, lost, shared>>
    BY DEF Catch, authority, doubts
  <1>2. o \in Observations
    BY <1>1 DEF ParityIInv, VarsOK, Handler, HandlersTrue, Idle
  <1>3. PICK s \in Steps \ {"idle"} : at' = [at EXCEPT ![h].step = s]
    <2>1. CASE at[h].step = "stop"
      BY <2>1 DEF Catch, GoTo, Steps
    <2>2. CASE at[h].step = "fail"
      BY <2>2 DEF Catch, GoTo, Steps
    <2> QED BY <1>1, <2>1, <2>2
  <1>4. \/ obs' = obs
        \/ \E status \in {"stopped", "failed"} :
             /\ obs' = [obs EXCEPT ![o].status = status]
             /\ obs[o].status \notin Finished /\ Owns(h, o)
    BY DEF Catch, Recorded
  <1>5. /\ obs' \in [Observations -> Row]
        /\ \A p \in Observations :
             \/ obs'[p] = obs[p]
             \/ job[p].status = "running" /\ Pending(p) /\ obs'[p].status # "none"
    <2>1. CASE obs' = obs
      BY <2>1 DEF ParityIInv, VarsOK
    <2>2. ASSUME NEW status \in {"stopped", "failed"},
                 obs' = [obs EXCEPT ![o].status = status],
                 obs[o].status \notin Finished, Owns(h, o)
          PROVE  /\ obs' \in [Observations -> Row]
                 /\ \A p \in Observations :
                      \/ obs'[p] = obs[p]
                      \/ job[p].status = "running" /\ Pending(p) /\ obs'[p].status # "none"
      <3>1. Pending(o) /\ job[o].status = "running"
        BY <1>2, <2>2 DEF Owns, Pending, ParityIInv, VarsOK, Row, JobsTrue
      <3> QED BY <1>2, <2>2, <3>1 DEF ParityIInv, VarsOK, Row, Finished
    <2> QED BY <1>4, <2>1, <2>2
  <1>6. at[h].of # None
    BY <1>2, NoneAssumption
  <1>7. faults' \in faults..MaxFaults /\ lost' \in BOOLEAN
    BY <1>1 DEF ParityIInv, VarsOK
  <1> QED BY <1>1, <1>3, <1>5, <1>6, <1>7, HandlerStep

\* A transaction of the handler fails.
LEMMA FaultStep ==
    ASSUME ParityIInv, NEW h \in Handlers, DatabaseFails(h) \/ CatchFails(h)
    PROVE  ParityIInv'
  <1>1. /\ at[h].step # "idle" /\ UNCHANGED <<usable, manages, obs, job, shared>>
        /\ faults < MaxFaults /\ faults' = faults + 1
        /\ lost' = lost \/ lost' = TRUE
    BY DEF DatabaseFails, CatchFails, authority, doubts
  <1>2. PICK s \in Steps \ {"idle"} : at' = [at EXCEPT ![h].step = s]
    BY DEF DatabaseFails, CatchFails, GoTo, Steps
  <1>3. at[h].of # None
    BY <1>1 DEF ParityIInv, HandlersTrue, Idle
  <1>4. obs' \in [Observations -> Row] /\ lost' \in BOOLEAN
    BY <1>1 DEF ParityIInv, VarsOK
  <1>5. faults' \in faults..MaxFaults
    BY <1>1, ParityAssumption DEF ParityIInv, VarsOK
  <1> QED BY <1>1, <1>2, <1>3, <1>4, <1>5, HandlerStep

\* The handler in place h is over; its job, if the process still holds it, is
\* ended or put back.
LEMMA FinishStep ==
    ASSUME ParityIInv, NEW h \in Handlers, Finish(h)
    PROVE  ParityIInv'
  <1> USE ParityAssumption, NoneAssumption
  <1> DEFINE o == at[h].of
  <1>1. /\ at' = [at EXCEPT ![h] = Idle] /\ at[h] # Idle
        /\ UNCHANGED <<usable, manages, obs, faults, lost, shared>>
    BY DEF Finish, authority, doubts, Idle
  <1>2. o \in Observations
    BY <1>1 DEF ParityIInv, VarsOK, Handler, HandlersTrue
  <1>3. /\ job \in [Observations -> JobRow] /\ faults \in Nat
        /\ at'[h] = Idle /\ \A g \in Handlers : g # h => at'[g] = at[g]
    BY <1>1 DEF ParityIInv, VarsOK
  <1>4. /\ job' \in [Observations -> JobRow]
        /\ \A p \in Observations :
             \/ job'[p] = job[p] /\ (p = o => ~Owns(h, o))
             \/ /\ p = o /\ Owns(h, o)
                /\ job'[p].status \in {"done", "failed", "queued"} /\ job'[p].by = None
                /\ job'[p].attempts = job[p].attempts
                /\ job'[p].status = "queued" => job'[p].attempts < MaxAttempts
    <2>1. CASE ~Owns(h, o)
      BY <1>3, <2>1 DEF Finish
    <2>2. CASE Owns(h, o)
      <3>1. PICK status \in {"done", "failed", "queued"} :
              /\ job' = [job EXCEPT ![o].by = None, ![o].status = status]
              /\ status = "queued" => ~(job[o].attempts >= MaxAttempts)
        BY <2>2 DEF Finish
      <3>2. /\ job' \in [Observations -> JobRow]
            /\ \A p \in Observations : p # o => job'[p] = job[p]
            /\ job'[o].status = status /\ job'[o].by = None
            /\ job'[o].attempts = job[o].attempts /\ job[o].attempts \in Nat
        BY <1>2, <1>3, <3>1 DEF JobRow
      <3> QED BY <1>2, <2>2, <3>1, <3>2
    <2> QED BY <2>1, <2>2
  <1>5. VarsOK'
    <2>1. at' \in [Handlers -> Handler]
      BY <1>1 DEF ParityIInv, VarsOK, Handler, Idle, Steps
    <2> QED BY <1>1, <1>4, <2>1 DEF ParityIInv, VarsOK
  <1>6. JobsTrue'
    BY <1>1, <1>4 DEF ParityIInv, JobsTrue, Owns
  <1>7. HandlersTrue'
    <2>1. Idle.of = None
      BY DEF Idle
    <2>2. ASSUME NEW g \in Handlers PROVE at'[g].of = None <=> at'[g] = Idle
      BY <1>3, <2>1 DEF ParityIInv, HandlersTrue
    <2> QED BY <2>2 DEF HandlersTrue
  <1>8. \A p \in Observations : job'[p] = job[p] /\ (p = o => ~Owns(h, o)) =>
            \A g \in Handlers : Handling(g, p) => Handling(g, p)' /\ at'[g] = at[g]
    <2> SUFFICES ASSUME NEW p \in Observations, job'[p] = job[p], p = o => ~Owns(h, o),
                        NEW g \in Handlers, Handling(g, p)
                 PROVE  Handling(g, p)' /\ at'[g] = at[g]
      OBVIOUS
    <2>1. job[p].by # None
      BY DEF Handling
    <2>2. g # h
      BY <2>1 DEF Handling, Owns, ParityIInv, JobsTrue
    <2> QED BY <1>3, <2>2 DEF Handling
  <1>9. \A p \in Observations, g \in Handlers : Handling(g, p)' => Handling(g, p)
    <2> SUFFICES ASSUME NEW p \in Observations, NEW g \in Handlers, Handling(g, p)'
                 PROVE  Handling(g, p)
      OBVIOUS
    <2>1. at'[g].of = p /\ job'[p].by = Process[g] /\ Process[g] # None
      BY DEF Handling
    <2>2. g # h
      BY <1>3, <2>1 DEF Idle
    <2> QED BY <1>3, <1>4, <2>1, <2>2 DEF Handling
  <1>10. LatestTrue'
    <2> SUFFICES ASSUME NEW p \in Observations, NEW g \in Handlers, Handling(g, p)'
                 PROVE  \E k \in Handlers : Handling(k, p)' /\ at'[k].latest
      BY DEF LatestTrue
    <2>1. PICK k \in Handlers : Handling(k, p) /\ at[k].latest
      BY <1>9 DEF ParityIInv, LatestTrue
    <2>2. job'[p].by # None
      BY DEF Handling
    <2> QED BY <1>4, <1>8, <2>1, <2>2
  <1>11. AttemptsPaid'
    <2> SUFFICES ASSUME NEW p \in Observations
                 PROVE  /\ job'[p].attempts <= MaxAttempts + faults'
                        /\ job'[p].status = "none" => job'[p].attempts = 0
                        /\ job'[p].status = "running" => job'[p].attempts >= 1
                        /\ \/ job'[p].status = "queued"
                           \/ job'[p].status = "running" /\ ~\E g \in Handlers : Handling(g, p)'
                           => job'[p].attempts < MaxAttempts + faults'
      BY DEF AttemptsPaid
    <2>1. /\ job[p].attempts \in Nat /\ job'[p].attempts \in Nat
          /\ job[p].attempts <= MaxAttempts + faults
      BY <1>4 DEF ParityIInv, VarsOK, JobRow, AttemptsPaid
    <2>2. CASE job'[p] = job[p] /\ (p = o => ~Owns(h, o))
      BY <1>1, <1>8, <2>2 DEF ParityIInv, AttemptsPaid
    <2>3. CASE /\ job'[p].status \in {"done", "failed", "queued"}
               /\ job'[p].attempts = job[p].attempts
               /\ job'[p].status = "queued" => job'[p].attempts < MaxAttempts
      BY <1>1, <1>3, <2>1, <2>3
    <2> QED BY <1>4, <2>2, <2>3
  <1>12. OnePending'
    BY <1>1, <1>4 DEF ParityIInv, VarsOK, JobRow, OnePending, Pending, Owns
  <1> QED BY <1>5, <1>6, <1>7, <1>10, <1>11, <1>12 DEF ParityIInv

\* A process goes down: its handlers are gone together, the jobs stay.
LEMMA CrashStep ==
    ASSUME ParityIInv, NEW w \in Workers, Crash(w)
    PROVE  ParityIInv'
  <1> USE ParityAssumption, NoneAssumption
  <1>1. /\ at' = [h \in Handlers |-> IF Process[h] = w THEN Idle ELSE at[h]]
        /\ faults < MaxFaults /\ faults' = faults + 1
        /\ UNCHANGED <<usable, manages, obs, job, lost, shared>>
    BY DEF Crash, authority, doubts
  <1>2. faults \in Nat /\ faults' \in 0..MaxFaults
    BY <1>1 DEF ParityIInv, VarsOK
  <1>3. VarsOK'
    BY <1>1, <1>2 DEF ParityIInv, VarsOK, Handler, Idle, Steps
  <1>4. JobsTrue' /\ HandlersTrue' /\ OnePending'
    BY <1>1 DEF ParityIInv, JobsTrue, HandlersTrue, OnePending, Pending, Idle
  <1>5. LatestTrue'
    <2> SUFFICES ASSUME NEW p \in Observations, NEW g \in Handlers, Handling(g, p)'
                 PROVE  \E k \in Handlers : Handling(k, p)' /\ at'[k].latest
      BY DEF LatestTrue
    <2>1. Process[g] # w /\ Handling(g, p)
      BY <1>1 DEF Handling, Idle
    <2>2. PICK k \in Handlers : Handling(k, p) /\ at[k].latest
      BY <2>1 DEF ParityIInv, LatestTrue
    <2>3. Process[k] = Process[g]
      BY <2>1, <2>2 DEF Handling
    <2> QED BY <1>1, <2>1, <2>2, <2>3 DEF Handling
  <1>6. AttemptsPaid'
    BY <1>1, <1>2 DEF ParityIInv, VarsOK, JobRow, AttemptsPaid
  <1> QED BY <1>3, <1>4, <1>5, <1>6 DEF ParityIInv

\* A job whose worker is gone, or does not answer, is put back.
LEMMA RequeueStep ==
    ASSUME ParityIInv, NEW o \in Observations, Requeue(o), job[o].status = "running",
           faults' \in faults..MaxFaults,
           faults' = faults + 1 \/ ~\E h \in Handlers : Handling(h, o),
           UNCHANGED <<usable, manages, obs, at, lost, shared>>
    PROVE  ParityIInv'
  <1> USE ParityAssumption, NoneAssumption
  <1>1. /\ job' \in [Observations -> JobRow]
        /\ \A p \in Observations : p # o => job'[p] = job[p]
        /\ job'[o].status = "queued" /\ job'[o].by = None
        /\ job'[o].attempts = job[o].attempts
    BY DEF Requeue, ParityIInv, VarsOK, JobRow
  <1>2. VarsOK'
    BY <1>1 DEF ParityIInv, VarsOK
  <1>3. JobsTrue' /\ HandlersTrue'
    BY <1>1 DEF ParityIInv, JobsTrue, HandlersTrue
  <1>3a. LatestTrue'
    <2> SUFFICES ASSUME NEW p \in Observations, NEW g \in Handlers, Handling(g, p)'
                 PROVE  \E k \in Handlers : Handling(k, p)' /\ at'[k].latest
      BY DEF LatestTrue
    <2>1. p # o
      BY <1>1 DEF Handling
    <2> QED BY <1>1, <2>1 DEF ParityIInv, LatestTrue, Handling
  <1>4. AttemptsPaid'
    <2>1. /\ job[o].attempts <= MaxAttempts + faults
          /\ faults' # faults + 1 => job[o].attempts < MaxAttempts + faults
          /\ job[o].attempts \in Nat /\ faults \in Nat
      BY DEF ParityIInv, VarsOK, JobRow, AttemptsPaid
    <2>2. job'[o].attempts < MaxAttempts + faults'
      BY <1>1, <2>1
    <2>3. ASSUME NEW p \in Observations, p # o
          PROVE  /\ job[p].attempts \in Nat /\ job'[p] = job[p]
                 /\ \A h \in Handlers : Handling(h, p)' <=> Handling(h, p)
      BY <1>1, <2>3 DEF ParityIInv, VarsOK, JobRow, Handling
    <2> QED BY <1>1, <2>1, <2>2, <2>3 DEF ParityIInv, AttemptsPaid
  <1>5. OnePending'
    BY <1>1 DEF ParityIInv, OnePending, Pending
  <1> QED BY <1>2, <1>3, <1>3a, <1>4, <1>5 DEF ParityIInv

LEMMA RecoverStep ==
    ASSUME ParityIInv, NEW o \in Observations, Recover(o) \/ Stall(o)
    PROVE  ParityIInv'
  <1>1. CASE Recover(o)
    <2>1. ~\E h \in Handlers : Handling(h, o)
      BY <1>1 DEF Recover, Handling, Owns
    <2>2. faults' \in faults..MaxFaults
      BY <1>1 DEF Recover, ParityIInv, VarsOK
    <2> QED BY <1>1, <2>1, <2>2, RequeueStep DEF Recover, authority, doubts
  <1>2. CASE Stall(o)
    <2>1. faults' \in faults..MaxFaults /\ faults' = faults + 1
      BY <1>2, ParityAssumption DEF Stall, ParityIInv, VarsOK
    <2> QED BY <1>2, <2>1, RequeueStep DEF Stall, authority, doubts, Owns
  <1> QED BY <1>1, <1>2

LEMMA ParityStep == ParityIInv /\ [Next]_vars => ParityIInv'
  <1> SUFFICES ASSUME ParityIInv, [Next]_vars PROVE ParityIInv'
    OBVIOUS
  <1>1. CASE UNCHANGED vars
    BY <1>1 DEF vars, ParityIInv, VarsOK, JobsTrue, HandlersTrue, LatestTrue, AttemptsPaid,
                Handling, OnePending, Pending
  <1>2. CASE ChangeEvidence \/ ChangeAccess
    BY <1>2, AuthorityStep
  <1>3. ASSUME NEW o \in Observations, Queue(o) PROVE ParityIInv'
    BY <1>3, QueueStep
  <1>4. ASSUME NEW o \in Observations, Cancel(o) PROVE ParityIInv'
    BY <1>4, CancelStep
  <1>5. ASSUME NEW o \in Observations, Recover(o) \/ Stall(o) PROVE ParityIInv'
    BY <1>5, RecoverStep
  <1>6. ASSUME NEW o \in Observations, NEW h \in Handlers, Claim(h, o) PROVE ParityIInv'
    BY <1>6, ClaimStep
  <1>7. ASSUME NEW h \in Handlers, Prepare(h) PROVE ParityIInv'
    BY <1>7, PrepareStep
  <1>8. ASSUME NEW h \in Handlers, Complete(h) PROVE ParityIInv'
    BY <1>8, CompleteStep
  <1>9. ASSUME NEW h \in Handlers, Catch(h) PROVE ParityIInv'
    BY <1>9, CatchStep
  <1>10. ASSUME NEW h \in Handlers, DatabaseFails(h) \/ CatchFails(h) PROVE ParityIInv'
    BY <1>10, FaultStep
  <1>11. ASSUME NEW h \in Handlers, Finish(h) PROVE ParityIInv'
    BY <1>11, FinishStep
  <1>12. ASSUME NEW w \in Workers, Crash(w) PROVE ParityIInv'
    BY <1>12, CrashStep
  <1> QED BY <1>1, <1>2, <1>3, <1>4, <1>5, <1>6, <1>7, <1>8, <1>9, <1>10, <1>11, <1>12
         DEF Next, Handle

THEOREM ParityInvariant == Spec => []ParityIInv
  BY ParityInit, ParityStep, PTL DEF Spec

-----------------------------------------------------------------------------
(* The properties of the run ParityRaces.                                   *)

\* The rows and the handlers have the values their tables and steps allow; a
\* job is tried once more at most for each fault.
THEOREM ParityTypesCorrect == Spec => []ParityTypeOK
  <1>1. ParityIInv => ParityTypeOK
    <2> SUFFICES ASSUME ParityIInv PROVE ParityTypeOK
      OBVIOUS
    <2>1. ASSUME NEW o \in Observations
          PROVE  /\ obs[o].status \in Finished \cup {"none", "queued", "running", "failed"}
                 /\ job[o].status \in {"none", "queued", "running", "done", "failed"}
                 /\ job[o].by \in Workers \cup {None}
                 /\ (job[o].status = "running") <=> (job[o].by # None)
                 /\ job[o].attempts \in Nat
      BY DEF ParityIInv, VarsOK, JobsTrue, Row, JobRow
    <2>2. ASSUME NEW o \in Observations
          PROVE  job[o].attempts \in 0..(MaxAttempts + MaxFaults)
      BY <2>1, ParityAssumption DEF ParityIInv, VarsOK, AttemptsPaid
    <2>3. ASSUME NEW h \in Handlers
          PROVE  at[h].step \in Steps /\ (at[h].of = None <=> at[h] = Idle)
      BY DEF ParityIInv, VarsOK, HandlersTrue, Handler
    <2>4. shared \subseteq Observations
      BY DEF ParityIInv, VarsOK
    <2> QED BY <2>1, <2>2, <2>3, <2>4 DEF ParityTypeOK
  <1> QED BY <1>1, ParityInvariant, PTL

\* A workspace has one observation at a time under way, through failures,
\* retries, recoveries and cancellations.
THEOREM OneAtATime == Spec => []OneUnderWay
  <1>1. ParityIInv => OneUnderWay
    <2> SUFFICES ASSUME ParityIInv PROVE OneUnderWay
      OBVIOUS
    <2> DEFINE Under == {o \in Observations : obs[o].status \in {"queued", "running"}}
    <2>1. \A o, p \in Under : o = p
      BY DEF ParityIInv, OnePending, Pending
    <2>2. CASE Under = {}
      BY <2>2, FS_EmptySet DEF OneUnderWay
    <2>3. ASSUME NEW o \in Under PROVE OneUnderWay
      <3>1. Under = {o}
        BY <2>1, <2>3
      <3>2. Cardinality(Under) = 1
        BY <3>1, FS_Singleton
      <3> QED BY <3>2 DEF OneUnderWay
    <2> QED BY <2>2, <2>3
  <1> QED BY <1>1, ParityInvariant, PTL

\* A result is published over a row that is under way, under authority that is
\* current, and never by a process that lost the job: by the handler of the
\* latest claim, or by an earlier one in the process that claimed the job again.
THEOREM PublishedOnlyUnderAuthority == Spec => PublishedUnderAuthority
  <1> DEFINE Published ==
        \A o \in Observations :
          obs[o].status # "completed" /\ obs'[o].status = "completed" =>
            /\ obs[o].status = "running" /\ manages /\ usable /\ obs[o].bound
            /\ \E h, g \in Handlers :
                 /\ at[h].of = o /\ at[h].step = "prepared" /\ at'[h].step = "ok"
                 /\ at[g].of = o /\ at[g].latest /\ Process[g] = Process[h]
  <1>1. ParityIInv /\ [Next]_vars => [Published]_vars
    <2> SUFFICES ASSUME ParityIInv, Next,
                        NEW o \in Observations,
                        obs[o].status # "completed", obs'[o].status = "completed"
                 PROVE  /\ obs[o].status = "running" /\ manages /\ usable /\ obs[o].bound
                        /\ \E h, g \in Handlers :
                             /\ at[h].of = o /\ at[h].step = "prepared" /\ at'[h].step = "ok"
                             /\ at[g].of = o /\ at[g].latest /\ Process[g] = Process[h]
      OBVIOUS
    <2>1. obs \in [Observations -> Row] /\ obs' # obs
      BY DEF ParityIInv, VarsOK
    <2>2. ~ChangeEvidence /\ ~ChangeAccess
      BY <2>1 DEF ChangeEvidence, ChangeAccess, Unbind, Row
    <2>3. ASSUME NEW p \in Observations
          PROVE  /\ ~Queue(p) /\ ~Cancel(p) /\ ~Recover(p) /\ ~Stall(p)
                 /\ \A h \in Handlers : ~Claim(h, p)
      <3>1. Queue(p) \/ Cancel(p) => \E s \in {"queued", "cancelled"} :
              \A q \in Observations : obs'[q].status \in {obs[q].status, s}
        BY <2>1 DEF Queue, Cancel, Row
      <3>2. Recover(p) \/ Stall(p) \/ (\E h \in Handlers : Claim(h, p)) => obs' = obs
        BY DEF Recover, Stall, Claim
      <3> QED BY <2>1, <3>1, <3>2
    <2>4. ASSUME NEW h \in Handlers
          PROVE  ~Prepare(h) /\ ~Finish(h) /\ ~DatabaseFails(h) /\ ~CatchFails(h)
      <3>1. Prepare(h) => \A q \in Observations : obs'[q].status \in {obs[q].status, "running"}
        BY <2>1 DEF Prepare, Row
      <3>2. Finish(h) \/ DatabaseFails(h) \/ CatchFails(h) => obs' = obs
        BY DEF Finish, DatabaseFails, CatchFails
      <3> QED BY <2>1, <3>1, <3>2
    <2>5. ASSUME NEW h \in Handlers PROVE ~Catch(h)
      <3>1. Catch(h) => \E s \in {"stopped", "failed"} :
              \A q \in Observations : obs'[q].status \in {obs[q].status, s}
        BY <2>1 DEF Catch, Recorded, Row
      <3> QED BY <2>1, <3>1
    <2> \A w \in Workers : ~Crash(w)
      BY <2>1 DEF Crash
    <2>6. PICK h \in Handlers : Complete(h)
      BY <2>2, <2>3, <2>4, <2>5 DEF Next, Handle
    <2> DEFINE c == at[h].of
    <2>7. /\ at[h].step = "prepared" /\ GoTo(h, "ok")
          /\ obs[c].status = "running" /\ Owns(h, c) /\ Authorised(c)
          /\ obs' = [obs EXCEPT ![c].status = "completed"]
      BY <2>1, <2>6 DEF Complete, StillAuthorised
    <2>8. c = o
      BY <2>1, <2>7
    <2>9. h \in Handlers /\ at'[h].step = "ok" /\ Handling(h, o) /\ Process[h] \in Workers
      BY <2>6, <2>7, <2>8, ParityAssumption
         DEF GoTo, Owns, Handling, ParityIInv, VarsOK, Handler
    <2>10. PICK g \in Handlers : Handling(g, o) /\ at[g].latest
      BY <2>9 DEF ParityIInv, LatestTrue
    <2>11. Process[g] = Process[h]
      BY <2>9, <2>10 DEF Handling
    <2> QED BY <2>7, <2>8, <2>9, <2>10, <2>11 DEF Authorised, Handling
  <1> QED BY <1>1, ParityInvariant, PTL DEF Spec, PublishedUnderAuthority
-----------------------------------------------------------------------------
(* The promise: what administrators, handlers and recoveries do to the jobs   *)
(* is submitting, taking, giving back and closing as JobPromise allows it.   *)

JobsAlone == \A o \in Observations : job'[o].status = job[o].status /\ job'[o].by = job[o].by

\* Only the job of o moves, to a status and a worker.
Moves(o, status, by) ==
    /\ job'[o].status = status /\ job'[o].by = by
    /\ \A p \in Observations \ {o} : job'[p].status = job[p].status /\ job'[p].by = job[p].by

\* What a step may do to the jobs.
JobMoves ==
    \/ JobsAlone
    \/ \E o \in Observations : job[o].status = "none" /\ Moves(o, "queued", None)
    \/ \E o \in Observations, w \in Workers :
         job[o].status = "queued" /\ Moves(o, "running", w)
    \/ \E o \in Observations : job[o].status = "queued" /\ Moves(o, "done", None)
    \/ \E o \in Observations, status \in {"queued", "done", "failed"} :
         job[o].status = "running" /\ Moves(o, status, None)

LEMMA FinishMoves ==
    ASSUME ParityIInv, NEW h \in Handlers, Finish(h)
    PROVE  JobMoves
  <1> DEFINE o == at[h].of
  <1>1. at[h] # Idle /\ o \in Observations
    BY DEF Finish, Idle, ParityIInv, VarsOK, HandlersTrue, Handler
  <1>2. job[o] \in JobRow /\ job \in [Observations -> JobRow]
    BY <1>1 DEF ParityIInv, VarsOK
  <1>3. CASE ~Owns(h, o)
    BY <1>3 DEF Finish, JobMoves, JobsAlone
  <1>4. CASE Owns(h, o)
    <2>1. PICK status \in {"queued", "done", "failed"} :
            job' = [job EXCEPT ![o].by = None, ![o].status = status]
      BY <1>4 DEF Finish
    <2>2. Moves(o, status, None)
      BY <1>1, <1>2, <2>1 DEF Moves, JobRow
    <2> QED BY <1>1, <1>4, <2>2 DEF JobMoves, Owns
  <1> QED BY <1>3, <1>4

LEMMA RequeueMoves ==
    ASSUME ParityIInv, NEW o \in Observations, job[o].status = "running", Requeue(o)
    PROVE  JobMoves
  <1>1. Moves(o, "queued", None)
    BY DEF Requeue, Moves, ParityIInv, VarsOK, JobRow
  <1> QED BY <1>1 DEF JobMoves

LEMMA JobMovesStep == ParityIInv /\ [Next]_vars => JobMoves
  <1> SUFFICES ASSUME ParityIInv, [Next]_vars PROVE JobMoves
    OBVIOUS
  <1>1. job \in [Observations -> JobRow]
    BY DEF ParityIInv, VarsOK
  <1>2. ASSUME UNCHANGED job PROVE JobMoves
    BY <1>2 DEF JobMoves, JobsAlone
  <1>3. ASSUME NEW o \in Observations, Queue(o) PROVE JobMoves
    <2>1. job[o].status = "none"
      BY <1>3 DEF Queue, ParityIInv, JobsTrue
    <2>2. Moves(o, "queued", None)
      BY <1>1, <1>3, <2>1 DEF Queue, Moves, JobRow, ParityIInv, JobsTrue
    <2> QED BY <2>1, <2>2 DEF JobMoves
  <1>4. ASSUME NEW o \in Observations, Cancel(o) PROVE JobMoves
    <2>1. CASE job[o].status = "queued" /\ job[o].attempts = 0
      <3>1. Moves(o, "done", None)
        BY <1>1, <1>4, <2>1 DEF Cancel, Moves, JobRow, ParityIInv, JobsTrue
      <3> QED BY <2>1, <3>1 DEF JobMoves
    <2>2. CASE ~(job[o].status = "queued" /\ job[o].attempts = 0)
      BY <1>2, <1>4, <2>2 DEF Cancel
    <2> QED BY <2>1, <2>2
  <1>5. ASSUME NEW h \in Handlers, NEW o \in Observations, Claim(h, o) PROVE JobMoves
    <2>1. job[o].status = "queued" /\ Moves(o, "running", Process[h]) /\ Process[h] \in Workers
      BY <1>1, <1>5, ParityAssumption DEF Claim, Moves
    <2> QED BY <2>1 DEF JobMoves
  <1>6. ASSUME NEW o \in Observations, Recover(o) \/ Stall(o) PROVE JobMoves
    BY <1>6, RequeueMoves DEF Recover, Stall, Owns
  <1>7. ASSUME NEW h \in Handlers,
               Prepare(h) \/ Complete(h) \/ Catch(h) \/ DatabaseFails(h) \/ CatchFails(h)
        PROVE  JobMoves
    BY <1>2, <1>7 DEF Prepare, Complete, Catch, DatabaseFails, CatchFails
  <1>8. ASSUME NEW w \in Workers, Crash(w) PROVE JobMoves
    BY <1>2, <1>8 DEF Crash
  <1>9. CASE ChangeEvidence \/ ChangeAccess \/ UNCHANGED vars
    BY <1>2, <1>9 DEF ChangeEvidence, ChangeAccess, vars
  <1> QED
    BY <1>3, <1>4, <1>5, <1>6, <1>7, <1>8, <1>9, FinishMoves DEF Next, Handle

-----------------------------------------------------------------------------
phaseBar == [o \in Observations |-> Phase(job[o].status)]
holderBar == [o \in Observations |-> job[o].by]
chargeBar == [o \in Observations |-> 0]

LEMMA PhaseValues ==
    /\ Phase("none") = "absent" /\ Phase("queued") = "waiting"
    /\ Phase("running") = "held" /\ Phase("done") = "over" /\ Phase("failed") = "over"
  BY DEF Phase

LEMMA Mapped ==
    /\ Promise!Init <=> /\ phaseBar = [o \in Observations |-> "absent"]
                        /\ holderBar = [o \in Observations |-> None]
                        /\ chargeBar = [o \in Observations |-> 0]
    /\ Promise!vars = <<phaseBar, holderBar, chargeBar, 1>>
    /\ \A lane : Promise!Held(lane) =
         {o \in Observations : phaseBar[o] = "held" /\ [p \in Observations |-> "parity"][o] = lane}
  BY DEF Promise!Init, Promise!vars, Promise!Held, phaseBar, holderBar, chargeBar

\* The promise counts with its own instance of the library's definition.
LEMMA SameCount == \A S : Promise!Cardinality(S) = Cardinality(S)
  BY Zenon DEF Promise!Cardinality, Cardinality

\* Nobody pays, so nothing is charged.
LEMMA NoCharge == \A o : Promise!Charge(o)
  BY DEF Promise!Charge

LEMMA SubmitBar ==
    ASSUME ParityIInv, NEW o \in Observations, job[o].status = "none", Moves(o, "queued", None)
    PROVE  Promise!Submit(o)
  <1>1. phaseBar[o] = "absent" /\ phaseBar' = [phaseBar EXCEPT ![o] = "waiting"]
    BY PhaseValues DEF Moves, phaseBar
  <1>2. holderBar' = holderBar
    BY DEF Moves, ParityIInv, JobsTrue, holderBar
  <1> QED BY <1>1, <1>2, NoCharge DEF Promise!Submit, phaseBar, holderBar

LEMMA TakeBar ==
    ASSUME NEW o \in Observations, NEW w \in Workers, job[o].status = "queued",
           Moves(o, "running", w)
    PROVE  Promise!Take(w, o)
  <1>1. phaseBar[o] = "waiting" /\ phaseBar' = [phaseBar EXCEPT ![o] = "held"]
    BY PhaseValues DEF Moves, phaseBar
  <1>2. holderBar' = [holderBar EXCEPT ![o] = w]
    BY DEF Moves, holderBar
  <1> DEFINE held == Promise!Held("parity")
  <1>3. held \in SUBSET Observations /\ o \notin held
    BY <1>1, Mapped
  <1> HIDE DEF held
  <1>4. Cardinality(held) < Cardinality(Observations)
    BY <1>3, FS_Subset, FS_CardinalityType, ParityAssumption
  <1>5. /\ Promise!Cardinality(Promise!Held("parity")) < Promise!Cardinality(Observations)
        /\ Promise!Cardinality(Promise!Held("parity")) < Cardinality(Observations)
    BY <1>4, SameCount DEF held
  <1> QED BY <1>1, <1>2, <1>5, NoCharge DEF Promise!Take, phaseBar, holderBar

LEMMA LeaveBar ==
    ASSUME ParityIInv, NEW o \in Observations, NEW status \in {"queued", "done", "failed"},
           job[o].status \in {"queued", "running"},
           status = "queued" => job[o].status = "running",
           Moves(o, status, None)
    PROVE  Promise!GiveBack({o}) \/ Promise!Close({o})
  <1>1. /\ phaseBar[o] \in {"waiting", "held"}
        /\ status = "queued" => phaseBar[o] = "held"
    BY PhaseValues DEF phaseBar
  <1>2. /\ phaseBar' = [p \in Observations |-> IF p \in {o} THEN Phase(status) ELSE phaseBar[p]]
        /\ holderBar' = [p \in Observations |-> IF p \in {o} THEN None ELSE holderBar[p]]
    BY DEF Moves, phaseBar, holderBar
  <1>3. Promise!Leave({o}, Phase(status))
    BY <1>2 DEF Promise!Leave, phaseBar, holderBar
  <1>4. CASE status = "queued"
    BY <1>1, <1>3, <1>4, PhaseValues DEF Promise!GiveBack, phaseBar
  <1>5. CASE status \in {"done", "failed"}
    BY <1>1, <1>3, <1>5, PhaseValues DEF Promise!Close, phaseBar
  <1> QED BY <1>4, <1>5

LEMMA PromiseStep ==
    ASSUME ParityIInv, [Next]_vars
    PROVE  [Promise!Next]_(Promise!vars)
  <1>1. CASE JobsAlone
    BY <1>1, Mapped DEF JobsAlone, Promise!vars, phaseBar, holderBar, chargeBar
  <1>2. ASSUME NEW o \in Observations, job[o].status = "none", Moves(o, "queued", None)
        PROVE  Promise!Next
    BY <1>2, SubmitBar DEF Promise!Next
  <1>3. ASSUME NEW o \in Observations, NEW w \in Workers, job[o].status = "queued",
               Moves(o, "running", w)
        PROVE  Promise!Next
    BY <1>3, TakeBar DEF Promise!Next
  <1>4. ASSUME NEW o \in Observations, job[o].status = "queued", Moves(o, "done", None)
        PROVE  Promise!Next
    <2>1. Promise!GiveBack({o}) \/ Promise!Close({o})
      BY <1>4, LeaveBar
    <2> QED BY <2>1 DEF Promise!Next
  <1>5. ASSUME NEW o \in Observations, NEW status \in {"queued", "done", "failed"},
               job[o].status = "running", Moves(o, status, None)
        PROVE  Promise!Next
    <2>1. Promise!GiveBack({o}) \/ Promise!Close({o})
      BY <1>5, LeaveBar
    <2> QED BY <2>1 DEF Promise!Next
  <1> QED BY JobMovesStep, <1>1, <1>2, <1>3, <1>4, <1>5 DEF JobMoves

\* The jobs of the observations implement JobPromise: a job is in the hands of
\* one worker at a time and once over stays over, however handlers that are
\* late, stalled or crashed, cancellations and recoveries interleave.
THEOREM ParityKeepsPromise == Spec => KeepsPromise
  <1>1. Init => Promise!Init
    <2>1. Init => /\ phaseBar = [o \in Observations |-> "absent"]
                  /\ holderBar = [o \in Observations |-> None]
                  /\ chargeBar = [o \in Observations |-> 0]
      BY PhaseValues DEF Init, phaseBar, holderBar, chargeBar
    <2> QED BY <2>1, Mapped
  <1>2. ParityIInv /\ [Next]_vars => [Promise!Next]_(Promise!vars)
    BY PromiseStep
  <1> QED BY ParityInvariant, <1>1, <1>2, PTL DEF Spec, KeepsPromise, Promise!Spec
=============================================================================
