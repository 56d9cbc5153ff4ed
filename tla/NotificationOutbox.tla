-------------------------- MODULE NotificationOutbox --------------------------
(***************************************************************************)
(* Workspace notifications: the outbox table workspace_notification_jobs   *)
(* (workspace-notification-outbox.ts), the sender every worker tick runs   *)
(* (workspace-notification-worker.ts) and the settings an administrator    *)
(* changes meanwhile (workspace-notifications.ts), for one workspace.      *)
(*                                                                         *)
(* A sender claims a notice in one transaction and sends it inside a       *)
(* second one, which holds the locks on workspace, destination and notice  *)
(* while the provider is called.                                           *)
(***************************************************************************)
EXTENDS Naturals, FiniteSets

CONSTANTS
    Dests,        \* independent destinations: at most one Slack and one email
    Alerts,       \* alerts the workspace publishes
    Tests,        \* request keys of notification tests
    Senders,      \* worker processes; a tick sends one notice at a time
    MaxAttempts,  \* temporary failures are retried below this many claims
    MaxVersion,   \* bound: configurations saved
    MaxFaults     \* bound: lost transactions and stalls of live senders

ASSUME OutboxAssumption ==
    /\ Dests # {} /\ Alerts \cup Tests # {} /\ Alerts \cap Tests = {}
    /\ {MaxAttempts, MaxVersion} \subseteq Nat \ {0} /\ MaxFaults \in Nat

Notices == Dests \X (Alerts \cup Tests)
Versions == 1..MaxVersion

VARIABLES
    config,   \* config[d]: configuration_version of the row, 0 if there is none
    version,  \* the last configuration_version handed out
    active,   \* the workspace is not archived
    paid,     \* the payer's plan includes notifications
    raised,   \* alerts published so far
    notice,   \* the outbox, keyed by destination and alert or request key
    sender,   \* what each sender is doing
    faults    \* history: transactions lost and leases outlived so far

settings == <<config, version, active, paid>>
vars == <<settings, raised, notice, sender, faults>>

Finished == {"sent", "failed", "cancelled"}

\* expired: leased_until has passed.  due: available_at has passed.
\* accepted, unheard and lost are history: posts the provider accepted, how many
\* of them the sender did not hear about, and how many it heard about without a
\* committed transaction to record them.
Notice == [status : {"absent", "queued", "running"} \cup Finished,
           version : Versions \cup {0}, attempts : Nat, expired : BOOLEAN, due : BOOLEAN,
           accepted : Nat, unheard : Nat, lost : Nat]

NoNotice == [status |-> "absent", version |-> 0, attempts |-> 0, expired |-> FALSE,
             due |-> FALSE, accepted |-> 0, unheard |-> 0, lost |-> 0]

NewNotice(v) ==
    [NoNotice EXCEPT !.status = "queued", !.version = v, !.due = TRUE]

\* The claims of a row are told apart by its version and its attempts: the
\* lease_id.  open: the transaction has begun, the provider was not called.
Phases == {"idle", "claimed", "open", "accepted", "temporary", "rejected"}

Sender == [phase : Phases, key : Notices, version : Versions, attempts : Nat]

Idle(s) == sender[s].phase = "idle"
InTx(s) == sender[s].phase \in Phases \ {"idle", "claimed"}

\* A sender that is done remembers nothing.
Resting == [phase |-> "idle", key |-> CHOOSE k \in Notices : TRUE, version |-> 1,
            attempts |-> 0]

SetPhase(s, phase) ==
    sender' = [sender EXCEPT ![s] =
                 IF phase = "idle" THEN Resting ELSE [@ EXCEPT !.phase = phase]]

\* The sending transaction locks the workspace FOR SHARE, destination and notice
\* FOR UPDATE.
WorkspaceFree == \A s \in Senders : ~InTx(s)
DestFree(d) == \A s \in Senders : InTx(s) => sender[s].key[1] # d

-----------------------------------------------------------------------------
(* Settings.  Every change locks the workspace FOR UPDATE.                  *)

\* Mutant: the administrator does not wait for a send under way.
SaveAnytime(d) ==
    /\ active /\ paid /\ version < MaxVersion
    /\ version' = version + 1
    /\ config' = [config EXCEPT ![d] = version + 1]
    /\ UNCHANGED <<active, paid, raised, notice, sender, faults>>

SaveWorkspaceNotification(d) ==
    /\ WorkspaceFree /\ active /\ paid /\ version < MaxVersion
    /\ version' = version + 1
    /\ config' = [config EXCEPT ![d] = version + 1]
    /\ UNCHANGED <<active, paid, raised, notice, sender, faults>>

\* Deleting the destination deletes its notices.
DisconnectWorkspaceNotification(d) ==
    /\ WorkspaceFree /\ active /\ config[d] # 0
    /\ config' = [config EXCEPT ![d] = 0]
    /\ notice' = [k \in Notices |-> IF k[1] = d THEN NoNotice ELSE notice[k]]
    /\ UNCHANGED <<version, active, paid, raised, sender, faults>>

ArchiveWorkspace ==
    /\ WorkspaceFree
    /\ active' = ~active
    /\ UNCHANGED <<config, version, paid, raised, notice, sender, faults>>

ChangePlan ==
    /\ paid' = ~paid
    /\ UNCHANGED <<config, version, active, raised, notice, sender, faults>>

-----------------------------------------------------------------------------
(* Enqueueing.                                                              *)

Connected(d) == config[d] # 0

\* Mutant: the publication does not join the destinations.
RaiseForAll(a) ==
    /\ a \notin raised /\ active
    /\ raised' = raised \cup {a}
    /\ notice' = [k \in Notices |-> IF k[2] = a THEN NewNotice(config[k[1]]) ELSE notice[k]]
    /\ UNCHANGED <<settings, sender, faults>>

\* The trigger on alerts, and enqueueWorkspaceAlertNotifications in the same
\* transaction (ON CONFLICT DO NOTHING): one notice per destination.  The
\* foreign key to a destination waits for the lock of a send.
RaiseAlert(a) ==
    /\ a \notin raised
    /\ active => \A d \in Dests : Connected(d) => DestFree(d)
    /\ raised' = raised \cup {a}
    /\ notice' = [k \in Notices |->
                    IF k[2] = a /\ active /\ Connected(k[1])
                    THEN NewNotice(config[k[1]]) ELSE notice[k]]
    /\ UNCHANGED <<settings, sender, faults>>

\* A repeated request key finds the first request.
RequestWorkspaceNotificationTest(d, t) ==
    /\ WorkspaceFree /\ active /\ paid /\ Connected(d)
    /\ notice[<<d, t>>].status = "absent"
    /\ notice' = [notice EXCEPT ![<<d, t>>] = NewNotice(config[d])]
    /\ UNCHANGED <<settings, raised, sender, faults>>

-----------------------------------------------------------------------------
(* Sending.                                                                 *)

Take(s, k) ==
    /\ notice' = [notice EXCEPT ![k].status = "running", ![k].expired = FALSE,
                                ![k].attempts = @ + 1]
    /\ sender' = [sender EXCEPT ![s] =
                    [phase |-> "claimed", key |-> k, version |-> notice[k].version,
                     attempts |-> notice[k].attempts + 1]]
    /\ UNCHANGED <<settings, raised, faults>>

\* Mutant: only queued notices are claimed.
ClaimQueued(s, k) ==
    /\ Idle(s) /\ notice[k].status = "queued" /\ notice[k].due
    /\ Take(s, k)

\* FOR UPDATE SKIP LOCKED skips the notice of an open transaction.
ClaimWorkspaceNotification(s, k) ==
    /\ Idle(s)
    /\ \A z \in Senders : InTx(z) => sender[z].key # k
    /\ \/ notice[k].status = "queued" /\ notice[k].due
       \/ notice[k].status = "running" /\ notice[k].expired
    /\ Take(s, k)

Holds(s, k) ==
    /\ ~Idle(s) /\ sender[s].key = k
    /\ notice[k].status = "running"
    /\ sender[s].version = notice[k].version
    /\ sender[s].attempts = notice[k].attempts

Owned(s) == Holds(s, sender[s].key) /\ ~notice[sender[s].key].expired

Denied(s) == ~active \/ ~paid \/ config[sender[s].key[1]] # sender[s].version

\* Mutant: the lease is not looked at again.
SendClaimed(s) ==
    /\ sender[s].phase = "claimed" /\ DestFree(sender[s].key[1])
    /\ IF Denied(s)
       THEN /\ notice' = [notice EXCEPT ![sender[s].key].status = "cancelled"]
            /\ SetPhase(s, "idle")
       ELSE UNCHANGED notice /\ SetPhase(s, "open")
    /\ UNCHANGED <<settings, raised, faults>>

\* The sending transaction up to the provider call: a lost lease ends it, a
\* changed configuration, an archived workspace or an ended plan cancels.
BeginSend(s) ==
    LET k == sender[s].key IN
    /\ sender[s].phase = "claimed" /\ DestFree(k[1])
    /\ IF Owned(s) /\ Denied(s)
       THEN notice' = [notice EXCEPT ![k].status = "cancelled"]
       ELSE UNCHANGED notice
    /\ SetPhase(s, IF Owned(s) /\ ~Denied(s) THEN "open" ELSE "idle")
    /\ UNCHANGED <<settings, raised, faults>>

\* The provider accepts the message, fails for now (429, 5xx) or rejects it; or
\* its answer does not come within eight seconds, which counts as a failure for
\* now whether or not it accepted.
Post(s) ==
    /\ sender[s].phase = "open"
    /\ \E result \in {"accepted", "temporary", "rejected"} : SetPhase(s, result)
    /\ LET k == sender[s].key
           answer == sender'[s].phase
           took == [notice EXCEPT ![k].accepted = @ + 1]
       IN \/ answer = "accepted" /\ notice' = took
          \/ answer = "temporary" /\ notice' = [took EXCEPT ![k].unheard = @ + 1]
          \/ answer # "accepted" /\ UNCHANGED notice
    /\ UNCHANGED <<settings, raised, faults>>

Outcome(s, retry) ==
    CASE sender[s].phase = "accepted" -> "sent"
      [] sender[s].phase = "temporary" /\ retry -> "queued"
      [] OTHER -> "failed"

Settle(s, status) ==
    /\ sender[s].phase \in {"accepted", "temporary", "rejected"}
    /\ notice' = [notice EXCEPT ![sender[s].key].status = status,
                                ![sender[s].key].due = FALSE]
    /\ SetPhase(s, "idle")
    /\ UNCHANGED <<settings, raised, faults>>

\* Mutant: one retry too many.
CommitOneMore(s) == Settle(s, Outcome(s, sender[s].attempts <= MaxAttempts))

\* The end of the transaction.
CommitSend(s) == Settle(s, Outcome(s, sender[s].attempts < MaxAttempts))

\* The process dies or the database fails: nothing is recorded.
LoseSend(s) ==
    /\ ~Idle(s) /\ faults < MaxFaults
    /\ faults' = faults + 1
    /\ SetPhase(s, "idle")
    /\ notice' = IF sender[s].phase = "accepted"
                 THEN [notice EXCEPT ![sender[s].key].lost = @ + 1] ELSE notice
    /\ UNCHANGED <<settings, raised>>

\* Sixty seconds pass since the claim, which a live sender outlives only when
\* it stalls.
LeaseExpires(k) ==
    LET stalled == \E s \in Senders : Holds(s, k) IN
    /\ notice[k].status = "running" /\ ~notice[k].expired
    /\ stalled => faults < MaxFaults
    /\ faults' = IF stalled THEN faults + 1 ELSE faults
    /\ notice' = [notice EXCEPT ![k].expired = TRUE]
    /\ UNCHANGED <<settings, raised, sender>>

\* The backoff of a failed attempt has passed.
BecomesDue(k) ==
    /\ notice[k].status = "queued" /\ ~notice[k].due
    /\ notice' = [notice EXCEPT ![k].due = TRUE]
    /\ UNCHANGED <<settings, raised, sender, faults>>

-----------------------------------------------------------------------------
Init ==
    /\ config = [d \in Dests |-> 0] /\ version = 0
    /\ active = TRUE /\ paid = TRUE /\ raised = {}
    /\ notice = [k \in Notices |-> NoNotice]
    /\ sender = [s \in Senders |-> Resting]
    /\ faults = 0

Next ==
    \/ \E d \in Dests : \/ SaveWorkspaceNotification(d)
                        \/ DisconnectWorkspaceNotification(d)
    \/ \E d \in Dests, t \in Tests : RequestWorkspaceNotificationTest(d, t)
    \/ ArchiveWorkspace \/ ChangePlan
    \/ \E a \in Alerts : RaiseAlert(a)
    \/ \E s \in Senders, k \in Notices : ClaimWorkspaceNotification(s, k)
    \/ \E s \in Senders : BeginSend(s) \/ Post(s) \/ CommitSend(s) \/ LoseSend(s)
    \/ \E k \in Notices : LeaseExpires(k) \/ BecomesDue(k)

Spec == Init /\ [][Next]_vars

\* Every tick drains the notices that are due; the provider call has a deadline;
\* leases and backoffs end.
Fairness ==
    /\ \A s \in Senders :
         /\ WF_vars(\E k \in Notices : ClaimWorkspaceNotification(s, k))
         /\ WF_vars(BeginSend(s)) /\ WF_vars(Post(s)) /\ WF_vars(CommitSend(s))
    /\ \A k \in Notices :
         /\ WF_vars((\A s \in Senders : ~Holds(s, k)) /\ LeaseExpires(k))
         /\ WF_vars(BecomesDue(k))

FairSpec == Spec /\ Fairness

-----------------------------------------------------------------------------
(* Properties.                                                             *)

\* Every variable has its type.
TypeOK ==
    /\ config \in [Dests -> Versions \cup {0}] /\ version \in Versions \cup {0}
    /\ active \in BOOLEAN /\ paid \in BOOLEAN
    /\ raised \subseteq Alerts
    /\ notice \in [Notices -> Notice]
    /\ \A k \in Notices : notice[k].status # "absent" => notice[k].version \in Versions
    /\ sender \in [Senders -> Sender]
    /\ faults \in Nat

Accepting(k) == \E s \in Senders : sender[s].phase = "accepted" /\ sender[s].key = k

\* A message goes out again only when the provider had accepted it unheard or the
\* transaction that heard was lost: every other accepted post is the one that is
\* recorded as sent or about to be, whichever leases expire and whoever claims the
\* notice again.
AcceptedAccounted ==
    \A k \in Notices :
        notice[k].accepted = notice[k].lost + notice[k].unheard
            + (IF notice[k].status = "sent" THEN 1 ELSE 0)
            + (IF Accepting(k) THEN 1 ELSE 0)

\* While a send is open its workspace stays active, its configuration is the
\* one the notice was queued for and no other sender serves the destination:
\* a replaced or disconnected destination receives nothing.
OpenSendCurrent ==
    \A s \in Senders : InTx(s) =>
        LET k == sender[s].key IN
        /\ active /\ config[k[1]] = sender[s].version
        /\ Holds(s, k)
        /\ \A z \in Senders \ {s} : InTx(z) => sender[z].key[1] # k[1]

\* A finished notice changes no more; it can only go with its destination.
FinishedIsFinal ==
    [][\A k \in Notices : notice[k].status \in Finished
          => notice'[k].status \in {notice[k].status, "absent"}]_vars

\* Only a lost transaction or a stall lets a notice be claimed more often than
\* its attempts allow.
ClaimsBounded == \A k \in Notices : notice[k].attempts <= MaxAttempts + faults

\* Every notice is sent, fails or is cancelled, or goes with its destination,
\* also when senders crash while they hold it.
NoticesFinish ==
    \A k \in Notices : notice[k].status \in {"queued", "running"}
        ~> notice[k].status \in Finished \cup {"absent"}
=============================================================================
