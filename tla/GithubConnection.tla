--------------------------- MODULE GithubConnection ---------------------------
(***************************************************************************)
(* Connecting a GitHub installation to a workspace while its webhooks       *)
(* arrive (github-pending-events.ts, github-connection-intents.ts,          *)
(* github-workspace-connection.ts, webhooks.ts): deliveries for an unknown  *)
(* installation wait in an inbox and are replayed as it is bound.           *)
(*                                                                         *)
(* One installation; its repositories change on GitHub meanwhile.           *)
(***************************************************************************)
EXTENDS Naturals, Sequences, SequencesExt

CONSTANTS
    Repos,        \* repositories the installation may be given
    Workspaces,   \* workspaces that try to connect it
    Personal,     \* those whose user owns the installed account
    MaxEvents,    \* bound: webhooks GitHub sends
    MaxInbox      \* deliveries kept for one installation

ASSUME ConnectionAssumption ==
    /\ Personal \subseteq Workspaces
    /\ MaxEvents \in Nat /\ MaxInbox \in Nat \ {0}

None == "none"
ASSUME NoneAssumption == None \notin Workspaces

VARIABLES
    github,   \* GitHub's side: whether installed, and the repositories given
    wire,     \* webhooks sent and not delivered
    sent,     \* webhooks sent so far
    ordered,  \* history: no webhook has been lost or overtaken
    inbox,    \* staged deliveries, not replayed
    owner,    \* the workspace the installation is bound to
    row,      \* the installations row
    sources,  \* sources[r]: the repos row
    scans,    \* repositories with a scan queued
    intent,   \* intent[w]: the workspace's connection request
    attempt   \* attempt[w]: what connecting it has read

vars == <<github, wire, sent, ordered, inbox, owner, row, sources, scans, intent, attempt>>
db == <<inbox, owner, row, sources, scans>>

\* repos: those the webhook names; by: who installed.
Event == [id : 1..MaxEvents, kind : {"created", "deleted", "added", "removed", "release"},
          repos : SUBSET Repos, by : Workspaces \cup {None}]

\* A request made before the installation was created may claim a new one.
Intents == {"none", "early", "late", "used"}
NoAttempt == [at |-> "idle", events |-> <<>>, repos |-> {}]

-----------------------------------------------------------------------------
(* GitHub.                                                                  *)

Send(kind, repos, by) ==
    /\ sent < MaxEvents
    /\ sent' = sent + 1
    /\ wire' = Append(wire, [id |-> sent + 1, kind |-> kind, repos |-> repos, by |-> by])
    /\ UNCHANGED <<ordered, inbox, owner, row, sources, scans, intent, attempt>>

Install ==
    /\ github.installed = "never"
    /\ \E repos \in SUBSET Repos, w \in Workspaces :
         /\ github' = [installed |-> "yes", repos |-> repos]
         /\ Send("created", repos, w)

Uninstall ==
    /\ github.installed = "yes"
    /\ github' = [installed |-> "no", repos |-> {}]
    /\ Send("deleted", {}, None)

AddRepository(r) ==
    /\ github.installed = "yes" /\ r \notin github.repos
    /\ github' = [github EXCEPT !.repos = @ \cup {r}]
    /\ Send("added", {r}, None)

RemoveRepository(r) ==
    /\ r \in github.repos
    /\ github' = [github EXCEPT !.repos = @ \ {r}]
    /\ Send("removed", {r}, None)

Release(r) ==
    /\ r \in github.repos
    /\ Send("release", {r}, None)
    /\ UNCHANGED github

-----------------------------------------------------------------------------
(* Webhooks.                                                                *)

\* Mutant: a source that was removed stays disconnected.
UpsertOnce(srcs, repos, reconnect) ==
    [r \in Repos |-> IF r \in repos /\ srcs[r] = "absent" THEN "connected" ELSE srcs[r]]

\* upsertRepo: only an added repository reconnects one that was removed.
Upsert(srcs, repos, reconnect) ==
    [r \in Repos |-> IF r \in repos /\ (reconnect \/ srcs[r] = "absent")
                     THEN "connected" ELSE srcs[r]]

\* removeRepo disconnects a source that is there.
RemoveRepo(srcs, repos) ==
    [r \in Repos |-> IF r \in repos /\ srcs[r] = "connected"
                     THEN "disconnected" ELSE srcs[r]]

\* enqueueFromWebhook, on [row, sources, scans].
EnqueueFromWebhook(to, e) ==
    CASE e.kind = "created" ->
           [to EXCEPT !.row = "active", !.sources = Upsert(@, e.repos, FALSE)]
      [] e.kind = "deleted" -> [to EXCEPT !.row = "disconnected", !.scans = {}]
      [] e.kind = "added" -> [to EXCEPT !.sources = Upsert(@, e.repos, TRUE)]
      [] e.kind = "removed" -> [to EXCEPT !.sources = RemoveRepo(@, e.repos)]
      [] e.kind = "release" ->
           [to EXCEPT !.sources = Upsert(@, e.repos, FALSE),
                      !.scans = IF to.row = "active" THEN @ \cup e.repos ELSE @]

Tables == [row |-> row, sources |-> sources, scans |-> scans]

Write(tables) ==
    row' = tables.row /\ sources' = tables.sources /\ scans' = tables.scans

\* Mutant: the inbox keeps whatever arrives.
StageAlways(staged, e) == Append(staged, e)

\* stageUnboundGithubEvent: a full inbox drops the delivery.
Stage(staged, e) == IF Len(staged) < MaxInbox THEN Append(staged, e) ELSE staged

\* POST /api/webhooks/github: a delivery for an unknown installation is staged.
Deliver(i) ==
    LET e == wire[i] IN
    /\ wire' = RemoveAt(wire, i)
    /\ ordered' = (ordered /\ i = 1 /\ (row = "absent" => Len(inbox) < MaxInbox))
    /\ IF row = "absent"
       THEN /\ inbox' = Stage(inbox, e)
            /\ UNCHANGED <<row, sources, scans>>
       ELSE Write(EnqueueFromWebhook(Tables, e)) /\ UNCHANGED inbox
    /\ UNCHANGED <<github, sent, owner, intent, attempt>>

\* The request fails; GitHub does not repeat it.
Lose(i) ==
    /\ wire' = RemoveAt(wire, i) /\ ordered' = FALSE
    /\ UNCHANGED <<github, sent, db, intent, attempt>>

\* A delivery is kept for seven days, a connection request for ten minutes: one
\* that expires had arrived before any attempt under way.
ExpirePending ==
    /\ inbox # <<>> /\ row = "absent"
    /\ \A w \in Workspaces : attempt[w].at # "idle" => Contains(attempt[w].events, Head(inbox))
    /\ inbox' = Tail(inbox)
    /\ UNCHANGED <<github, wire, sent, ordered, owner, row, sources, scans, intent, attempt>>

-----------------------------------------------------------------------------
(* Connecting.                                                              *)

CreateGithubConnectionIntent(w) ==
    /\ attempt[w].at = "idle"
    /\ intent' = [intent EXCEPT ![w] = IF github.installed = "never" THEN "early" ELSE "late"]
    /\ UNCHANGED <<github, wire, sent, ordered, db, attempt>>

\* A request that is not used lapses.
ExpireIntent(w) ==
    /\ intent[w] \in {"early", "late"} /\ attempt[w].at = "idle"
    /\ intent' = [intent EXCEPT ![w] = "none"]
    /\ UNCHANGED <<github, wire, sent, ordered, db, attempt>>

\* A new installation is claimed with the webhook that reported it, a personal
\* one by its owner.
Claims(w) ==
    \/ w \in Personal
    \/ /\ intent[w] = "early"
       /\ \E i \in DOMAIN inbox : inbox[i].kind = "created" /\ inbox[i].by = w

\* The installation is asked for, then the inbox is read.
ReadPending(w) ==
    /\ attempt[w].at = "idle" /\ intent[w] \in {"early", "late"}
    /\ github.installed = "yes" /\ row = "absent"
    /\ Claims(w)
    /\ \A i \in DOMAIN inbox : inbox[i].kind # "deleted"
    /\ attempt' = [attempt EXCEPT ![w] = [at |-> "read", events |-> inbox, repos |-> {}]]
    /\ UNCHANGED <<github, wire, sent, ordered, db, intent>>

ListInstallationRepositories(w) ==
    /\ attempt[w].at = "read" /\ github.installed = "yes"
    /\ attempt' = [attempt EXCEPT ![w].at = "listed", ![w].repos = github.repos]
    /\ UNCHANGED <<github, wire, sent, ordered, db, intent>>

\* The inventory is authoritative: the replay names no other repository.
Filtered(e, repos) == [e EXCEPT !.repos = @ \cap repos]

Replay(events, repos) ==
    LET to[n \in 0..Len(events)] ==
          IF n = 0 THEN [Tables EXCEPT !.row = "active"]
                   ELSE EnqueueFromWebhook(to[n - 1], Filtered(events[n], repos))
    IN  to[Len(events)]

\* Mutant: the inbox is not read again.
Trusted(w) == row = "absent"

\* Mutant: an installation that was connected meanwhile is taken over.
TakesOver(w) == inbox = attempt[w].events \/ row # "absent"

\* What the binding transaction verifies, with the inbox locked.
Unchanged(w) == row = "absent" /\ inbox = attempt[w].events

\* Marked as replayed: the deliveries read, which come first, since the inbox
\* grows at its end.
Replayed(w) == {i \in DOMAIN inbox : Contains(attempt[w].events, inbox[i])}

Bind(w) ==
    LET repos == attempt[w].repos
        tables == Replay(attempt[w].events, repos) IN
    /\ attempt[w].at = "listed" /\ Unchanged(w)
    /\ owner' = w
    /\ inbox' = SubSeq(inbox, Cardinality(Replayed(w)) + 1, Len(inbox))
    /\ Write([tables EXCEPT !.sources = Upsert(@, repos, FALSE),
                            !.scans = @ \cup repos])
    /\ intent' = [intent EXCEPT ![w] = "used"]
    /\ attempt' = [attempt EXCEPT ![w] = NoAttempt]
    /\ UNCHANGED <<github, wire, sent, ordered>>

\* A check fails and rolls everything back, or the request goes away.
Abandon(w) ==
    /\ attempt[w].at # "idle"
    /\ attempt' = [attempt EXCEPT ![w] = NoAttempt]
    /\ UNCHANGED <<github, wire, sent, ordered, db, intent>>

-----------------------------------------------------------------------------
Init ==
    /\ github = [installed |-> "never", repos |-> {}]
    /\ wire = <<>> /\ sent = 0 /\ ordered = TRUE
    /\ inbox = <<>> /\ owner = None /\ row = "absent"
    /\ sources = [r \in Repos |-> "absent"] /\ scans = {}
    /\ intent = [w \in Workspaces |-> "none"]
    /\ attempt = [w \in Workspaces |-> NoAttempt]

Next ==
    \/ Install \/ Uninstall \/ ExpirePending
    \/ \E r \in Repos : AddRepository(r) \/ RemoveRepository(r) \/ Release(r)
    \/ \E i \in DOMAIN wire : Deliver(i) \/ Lose(i)
    \/ \E w \in Workspaces :
         \/ CreateGithubConnectionIntent(w) \/ ExpireIntent(w) \/ ReadPending(w)
         \/ ListInstallationRepositories(w) \/ Bind(w) \/ Abandon(w)

Spec == Init /\ [][Next]_vars

-----------------------------------------------------------------------------
(* Properties.                                                             *)

Connected == {r \in Repos : sources[r] = "connected"}

\* Every variable has its type.
ConnectionTypeOK ==
    /\ github \in [installed : {"never", "yes", "no"}, repos : SUBSET Repos]
    /\ wire \in Seq(Event) /\ sent \in 0..MaxEvents /\ ordered \in BOOLEAN
    /\ inbox \in Seq(Event) /\ Len(inbox) <= MaxInbox
    /\ owner \in Workspaces \cup {None} /\ row \in {"absent", "active", "disconnected"}
    /\ sources \in [Repos -> {"absent", "connected", "disconnected"}]
    /\ scans \subseteq Repos /\ intent \in [Workspaces -> Intents]
    /\ attempt \in [Workspaces -> [at : {"idle", "read", "listed"}, events : Seq(Event),
                                   repos : SUBSET Repos]]

\* No delivery is left behind in the inbox of an installation that is bound: a
\* webhook that arrives while it is being connected is replayed by the binding
\* or handled after it.
NothingLeftInInbox == owner # None => inbox = <<>>

\* Ownership is never reassigned, also when two workspaces connect the same
\* installation at the same time.
OwnerKept == [][owner # None => owner' = owner]_vars

\* Once every webhook has been handled in order, the sources of a connected
\* installation are the repositories GitHub gives it, although they changed
\* while it was being connected; and it is disconnected if it was removed.
SourcesSettle ==
    owner # None /\ ordered /\ wire = <<>> =>
        IF github.installed = "yes" THEN Connected = github.repos
                                    ELSE row = "disconnected"
=============================================================================
