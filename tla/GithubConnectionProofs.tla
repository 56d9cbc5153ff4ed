------------------------ MODULE GithubConnectionProofs ------------------------
(* Theorems about GithubConnection, for every set of repositories and          *)
(* workspaces, any number of webhooks and any inbox.                           *)
EXTENDS GithubConnection, FiniteSetTheorems, SequenceTheorems, TLAPS

SourceStates == {"absent", "connected", "disconnected"}
TablesType == [row : {"absent", "active", "disconnected"}, sources : [Repos -> SourceStates],
               scans : SUBSET Repos]
AttemptType == [at : {"idle", "read", "listed"}, events : Seq(Event), repos : SUBSET Repos]

-----------------------------------------------------------------------------
(* Induction over the numbers, from the well-foundedness of the inclusion of  *)
(* finite sets: the least set 0..n whose n is not in T has a smaller one.     *)

LEMMA NatSetInduction ==
  ASSUME NEW T, 0 \in T, \A n \in Nat : n \in T => n + 1 \in T
  PROVE  Nat \subseteq T
<1> SUFFICES ASSUME NEW m \in Nat, m \notin T PROVE FALSE
  OBVIOUS
<1> DEFINE Out == {S \in FiniteSubsetsOf(Nat) : \E n \in Nat : n \notin T /\ S = 0..n}
<1> DEFINE R == StrictSubsetOrdering(Nat)
<1>1. \A n \in Nat : 0..n \in FiniteSubsetsOf(Nat)
  BY FS_Interval DEF FiniteSubsetsOf
<1>2. Out # {} /\ Out \subseteq FiniteSubsetsOf(Nat)
  BY <1>1
<1>3. PICK S \in Out : \A U \in Out : ~(<<U, S>> \in R)
  <2> HIDE DEF R, Out
  <2>1. IsWellFoundedOn(R, FiniteSubsetsOf(Nat))
    BY FS_StrictSubsetOrderingWellFounded DEF R
  <2> QED BY <2>1, <1>2, WFMin
<1>4. PICK n \in Nat : n \notin T /\ S = 0..n
  OBVIOUS
<1>5. n # 0 /\ n - 1 \in Nat /\ n - 1 \notin T
  <2>1. n # 0 /\ n - 1 \in Nat
    BY <1>4
  <2>2. (n - 1) + 1 = n
    BY <2>1
  <2> QED BY <1>4, <2>1, <2>2
<1>6. 0..(n-1) \in Out
  BY <1>1, <1>5
<1>7. <<0..(n-1), S>> \in R
  BY <1>4, <1>5 DEF StrictSubsetOrdering
<1> QED BY <1>3, <1>6, <1>7

-----------------------------------------------------------------------------
(* The invariant.                                                           *)

\* Repositories are given while the installation lasts; its row and its owner are
\* written together, and only then sources.
BoundTrue ==
    /\ github.repos # {} => github.installed = "yes"
    /\ row = "absent" <=> owner = None
    /\ row # "absent" => inbox = <<>>
    /\ row = "absent" => \A r \in Repos : sources[r] = "absent"

\* What follows holds while no webhook has been lost or overtaken.
IdsTrue ==
    /\ Len(wire) <= sent
    /\ \A i \in 1..Len(wire) : wire[i].id = sent - Len(wire) + i
    /\ \A i \in 1..Len(inbox) : inbox[i].id <= sent - Len(wire)
    /\ \A w \in Workspaces : \A i \in 1..Len(attempt[w].events) :
         attempt[w].events[i].id <= sent - Len(wire)

\* The webhooks that the database does not show yet, in the order they were sent.
Log == inbox \o wire

Gives(e, r) == e.kind \in {"created", "added", "release"} /\ r \in e.repos
Adds(e, r) == e.kind = "added" /\ r \in e.repos
Takes(e, r) == e.kind = "removed" /\ r \in e.repos
Touches(e, r) == e.kind \in {"created", "added", "removed"} /\ r \in e.repos

ShapeTrue ==
    /\ \A i \in 1..Len(Log) :
         /\ Log[i].kind = "created" => i = 1
         /\ Log[i].kind = "deleted" => i = Len(Log) /\ github.installed = "no"
    /\ github.installed = "never" =>
         /\ Log = <<>> /\ row = "absent"
         /\ \A w \in Workspaces : attempt[w].at = "idle"
    /\ \A i \in 1..Len(wire) : wire[i].kind = "created" =>
         \A r \in Repos : sources[r] # "disconnected"
    /\ \A w \in Workspaces : \A i \in 1..Len(attempt[w].events) :
         attempt[w].events[i].kind # "deleted"

\* The last webhook that names a repository says whether GitHub gives it.
LogTrue ==
    github.installed = "yes" =>
      \A r \in Repos : \A i \in 1..Len(Log) :
        /\ Gives(Log[i], r) /\ (\A j \in i+1..Len(Log) : ~Takes(Log[j], r)) =>
             r \in github.repos
        /\ Takes(Log[i], r) /\ (\A j \in i+1..Len(Log) : ~Adds(Log[j], r)) =>
             r \notin github.repos

\* A repository that no webhook under way names is as GitHub has it.
SettledTrue ==
    github.installed = "yes" /\ row # "absent" =>
      \A r \in Repos :
        (\A i \in 1..Len(wire) : ~Touches(wire[i], r)) =>
          (sources[r] = "connected" <=> r \in github.repos)

\* The repositories that an attempt listed are still GitHub's, or a webhook that
\* says otherwise is under way or has reached the inbox, which is then another.
ListedTrue ==
    github.installed = "yes" /\ row = "absent" =>
      \A w \in Workspaces : attempt[w].at = "listed" =>
        \A r \in Repos :
          \/ r \in attempt[w].repos <=> r \in github.repos
          \/ \E i \in 1..Len(wire) : Touches(wire[i], r)
          \/ \E i \in 1..Len(inbox) : \A j \in 1..Len(attempt[w].events) :
               inbox[i] # attempt[w].events[j]

\* The end of the installation is the last webhook.
RemovedTrue ==
    github.installed = "no" =>
      IF wire = <<>>
      THEN IF row = "absent"
           THEN \A w \in Workspaces : attempt[w].at # "idle" =>
                  \E i \in 1..Len(inbox) : inbox[i].kind = "deleted"
           ELSE row = "disconnected"
      ELSE wire[Len(wire)].kind = "deleted"

OrderTrue == IdsTrue /\ ShapeTrue /\ LogTrue /\ SettledTrue /\ ListedTrue /\ RemovedTrue

ConnectionIInv == ConnectionTypeOK /\ BoundTrue /\ (ordered => OrderTrue)

LEMMA ConnectionInit == Init => ConnectionIInv
  <1> SUFFICES ASSUME Init PROVE ConnectionIInv
    OBVIOUS
  <1> USE NoneAssumption, ConnectionAssumption
  <1>1. ConnectionTypeOK
    BY DEF Init, ConnectionTypeOK, NoAttempt, Intents
  <1>2. BoundTrue
    BY DEF Init, BoundTrue
  <1>3. Log = <<>>
    BY DEF Init, Log
  <1>4. OrderTrue
    BY <1>3 DEF Init, OrderTrue, IdsTrue, ShapeTrue, LogTrue, SettledTrue, ListedTrue,
                RemovedTrue, NoAttempt
  <1> QED BY <1>1, <1>2, <1>4 DEF ConnectionIInv

LEMMA EventIds == \A e \in Event : e.id \in Nat
  BY ConnectionAssumption DEF Event

\* The log is the inbox and then the wire.
LEMMA LogIs ==
    ASSUME inbox \in Seq(Event), wire \in Seq(Event)
    PROVE  /\ Log \in Seq(Event) /\ Len(Log) = Len(inbox) + Len(wire)
           /\ \A i \in 1..Len(inbox) : Log[i] = inbox[i]
           /\ \A i \in 1..Len(wire) : Log[Len(inbox) + i] = wire[i]
  BY DEF Log

-----------------------------------------------------------------------------
(* GitHub.                                                                  *)

\* GitHub changes what it gives and sends a webhook that says so.
LEMMA SendStep ==
    ASSUME ConnectionIInv, NEW kind, NEW repos \in SUBSET Repos, NEW by \in Workspaces \cup {None},
           kind \in {"created", "deleted", "added", "removed", "release"},
           Send(kind, repos, by),
           github' \in [installed : {"yes", "no"}, repos : SUBSET Repos],
           github.installed = IF kind = "created" THEN "never" ELSE "yes",
           github'.installed = IF kind = "deleted" THEN "no" ELSE "yes",
           kind = "deleted" => github'.repos = {},
           github'.installed = "yes" =>
             \A r \in Repos : r \in github'.repos <=>
                \/ kind \in {"created", "added"} /\ r \in repos
                \/ r \in github.repos /\ ~(kind = "removed" /\ r \in repos),
           kind = "release" => repos \subseteq github.repos
    PROVE  ConnectionIInv'
  <1> DEFINE e == [id |-> sent + 1, kind |-> kind, repos |-> repos, by |-> by]
  <1>1. /\ wire' = Append(wire, e) /\ sent' = sent + 1 /\ sent < MaxEvents
        /\ UNCHANGED <<ordered, inbox, owner, row, sources, scans, intent, attempt>>
    BY DEF Send
  <1>2. /\ sent \in Nat /\ wire \in Seq(Event) /\ inbox \in Seq(Event)
        /\ attempt \in [Workspaces -> AttemptType]
    BY DEF ConnectionIInv, ConnectionTypeOK, AttemptType
  <1>3. /\ e \in Event /\ e.id = sent + 1 /\ e.kind = kind /\ e.repos = repos
        /\ sent' \in 0..MaxEvents
    BY <1>1, <1>2, ConnectionAssumption DEF Event
  <1> HIDE DEF e
  <1>4. /\ wire' \in Seq(Event) /\ Len(wire') = Len(wire) + 1 /\ wire'[Len(wire')] = e
        /\ \A i \in 1..Len(wire) : wire'[i] = wire[i]
    BY <1>1, <1>2, <1>3
  <1>5. ConnectionTypeOK'
    BY <1>1, <1>3, <1>4 DEF ConnectionIInv, ConnectionTypeOK
  <1>6. BoundTrue'
    <2>1. github'.repos # {} => github'.installed = "yes"
      OBVIOUS
    <2> QED BY <1>1, <2>1 DEF ConnectionIInv, BoundTrue
  <1>7. /\ Log \in Seq(Event) /\ Log' \in Seq(Event)
        /\ Len(Log') = Len(Log) + 1 /\ Log'[Len(Log')] = e
        /\ \A i \in 1..Len(Log) : Log'[i] = Log[i]
    BY <1>1, <1>2, <1>3 DEF Log
  <1>8. ASSUME ordered PROVE OrderTrue'
    <2> USE <1>2, <1>7
    <2>1. IdsTrue /\ ShapeTrue /\ LogTrue /\ SettledTrue /\ ListedTrue /\ RemovedTrue
      BY <1>8 DEF ConnectionIInv, OrderTrue
    <2>2. IdsTrue'
      <3>1. sent' - Len(wire') = sent - Len(wire) /\ Len(wire') <= sent'
        BY <1>1, <1>4, <2>1 DEF IdsTrue
      <3>2. ASSUME NEW i \in 1..Len(wire') PROVE wire'[i].id = sent' - Len(wire') + i
        <4>1. CASE i \in 1..Len(wire)
          BY <1>4, <2>1, <3>1, <4>1 DEF IdsTrue
        <4>2. CASE i = Len(wire')
          BY <1>1, <1>3, <1>4, <3>1, <4>2
        <4> QED BY <1>4, <4>1, <4>2
      <3> QED BY <1>1, <2>1, <3>1, <3>2 DEF IdsTrue
    <2>3. ShapeTrue'
      <3>1. ASSUME NEW i \in 1..Len(Log')
            PROVE  /\ Log'[i].kind = "created" => i = 1
                   /\ Log'[i].kind = "deleted" => i = Len(Log') /\ github'.installed = "no"
        <4>1. CASE i \in 1..Len(Log)
          BY <2>1, <4>1 DEF ShapeTrue
        <4>2. CASE i = Len(Log')
          BY <1>3, <2>1, <4>2 DEF ShapeTrue
        <4> QED BY <4>1, <4>2
      <3>2. ASSUME NEW i \in 1..Len(wire'), wire'[i].kind = "created", NEW r \in Repos
            PROVE  sources'[r] # "disconnected"
        <4>1. CASE i \in 1..Len(wire)
          BY <1>1, <1>4, <2>1, <3>2, <4>1 DEF ShapeTrue
        <4>2. CASE i = Len(wire')
          BY <1>1, <1>3, <1>4, <2>1, <3>2, <4>2 DEF ShapeTrue, ConnectionIInv, BoundTrue
        <4> QED BY <1>4, <4>1, <4>2
      <3> QED BY <1>1, <2>1, <3>1, <3>2 DEF ShapeTrue
    <2>4. LogTrue'
      <3> SUFFICES ASSUME github'.installed = "yes", NEW r \in Repos, NEW i \in 1..Len(Log')
                   PROVE  /\ Gives(Log'[i], r) /\ (\A j \in i+1..Len(Log') : ~Takes(Log'[j], r)) =>
                               r \in github'.repos
                          /\ Takes(Log'[i], r) /\ (\A j \in i+1..Len(Log') : ~Adds(Log'[j], r)) =>
                               r \notin github'.repos
        BY DEF LogTrue
      <3>1. CASE i = Len(Log')
        BY <1>3, <3>1 DEF Gives, Takes, Adds
      <3>2. CASE i \in 1..Len(Log)
        <4>1. github.installed = "yes"
          BY <2>1, <3>2 DEF ShapeTrue
        <4>2. /\ (\A j \in i+1..Len(Log') : ~Takes(Log'[j], r)) =>
                   (\A j \in i+1..Len(Log) : ~Takes(Log[j], r)) /\ ~Takes(e, r)
              /\ (\A j \in i+1..Len(Log') : ~Adds(Log'[j], r)) =>
                   (\A j \in i+1..Len(Log) : ~Adds(Log[j], r)) /\ ~Adds(e, r)
          <5>1. Len(Log) \in Nat /\ Len(Log') \in i+1..Len(Log')
            BY <3>2
          <5>2. \A j \in i+1..Len(Log) : j \in i+1..Len(Log') /\ Log'[j] = Log[j]
            BY <3>2, <5>1
          <5> QED BY <5>1, <5>2
        <4>3. kind # "created"
          BY <4>1
        <4> QED BY <1>3, <2>1, <3>2, <4>1, <4>2, <4>3 DEF LogTrue, Takes, Adds
      <3> QED BY <3>1, <3>2
    <2>5. \A r \in Repos :
            /\ (\A i \in 1..Len(wire') : ~Touches(wire'[i], r)) =>
                 /\ \A i \in 1..Len(wire) : ~Touches(wire[i], r)
                 /\ ~Touches(e, r)
            /\ (\E i \in 1..Len(wire) : Touches(wire[i], r)) \/ Touches(e, r) =>
                 \E i \in 1..Len(wire') : Touches(wire'[i], r)
      <3>1. \A i \in 1..Len(wire) : i \in 1..Len(wire') /\ wire'[i] = wire[i]
        BY <1>4
      <3>2. Len(wire') \in 1..Len(wire') /\ wire'[Len(wire')] = e
        BY <1>4
      <3> QED BY <3>1, <3>2
    <2>6. \A r \in Repos : github'.installed = "yes" /\ ~Touches(e, r) =>
            (r \in github'.repos <=> r \in github.repos)
      BY <1>3 DEF Touches
    <2>7. kind = "created" => row = "absent" /\ \A w \in Workspaces : attempt[w].at = "idle"
      BY <2>1 DEF ShapeTrue
    <2>8. SettledTrue'
      BY <1>1, <2>1, <2>5, <2>6, <2>7 DEF SettledTrue
    <2>9. ListedTrue'
      <3> SUFFICES ASSUME github'.installed = "yes", row' = "absent", NEW w \in Workspaces,
                          attempt'[w].at = "listed", NEW r \in Repos
                   PROVE  \/ r \in attempt'[w].repos <=> r \in github'.repos
                          \/ \E i \in 1..Len(wire') : Touches(wire'[i], r)
                          \/ \E i \in 1..Len(inbox') : \A j \in 1..Len(attempt'[w].events) :
                               inbox'[i] # attempt'[w].events[j]
        BY Zenon DEF ListedTrue
      <3>1. github.installed = "yes" /\ row = "absent" /\ attempt[w].at = "listed"
        BY <1>1, <2>7
      <3>2. \/ r \in attempt[w].repos <=> r \in github.repos
            \/ \E i \in 1..Len(wire) : Touches(wire[i], r)
            \/ \E i \in 1..Len(inbox) : \A j \in 1..Len(attempt[w].events) :
                 inbox[i] # attempt[w].events[j]
        BY <2>1, <3>1, Zenon DEF ListedTrue
      <3>3. CASE Touches(e, r) \/ \E i \in 1..Len(wire) : Touches(wire[i], r)
        BY <2>5, <3>3
      <3>4. CASE ~Touches(e, r)
        <4>1. r \in github'.repos <=> r \in github.repos
          BY <2>6, <3>4
        <4>2. attempt' = attempt /\ inbox' = inbox
          BY <1>1
        <4> QED BY <2>5, <3>2, <4>1, <4>2
      <3> QED BY <3>3, <3>4
    <2>10. RemovedTrue'
      BY <1>3, <1>4 DEF RemovedTrue
    <2> QED BY <2>2, <2>3, <2>4, <2>8, <2>9, <2>10 DEF OrderTrue
  <1> QED BY <1>1, <1>5, <1>6, <1>8 DEF ConnectionIInv

LEMMA GithubStep ==
    ASSUME ConnectionIInv,
           \/ Install \/ Uninstall
           \/ \E r \in Repos : AddRepository(r) \/ RemoveRepository(r) \/ Release(r)
    PROVE  ConnectionIInv'
  <1>1. /\ github \in [installed : {"never", "yes", "no"}, repos : SUBSET Repos]
        /\ github.repos # {} => github.installed = "yes"
    BY DEF ConnectionIInv, ConnectionTypeOK, BoundTrue
  <1>2. CASE Install
    <2>1. PICK repos \in SUBSET Repos, w \in Workspaces :
            github' = [installed |-> "yes", repos |-> repos] /\ Send("created", repos, w)
      BY <1>2 DEF Install
    <2>2. github.installed = "never" /\ github.repos = {}
      BY <1>1, <1>2 DEF Install
    <2> QED BY <2>1, <2>2, SendStep
  <1>3. CASE Uninstall
    <2>1. /\ github.installed = "yes" /\ github' = [installed |-> "no", repos |-> {}]
          /\ Send("deleted", {}, None)
      BY <1>3 DEF Uninstall
    <2> QED BY <2>1, SendStep
  <1>4. ASSUME NEW r \in Repos, AddRepository(r) PROVE ConnectionIInv'
    <2>1. /\ github.installed = "yes" /\ github' = [github EXCEPT !.repos = @ \cup {r}]
          /\ Send("added", {r}, None)
      BY <1>4 DEF AddRepository
    <2>2. /\ github' \in [installed : {"yes", "no"}, repos : SUBSET Repos]
          /\ github'.installed = "yes" /\ github'.repos = github.repos \cup {r}
      BY <1>1, <2>1
    <2> QED BY <2>1, <2>2, SendStep
  <1>5. ASSUME NEW r \in Repos, RemoveRepository(r) PROVE ConnectionIInv'
    <2>1. /\ github.installed = "yes" /\ github' = [github EXCEPT !.repos = @ \ {r}]
          /\ Send("removed", {r}, None)
      BY <1>1, <1>5 DEF RemoveRepository
    <2>2. /\ github' \in [installed : {"yes", "no"}, repos : SUBSET Repos]
          /\ github'.installed = "yes" /\ github'.repos = github.repos \ {r}
      BY <1>1, <2>1
    <2> QED BY <2>1, <2>2, SendStep
  <1>6. ASSUME NEW r \in Repos, Release(r) PROVE ConnectionIInv'
    <2>1. /\ github.installed = "yes" /\ github' = github /\ r \in github.repos
          /\ Send("release", {r}, None)
      BY <1>1, <1>6 DEF Release
    <2>2. github' \in [installed : {"yes", "no"}, repos : SUBSET Repos]
      BY <1>1, <2>1
    <2> QED BY <2>1, <2>2, SendStep
  <1> QED BY <1>2, <1>3, <1>4, <1>5, <1>6

-----------------------------------------------------------------------------
(* What a webhook writes.                                                   *)

LEMMA EnqueueWrites ==
    ASSUME NEW to \in TablesType, NEW e \in Event
    PROVE  LET t == EnqueueFromWebhook(to, e) IN
           /\ t \in TablesType
           /\ to.row # "absent" => t.row # "absent"
           /\ e.kind = "deleted" => t.row = "disconnected"
           /\ e.kind \notin {"created", "deleted"} => t.row = to.row
           /\ \A r \in Repos :
                /\ r \notin e.repos \/ e.kind = "deleted" => t.sources[r] = to.sources[r]
                /\ Gives(e, r) => t.sources[r] \in {to.sources[r], "connected"}
                /\ Gives(e, r) => t.sources[r] # "absent"
                /\ Adds(e, r) => t.sources[r] = "connected"
                /\ Takes(e, r) => t.sources[r] # "connected"
                /\ t.sources[r] = "disconnected" => Takes(e, r) \/ to.sources[r] = "disconnected"
  <1> DEFINE t == EnqueueFromWebhook(to, e)
  <1>1. /\ to.row \in {"absent", "active", "disconnected"}
        /\ to.sources \in [Repos -> SourceStates] /\ to.scans \in SUBSET Repos
        /\ e.repos \in SUBSET Repos
        /\ e.kind \in {"created", "deleted", "added", "removed", "release"}
    BY DEF TablesType, Event
  <1>2. t \in TablesType /\ t.sources =
          CASE e.kind = "created" -> Upsert(to.sources, e.repos, FALSE)
            [] e.kind = "deleted" -> to.sources
            [] e.kind = "added" -> Upsert(to.sources, e.repos, TRUE)
            [] e.kind = "removed" -> RemoveRepo(to.sources, e.repos)
            [] e.kind = "release" -> Upsert(to.sources, e.repos, FALSE)
    <2>1. \A reconnect \in BOOLEAN : Upsert(to.sources, e.repos, reconnect) \in [Repos -> SourceStates]
      BY <1>1 DEF Upsert, SourceStates
    <2>2. RemoveRepo(to.sources, e.repos) \in [Repos -> SourceStates]
      BY <1>1 DEF RemoveRepo, SourceStates
    <2>3. CASE e.kind = "created"
      BY <1>1, <2>1, <2>3 DEF EnqueueFromWebhook, TablesType
    <2>4. CASE e.kind = "deleted"
      BY <1>1, <2>4 DEF EnqueueFromWebhook, TablesType
    <2>5. CASE e.kind = "added"
      BY <1>1, <2>1, <2>5 DEF EnqueueFromWebhook, TablesType
    <2>6. CASE e.kind = "removed"
      BY <1>1, <2>2, <2>6 DEF EnqueueFromWebhook, TablesType
    <2>7. CASE e.kind = "release"
      BY <1>1, <2>1, <2>7 DEF EnqueueFromWebhook, TablesType
    <2> QED BY <1>1, <2>3, <2>4, <2>5, <2>6, <2>7
  <1>3. t.row = CASE e.kind = "created" -> "active"
                  [] e.kind = "deleted" -> "disconnected"
                  [] OTHER -> to.row
    BY <1>1 DEF EnqueueFromWebhook, TablesType
  <1> HIDE DEF t
  <1>4. ASSUME NEW r \in Repos
        PROVE  /\ r \notin e.repos \/ e.kind = "deleted" => t.sources[r] = to.sources[r]
               /\ Gives(e, r) => t.sources[r] \in {to.sources[r], "connected"}
               /\ Gives(e, r) => t.sources[r] # "absent"
               /\ Adds(e, r) => t.sources[r] = "connected"
               /\ Takes(e, r) => t.sources[r] # "connected"
               /\ t.sources[r] = "disconnected" => Takes(e, r) \/ to.sources[r] = "disconnected"
    BY <1>1, <1>2 DEF Upsert, RemoveRepo, Gives, Adds, Takes, SourceStates
  <1> QED BY <1>1, <1>2, <1>3, <1>4 DEF t

\* A step that breaks the order leaves only the types and the binding to show.
LEMMA BrokenStep ==
    ASSUME ConnectionIInv, NEW i \in DOMAIN wire, Deliver(i) \/ Lose(i)
    PROVE  ConnectionTypeOK' /\ BoundTrue'
  <1>1. /\ wire' = RemoveAt(wire, i) /\ ordered' \in BOOLEAN
        /\ UNCHANGED <<github, sent, owner, intent, attempt>>
    BY DEF Deliver, Lose, db, ConnectionIInv, ConnectionTypeOK
  <1>2. /\ wire \in Seq(Event) /\ inbox \in Seq(Event) /\ Len(inbox) <= MaxInbox
        /\ Tables \in TablesType /\ wire[i] \in Event
    BY DEF ConnectionIInv, ConnectionTypeOK, Tables, TablesType, SourceStates
  <1>3. wire' \in Seq(Event)
    BY <1>1, <1>2 DEF RemoveAt
  <1>4. CASE UNCHANGED <<inbox, row, sources, scans>>
    BY <1>1, <1>3, <1>4 DEF ConnectionIInv, ConnectionTypeOK, BoundTrue
  <1>5. CASE row = "absent" /\ inbox' = Stage(inbox, wire[i]) /\ UNCHANGED <<row, sources, scans>>
    <2>1. inbox' \in Seq(Event) /\ Len(inbox') <= MaxInbox
      BY <1>2, <1>5, ConnectionAssumption DEF Stage
    <2> QED BY <1>1, <1>3, <1>5, <2>1 DEF ConnectionIInv, ConnectionTypeOK, BoundTrue
  <1>6. CASE /\ row # "absent" /\ inbox' = inbox
             /\ Write(EnqueueFromWebhook(Tables, wire[i]))
    <2> DEFINE t == EnqueueFromWebhook(Tables, wire[i])
    <2>1. t \in TablesType /\ t.row # "absent"
      BY <1>2, <1>6, EnqueueWrites DEF Tables
    <2>2. row' = t.row /\ sources' = t.sources /\ scans' = t.scans
      BY <1>6 DEF Write
    <2> HIDE DEF t
    <2> QED BY <1>1, <1>3, <1>6, <2>1, <2>2
         DEF ConnectionIInv, ConnectionTypeOK, BoundTrue, TablesType, SourceStates
  <1>7. Lose(i) => UNCHANGED <<inbox, row, sources, scans>>
    BY DEF Lose, db
  <1>8. Deliver(i) => IF row = "absent"
                      THEN /\ inbox' = Stage(inbox, wire[i])
                           /\ UNCHANGED <<row, sources, scans>>
                      ELSE Write(EnqueueFromWebhook(Tables, wire[i])) /\ UNCHANGED inbox
    BY DEF Deliver
  <1> QED BY <1>4, <1>5, <1>6, <1>7, <1>8

\* What holds of the log holds of its end.
LEMMA LogEnd ==
    ASSUME ConnectionTypeOK, ConnectionTypeOK', ShapeTrue, LogTrue, github' = github, NEW k \in Nat,
           Len(Log) = Len(Log') + k, \A i \in 1..Len(Log') : Log'[i] = Log[i + k]
    PROVE  /\ \A i \in 1..Len(Log') :
                /\ Log'[i].kind = "created" => i = 1
                /\ Log'[i].kind = "deleted" => i = Len(Log') /\ github'.installed = "no"
           /\ github'.installed = "never" => Log' = <<>>
           /\ LogTrue'
  <1>1. Log \in Seq(Event) /\ Log' \in Seq(Event)
    BY DEF ConnectionTypeOK, Log
  <1>2. ASSUME NEW i \in 1..Len(Log')
        PROVE  /\ Log'[i].kind = "created" => i = 1
               /\ Log'[i].kind = "deleted" => i = Len(Log') /\ github'.installed = "no"
    <2>1. i + k \in 1..Len(Log) /\ Log'[i] = Log[i + k]
      BY <1>1
    <2> QED BY <1>1, <2>1 DEF ShapeTrue
  <1>3. github'.installed = "never" => Log' = <<>>
    BY <1>1 DEF ShapeTrue
  <1>4. LogTrue'
    <2> SUFFICES ASSUME github'.installed = "yes", NEW r \in Repos, NEW i \in 1..Len(Log')
                 PROVE  /\ Gives(Log'[i], r) /\ (\A j \in i+1..Len(Log') : ~Takes(Log'[j], r)) =>
                             r \in github'.repos
                        /\ Takes(Log'[i], r) /\ (\A j \in i+1..Len(Log') : ~Adds(Log'[j], r)) =>
                             r \notin github'.repos
      BY DEF LogTrue
    <2>1. i + k \in 1..Len(Log) /\ Log'[i] = Log[i + k]
      BY <1>1
    <2>2. ASSUME NEW j \in (i + k)+1..Len(Log)
          PROVE  j - k \in i+1..Len(Log') /\ Log'[j - k] = Log[j]
      <3>1. j - k \in i+1..Len(Log') /\ (j - k) + k = j /\ j - k \in 1..Len(Log')
        BY <1>1
      <3> QED BY <3>1
    <2>3. /\ (\A j \in i+1..Len(Log') : ~Takes(Log'[j], r)) =>
               (\A j \in (i + k)+1..Len(Log) : ~Takes(Log[j], r))
          /\ (\A j \in i+1..Len(Log') : ~Adds(Log'[j], r)) =>
               (\A j \in (i + k)+1..Len(Log) : ~Adds(Log[j], r))
      BY <2>2
    <2> QED BY <2>1, <2>3 DEF LogTrue
  <1> QED BY <1>2, <1>3, <1>4

\* The first webhook of the wire is delivered.
LEMMA HeadOfWire ==
    ASSUME ConnectionTypeOK, IdsTrue, 1 \in DOMAIN wire, wire' = RemoveAt(wire, 1),
           UNCHANGED sent
    PROVE  /\ wire' \in Seq(Event) /\ Len(wire) = Len(wire') + 1 /\ wire[1] \in Event
           /\ \A i \in 1..Len(wire') : wire'[i] = wire[i + 1]
           /\ wire[1].id = sent' - Len(wire')
           /\ Len(wire') <= sent'
           /\ \A i \in 1..Len(wire') : wire'[i].id = sent' - Len(wire') + i
  <1>1. wire \in Seq(Event) /\ 1 \in 1..Len(wire) /\ sent \in Nat
    BY DEF ConnectionTypeOK
  <1>2. /\ wire' \in Seq(Event) /\ Len(wire) = Len(wire') + 1 /\ wire[1] \in Event
        /\ \A i \in 1..Len(wire') : wire'[i] = wire[i + 1]
    <2> DEFINE a == SubSeq(wire, 1, 1 - 1)
               b == SubSeq(wire, 2, Len(wire))
    <2>1. a \in Seq(Event) /\ Len(a) = 0
      BY <1>1
    <2>2. /\ b \in Seq(Event) /\ Len(b) = Len(wire) - 1
          /\ \A i \in 1..Len(b) : b[i] = wire[i + 1]
      <3>1. 2 \in Int /\ Len(wire) \in Int /\ \A i \in 2..Len(wire) : wire[i] \in Event
        BY <1>1
      <3>2. /\ b \in Seq(Event) /\ Len(b) = IF 2 <= Len(wire) THEN Len(wire) - 2 + 1 ELSE 0
            /\ \A i \in 1..Len(wire) - 2 + 1 : b[i] = wire[2 + i - 1]
        BY <3>1, SubSeqProperties
      <3> HIDE DEF b
      <3>3. Len(b) = Len(wire) - 1
        <4>1. Len(wire) \in Nat /\ Len(wire) >= 1
          BY <1>1
        <4>2. CASE 2 <= Len(wire)
          BY <3>2, <4>1, <4>2
        <4>3. CASE Len(wire) = 1
          BY <3>2, <4>3
        <4> QED BY <4>1, <4>2, <4>3
      <3>4. ASSUME NEW i \in 1..Len(b) PROVE b[i] = wire[i + 1]
        BY <1>1, <3>2, <3>3
      <3> QED BY <3>2, <3>3, <3>4
    <2>3. wire' = a \o b
      BY DEF RemoveAt
    <2> HIDE DEF a, b
    <2>4. wire' \in Seq(Event) /\ Len(wire') = Len(b) /\ \A i \in 1..Len(b) : wire'[i] = b[i]
      BY <2>1, <2>2, <2>3
    <2> QED BY <1>1, <2>2, <2>4
  <1>3. wire[1].id = sent' - Len(wire') /\ Len(wire') <= sent'
    BY <1>1, <1>2 DEF IdsTrue
  <1>4. ASSUME NEW i \in 1..Len(wire') PROVE wire'[i].id = sent' - Len(wire') + i
    <2>1. i + 1 \in 1..Len(wire) /\ wire'[i] = wire[i + 1]
      BY <1>1, <1>2
    <2>2. wire[i + 1].id = sent - Len(wire) + (i + 1)
      BY <2>1 DEF IdsTrue
    <2> QED BY <1>1, <1>2, <2>1, <2>2
  <1> QED BY <1>2, <1>3, <1>4

\* In its turn, a webhook goes to the inbox of an unknown installation.
LEMMA StagedStep ==
    ASSUME ConnectionIInv, ConnectionTypeOK', 1 \in DOMAIN wire, Deliver(1), row = "absent", ordered'
    PROVE  OrderTrue'
  <1> DEFINE e == wire[1]
  <1>1. /\ wire' = RemoveAt(wire, 1) /\ ordered /\ Len(inbox) < MaxInbox
        /\ inbox' = Append(inbox, e)
        /\ UNCHANGED <<github, sent, owner, row, sources, attempt>>
    BY DEF Deliver, Stage
  <1>2. /\ ConnectionTypeOK /\ IdsTrue /\ ShapeTrue /\ LogTrue /\ ListedTrue /\ RemovedTrue
        /\ inbox \in Seq(Event) /\ wire \in Seq(Event) /\ attempt \in [Workspaces -> AttemptType]
        /\ sent \in Nat
    BY <1>1 DEF ConnectionIInv, OrderTrue, ConnectionTypeOK, AttemptType
  <1>3. /\ wire' \in Seq(Event) /\ Len(wire) = Len(wire') + 1 /\ e \in Event
        /\ \A i \in 1..Len(wire') : wire'[i] = wire[i + 1]
        /\ e.id = sent' - Len(wire') /\ Len(wire') <= sent'
        /\ \A i \in 1..Len(wire') : wire'[i].id = sent' - Len(wire') + i
    BY <1>1, <1>2, HeadOfWire
  <1> HIDE DEF e
  <1>4. /\ inbox' \in Seq(Event) /\ Len(inbox') = Len(inbox) + 1 /\ inbox'[Len(inbox')] = e
        /\ \A i \in 1..Len(inbox) : inbox'[i] = inbox[i]
    BY <1>1, <1>2, <1>3
  <1>5. Len(Log) = Len(Log') + 0 /\ \A i \in 1..Len(Log') : Log'[i] = Log[i + 0]
    <2>1. Len(Log) = Len(inbox) + Len(wire) /\ Len(Log') = Len(inbox') + Len(wire')
      <3>1. Len(Log) = Len(inbox) + Len(wire)
        BY <1>2, LogIs
      <3>2. Len(Log') = Len(inbox') + Len(wire')
        BY <1>3, <1>4, ConcatProperties DEF Log
      <3> QED BY <3>1, <3>2
    <2>2. ASSUME NEW i \in 1..Len(Log') PROVE Log'[i] = Log[i]
      <3>1. CASE i \in 1..Len(inbox)
        BY <1>2, <1>3, <1>4, <3>1 DEF Log
      <3>2. CASE i = Len(inbox) + 1
        <4>1. Log'[i] = inbox'[i] /\ Log[i] = wire[1]
          BY <1>2, <1>3, <1>4, <3>2 DEF Log
        <4> QED BY <1>4, <3>2, <4>1 DEF e
      <3>3. CASE i \in Len(inbox) + 2..Len(Log')
        <4>1. Log'[i] = wire'[i - Len(inbox')] /\ Log[i] = wire[i - Len(inbox)]
          BY <1>2, <1>3, <1>4, <2>1, <3>3 DEF Log
        <4>2. i - Len(inbox') \in 1..Len(wire') /\ i - Len(inbox) = (i - Len(inbox')) + 1
          BY <1>2, <1>3, <1>4, <2>1, <3>3
        <4> QED BY <1>3, <4>1, <4>2
      <3> QED BY <1>2, <1>3, <1>4, <2>1, <2>2, <3>1, <3>2, <3>3
    <2> QED BY <1>2, <1>3, <1>4, <2>1, <2>2
  <1>6. /\ \A i \in 1..Len(Log') :
             /\ Log'[i].kind = "created" => i = 1
             /\ Log'[i].kind = "deleted" => i = Len(Log') /\ github'.installed = "no"
        /\ github'.installed = "never" => Log' = <<>>
        /\ LogTrue'
    BY <1>1, <1>2, <1>5, LogEnd
  <1>7. IdsTrue'
    <2>1. sent' - Len(wire') = (sent - Len(wire)) + 1
      BY <1>1, <1>2, <1>3
    <2>2. ASSUME NEW i \in 1..Len(inbox') PROVE inbox'[i].id <= sent' - Len(wire')
      <3>1. CASE i \in 1..Len(inbox)
        <4>1. inbox[i].id <= sent - Len(wire) /\ inbox[i].id \in Nat
          BY <1>2, <3>1, EventIds DEF IdsTrue
        <4> QED BY <1>2, <1>3, <1>4, <2>1, <3>1, <4>1
      <3>2. CASE i = Len(inbox')
        BY <1>1, <1>2, <1>3, <1>4, <3>2
      <3> QED BY <1>2, <1>4, <3>1, <3>2
    <2>3. ASSUME NEW w \in Workspaces, NEW i \in 1..Len(attempt[w].events)
          PROVE  attempt[w].events[i].id <= sent' - Len(wire')
      <3>1. attempt[w].events[i].id <= sent - Len(wire) /\ attempt[w].events[i].id \in Nat
        BY <1>2, EventIds DEF IdsTrue, AttemptType
      <3> QED BY <1>2, <1>3, <2>1, <3>1
    <2> QED BY <1>1, <1>3, <2>2, <2>3 DEF IdsTrue
  <1>8. ShapeTrue'
    <2>1. ASSUME NEW i \in 1..Len(wire'), wire'[i].kind = "created", NEW r \in Repos
          PROVE  sources'[r] # "disconnected"
      BY <1>1, <1>2, <1>3, <2>1 DEF ShapeTrue
    <2> QED BY <1>1, <1>2, <1>6, <2>1 DEF ShapeTrue
  <1>9. SettledTrue'
    BY <1>1 DEF SettledTrue
  <1>10. ListedTrue'
    <2> SUFFICES ASSUME github'.installed = "yes", row' = "absent", NEW w \in Workspaces,
                        attempt'[w].at = "listed", NEW r \in Repos
                 PROVE  \/ r \in attempt'[w].repos <=> r \in github'.repos
                        \/ \E i \in 1..Len(wire') : Touches(wire'[i], r)
                        \/ \E i \in 1..Len(inbox') : \A j \in 1..Len(attempt'[w].events) :
                             inbox'[i] # attempt'[w].events[j]
      BY Zenon DEF ListedTrue
    <2>1. \/ r \in attempt[w].repos <=> r \in github.repos
          \/ \E i \in 1..Len(wire) : Touches(wire[i], r)
          \/ \E i \in 1..Len(inbox) : \A j \in 1..Len(attempt[w].events) :
               inbox[i] # attempt[w].events[j]
      BY <1>1, <1>2, Zenon DEF ListedTrue
    <2>2. CASE r \in attempt[w].repos <=> r \in github.repos
      BY <1>1, <2>2
    <2>3. ASSUME NEW i \in 1..Len(wire), Touches(wire[i], r)
          PROVE  \/ \E h \in 1..Len(wire') : Touches(wire'[h], r)
                 \/ \E h \in 1..Len(inbox') : \A j \in 1..Len(attempt'[w].events) :
                      inbox'[h] # attempt'[w].events[j]
      <3>1. CASE i = 1
        <4>1. ASSUME NEW j \in 1..Len(attempt[w].events) PROVE attempt[w].events[j] # e
          <5> DEFINE events == attempt[w].events
          <5>1. events \in Seq(Event) /\ j \in 1..Len(events)
            BY <1>2 DEF AttemptType
          <5>2. events[j].id <= sent - Len(wire) /\ events[j].id \in Nat
            BY <1>2, <5>1, EventIds DEF IdsTrue
          <5> QED BY <1>1, <1>2, <1>3, <5>2
        <4> QED BY <1>1, <1>2, <1>4, <4>1
      <3>2. CASE i # 1
        <4>1. i - 1 \in 1..Len(wire') /\ wire'[i - 1] = wire[(i - 1) + 1] /\ (i - 1) + 1 = i
          BY <1>2, <1>3, <3>2
        <4> QED BY <2>3, <4>1
      <3> QED BY <3>1, <3>2
    <2>4. ASSUME NEW i \in 1..Len(inbox), \A j \in 1..Len(attempt[w].events) :
                   inbox[i] # attempt[w].events[j]
          PROVE  \E h \in 1..Len(inbox') : \A j \in 1..Len(attempt'[w].events) :
                   inbox'[h] # attempt'[w].events[j]
      <3>1. i \in 1..Len(inbox') /\ inbox'[i] = inbox[i]
        BY <1>2, <1>4
      <3> QED BY <1>1, <2>4, <3>1
    <2> QED BY <2>1, <2>2, <2>3, <2>4
  <1>11. RemovedTrue'
    <2> SUFFICES ASSUME github.installed = "no"
                 PROVE  IF wire' = <<>>
                        THEN \A w \in Workspaces : attempt[w].at # "idle" =>
                               \E i \in 1..Len(inbox') : inbox'[i].kind = "deleted"
                        ELSE wire'[Len(wire')].kind = "deleted"
      BY <1>1 DEF RemovedTrue
    <2>1. wire[Len(wire)].kind = "deleted"
      BY <1>2, <1>3 DEF RemovedTrue
    <2>2. CASE wire' = <<>>
      <3>1. e.kind = "deleted"
        BY <1>3, <2>1, <2>2 DEF e
      <3> QED BY <1>2, <1>4, <2>2, <3>1
    <2>3. CASE wire' # <<>>
      BY <1>3, <2>1, <2>3
    <2> QED BY <2>2, <2>3
  <1> QED BY <1>6, <1>7, <1>8, <1>9, <1>10, <1>11 DEF OrderTrue

\* In its turn, a webhook is handled once the installation is known.
LEMMA HandledStep ==
    ASSUME ConnectionIInv, ConnectionTypeOK', BoundTrue', 1 \in DOMAIN wire, Deliver(1),
           row # "absent", ordered'
    PROVE  OrderTrue'
  <1> DEFINE e == wire[1]
             t == EnqueueFromWebhook(Tables, e)
  <1>1. /\ wire' = RemoveAt(wire, 1) /\ ordered
        /\ row' = t.row /\ sources' = t.sources
        /\ UNCHANGED <<github, sent, owner, inbox, attempt>>
    BY DEF Deliver, Write
  <1>2. /\ ConnectionTypeOK /\ IdsTrue /\ ShapeTrue /\ LogTrue /\ SettledTrue /\ RemovedTrue
        /\ inbox = <<>> /\ wire \in Seq(Event) /\ attempt \in [Workspaces -> AttemptType]
        /\ sent \in Nat /\ Tables \in TablesType
    BY <1>1 DEF ConnectionIInv, OrderTrue, BoundTrue, ConnectionTypeOK, AttemptType, Tables,
                TablesType, SourceStates
  <1>3. /\ wire' \in Seq(Event) /\ Len(wire) = Len(wire') + 1 /\ e \in Event
        /\ \A i \in 1..Len(wire') : wire'[i] = wire[i + 1]
        /\ e.id = sent' - Len(wire') /\ Len(wire') <= sent'
        /\ \A i \in 1..Len(wire') : wire'[i].id = sent' - Len(wire') + i
    BY <1>1, <1>2, HeadOfWire
  <1>4. /\ row' # "absent"
        /\ e.kind = "deleted" => row' = "disconnected"
        /\ \A r \in Repos :
             /\ r \notin e.repos \/ e.kind = "deleted" => sources'[r] = sources[r]
             /\ Gives(e, r) => sources'[r] \in {sources[r], "connected"}
             /\ Gives(e, r) => sources'[r] # "absent"
             /\ Adds(e, r) => sources'[r] = "connected"
             /\ Takes(e, r) => sources'[r] # "connected"
             /\ sources'[r] = "disconnected" => Takes(e, r) \/ sources[r] = "disconnected"
    <2>1. Tables.sources = sources /\ Tables.row = row
      BY DEF Tables
    <2> QED BY <1>1, <1>2, <1>3, <2>1, EnqueueWrites
  <1>5. /\ Log = wire /\ Log' = wire'
    BY <1>1, <1>2, <1>3, ConcatEmptySeq DEF Log
  <1>6. /\ \A i \in 1..Len(Log') :
             /\ Log'[i].kind = "created" => i = 1
             /\ Log'[i].kind = "deleted" => i = Len(Log') /\ github'.installed = "no"
        /\ github'.installed = "never" => Log' = <<>>
        /\ LogTrue'
    <2>1. Len(Log) = Len(Log') + 1 /\ \A i \in 1..Len(Log') : Log'[i] = Log[i + 1]
      BY <1>3, <1>5
    <2> QED BY <1>1, <1>2, <2>1, LogEnd
  <1> HIDE DEF e, t
  <1>7. IdsTrue'
    <2>1. sent' - Len(wire') = (sent - Len(wire)) + 1
      BY <1>1, <1>2, <1>3
    <2>2. ASSUME NEW w \in Workspaces, NEW i \in 1..Len(attempt[w].events)
          PROVE  attempt[w].events[i].id <= sent' - Len(wire')
      <3> DEFINE events == attempt[w].events
      <3>1. events \in Seq(Event) /\ i \in 1..Len(events)
        BY <1>2 DEF AttemptType
      <3>2. events[i].id <= sent - Len(wire) /\ events[i].id \in Nat
        BY <1>2, <3>1, EventIds DEF IdsTrue
      <3> QED BY <1>2, <1>3, <2>1, <3>2
    <2> QED BY <1>1, <1>2, <1>3, <2>2 DEF IdsTrue
  <1>8. ShapeTrue'
    <2>1. ASSUME NEW i \in 1..Len(wire'), wire'[i].kind = "created" PROVE FALSE
      <3>1. i + 1 \in 1..Len(Log) /\ Log[i + 1].kind = "created" /\ i + 1 # 1
        BY <1>2, <1>3, <1>5, <2>1
      <3> QED BY <1>2, <3>1 DEF ShapeTrue
    <2>2. github.installed # "never"
      BY <1>2 DEF ConnectionIInv, ShapeTrue
    <2> QED BY <1>1, <1>2, <1>6, <2>1, <2>2 DEF ShapeTrue
  <1>9. SettledTrue'
    <2> SUFFICES ASSUME github'.installed = "yes", NEW r \in Repos,
                        \A i \in 1..Len(wire') : ~Touches(wire'[i], r)
                 PROVE  sources'[r] = "connected" <=> r \in github'.repos
      BY DEF SettledTrue
    <2>1. 1 \in 1..Len(Log) /\ Log[1] = e
      BY <1>3, <1>5 DEF e
    <2>2. ASSUME NEW j \in 1+1..Len(Log) PROVE ~Touches(Log[j], r)
      <3>1. j - 1 \in 1..Len(wire') /\ wire'[j - 1] = wire[(j - 1) + 1] /\ (j - 1) + 1 = j
        BY <1>2, <1>3, <1>5
      <3> QED BY <1>5, <3>1
    <2>3. /\ Gives(e, r) => r \in github.repos
          /\ Takes(e, r) => r \notin github.repos
      <3>1. \A j \in 1+1..Len(Log) : ~Takes(Log[j], r) /\ ~Adds(Log[j], r)
        BY <2>2 DEF Touches, Takes, Adds
      <3> QED BY <1>1, <1>2, <2>1, <3>1 DEF LogTrue
    <2>4. CASE Touches(e, r)
      <3>1. CASE Takes(e, r)
        BY <1>1, <1>4, <2>3, <3>1
      <3>2. CASE Adds(e, r)
        BY <1>1, <1>4, <2>3, <3>2 DEF Gives, Adds
      <3>3. CASE e.kind = "created" /\ r \in e.repos
        <4>1. Gives(e, r) /\ ~Takes(e, r) /\ sources[r] # "disconnected"
          BY <1>2, <1>3, <3>3 DEF Gives, Takes, ShapeTrue, e
        <4>2. sources'[r] \in SourceStates
          BY DEF ConnectionTypeOK, SourceStates
        <4> QED BY <1>1, <1>4, <2>3, <4>1, <4>2 DEF SourceStates
      <3> QED BY <2>4, <3>1, <3>2, <3>3 DEF Touches, Takes, Adds
    <2>5. CASE ~Touches(e, r)
      <3>1. \A i \in 1..Len(wire) : ~Touches(wire[i], r)
        <4> SUFFICES ASSUME NEW i \in 1..Len(wire) PROVE ~Touches(wire[i], r)
          OBVIOUS
        <4>1. i = 1 \/ i \in 1+1..Len(Log)
          BY <1>2, <1>5
        <4> QED BY <1>5, <2>2, <2>5, <4>1 DEF e
      <3>2. sources[r] = "connected" <=> r \in github.repos
        BY <1>1, <1>2, <3>1 DEF SettledTrue
      <3>3. r \notin e.repos \/ e.kind = "deleted" \/ Gives(e, r)
        BY <1>3, <2>5 DEF Touches, Gives, Event
      <3> QED BY <1>1, <1>4, <2>3, <3>2, <3>3
    <2> QED BY <2>4, <2>5
  <1>10. ListedTrue'
    BY <1>4 DEF ListedTrue
  <1>11. RemovedTrue'
    <2> SUFFICES ASSUME github.installed = "no"
                 PROVE  IF wire' = <<>> THEN row' = "disconnected"
                                        ELSE wire'[Len(wire')].kind = "deleted"
      BY <1>1, <1>4 DEF RemovedTrue
    <2>1. wire[Len(wire)].kind = "deleted"
      BY <1>2, <1>3 DEF RemovedTrue
    <2>2. CASE wire' = <<>>
      BY <1>3, <1>4, <2>1, <2>2 DEF e
    <2>3. CASE wire' # <<>>
      BY <1>3, <2>1, <2>3
    <2> QED BY <2>2, <2>3
  <1> QED BY <1>6, <1>7, <1>8, <1>9, <1>10, <1>11 DEF OrderTrue

LEMMA DeliveryStep ==
    ASSUME ConnectionIInv, NEW i \in DOMAIN wire, Deliver(i) \/ Lose(i)
    PROVE  ConnectionIInv'
  <1>1. ConnectionTypeOK' /\ BoundTrue'
    BY BrokenStep
  <1>2. ordered' => i = 1 /\ Deliver(1)
    BY DEF Deliver, Lose
  <1> QED BY <1>1, <1>2, StagedStep, HandledStep DEF ConnectionIInv

\* A staged delivery expires.
LEMMA ExpireStep ==
    ASSUME ConnectionIInv, ExpirePending
    PROVE  ConnectionIInv'
  <1>1. /\ inbox # <<>> /\ row = "absent" /\ inbox' = Tail(inbox)
        /\ UNCHANGED <<github, wire, sent, ordered, owner, row, sources, scans, intent, attempt>>
    BY DEF ExpirePending
  <1>2. /\ inbox \in Seq(Event) /\ wire \in Seq(Event) /\ attempt \in [Workspaces -> AttemptType]
        /\ Len(inbox) <= MaxInbox
    BY DEF ConnectionIInv, ConnectionTypeOK, AttemptType
  <1>3. /\ inbox' \in Seq(Event) /\ Len(inbox) = Len(inbox') + 1
        /\ \A i \in 1..Len(inbox') : inbox'[i] = inbox[i + 1]
    BY <1>1, <1>2
  <1>4. ConnectionTypeOK' /\ BoundTrue'
    BY <1>1, <1>2, <1>3, ConnectionAssumption DEF ConnectionIInv, ConnectionTypeOK, BoundTrue
  <1>5. \A w \in Workspaces : attempt[w].at # "idle" =>
          \E j \in 1..Len(attempt[w].events) : attempt[w].events[j] = inbox[1]
    BY <1>1, <1>2 DEF ExpirePending, Contains
  <1>6. ASSUME ordered PROVE OrderTrue'
    <2>1. IdsTrue /\ ShapeTrue /\ LogTrue /\ SettledTrue /\ ListedTrue /\ RemovedTrue
      BY <1>6 DEF ConnectionIInv, OrderTrue
    <2>2. IdsTrue'
      <3>1. ASSUME NEW i \in 1..Len(inbox') PROVE inbox'[i].id <= sent - Len(wire)
        <4>1. i + 1 \in 1..Len(inbox) /\ inbox'[i] = inbox[i + 1]
          BY <1>2, <1>3
        <4> QED BY <2>1, <4>1 DEF IdsTrue
      <3> QED BY <1>1, <2>1, <3>1 DEF IdsTrue
    <2>3. /\ \A i \in 1..Len(Log') :
               /\ Log'[i].kind = "created" => i = 1
               /\ Log'[i].kind = "deleted" => i = Len(Log') /\ github'.installed = "no"
          /\ github'.installed = "never" => Log' = <<>>
          /\ LogTrue'
      <3>1. Len(Log) = Len(inbox) + Len(wire) /\ Len(Log') = Len(inbox') + Len(wire)
        BY <1>1, <1>2, <1>3, ConcatProperties DEF Log
      <3>2. ASSUME NEW i \in 1..Len(Log') PROVE Log'[i] = Log[i + 1]
        <4>1. i + 1 \in 1..Len(inbox) + Len(wire) /\ i \in 1..Len(inbox') + Len(wire)
          BY <1>2, <1>3, <3>1
        <4>2. Log[i + 1] = IF i + 1 <= Len(inbox) THEN inbox[i + 1] ELSE wire[(i + 1) - Len(inbox)]
          BY <1>2, <4>1, ConcatProperties DEF Log
        <4>3. Log'[i] = IF i <= Len(inbox') THEN inbox'[i] ELSE wire[i - Len(inbox')]
          BY <1>1, <1>2, <1>3, <4>1, ConcatProperties DEF Log
        <4>4. CASE i \in 1..Len(inbox')
          BY <1>2, <1>3, <4>2, <4>3, <4>4
        <4>5. CASE i \notin 1..Len(inbox')
          <5>1. (i + 1) - Len(inbox) = i - Len(inbox') /\ ~(i + 1 <= Len(inbox)) /\ ~(i <= Len(inbox'))
            BY <1>2, <1>3, <4>1, <4>5
          <5> QED BY <4>2, <4>3, <5>1
        <4> QED BY <4>4, <4>5
      <3>3. Len(Log) = Len(Log') + 1
        BY <1>2, <1>3, <3>1
      <3> QED BY <1>1, <1>4, <2>1, <3>2, <3>3, LogEnd DEF ConnectionIInv
    <2>4. ShapeTrue'
      BY <1>1, <2>1, <2>3 DEF ShapeTrue
    <2>5. SettledTrue'
      BY <1>1, <2>1 DEF SettledTrue
    <2>6. ListedTrue'
      <3> SUFFICES ASSUME github'.installed = "yes", row' = "absent", NEW w \in Workspaces,
                          attempt'[w].at = "listed", NEW r \in Repos
                   PROVE  \/ r \in attempt'[w].repos <=> r \in github'.repos
                          \/ \E i \in 1..Len(wire') : Touches(wire'[i], r)
                          \/ \E i \in 1..Len(inbox') : \A j \in 1..Len(attempt'[w].events) :
                               inbox'[i] # attempt'[w].events[j]
        BY Zenon DEF ListedTrue
      <3>1. \/ r \in attempt[w].repos <=> r \in github.repos
            \/ \E i \in 1..Len(wire) : Touches(wire[i], r)
            \/ \E i \in 1..Len(inbox) : \A j \in 1..Len(attempt[w].events) :
                 inbox[i] # attempt[w].events[j]
        BY <1>1, <2>1, Zenon DEF ListedTrue
      <3>2. ASSUME NEW i \in 1..Len(inbox), \A j \in 1..Len(attempt[w].events) :
                     inbox[i] # attempt[w].events[j]
            PROVE  \E h \in 1..Len(inbox') : \A j \in 1..Len(attempt'[w].events) :
                     inbox'[h] # attempt'[w].events[j]
        <4>1. i # 1
          BY <1>1, <1>5, <3>2
        <4>2. i - 1 \in 1..Len(inbox') /\ inbox'[i - 1] = inbox[(i - 1) + 1] /\ (i - 1) + 1 = i
          BY <1>2, <1>3, <4>1
        <4> QED BY <1>1, <3>2, <4>2
      <3> QED BY <1>1, <3>1, <3>2
    <2>7. RemovedTrue'
      <3> SUFFICES ASSUME github.installed = "no", wire = <<>>, NEW w \in Workspaces,
                          attempt[w].at # "idle"
                   PROVE  \E i \in 1..Len(inbox') : inbox'[i].kind = "deleted"
        BY <1>1, <2>1 DEF RemovedTrue
      <3>1. PICK i \in 1..Len(inbox) : inbox[i].kind = "deleted"
        BY <1>1, <2>1 DEF RemovedTrue
      <3>2. i # 1
        BY <1>5, <2>1, <3>1 DEF ShapeTrue
      <3>3. i - 1 \in 1..Len(inbox') /\ inbox'[i - 1] = inbox[(i - 1) + 1] /\ (i - 1) + 1 = i
        BY <1>2, <1>3, <3>2
      <3> QED BY <3>1, <3>3
    <2> QED BY <2>2, <2>3, <2>4, <2>5, <2>6, <2>7 DEF OrderTrue
  <1> QED BY <1>1, <1>4, <1>6 DEF ConnectionIInv

-----------------------------------------------------------------------------
(* Connecting.                                                              *)

\* A step of the connection requests, or none.
LEMMA IntentStep ==
    ASSUME ConnectionIInv, intent' \in [Workspaces -> Intents],
           UNCHANGED <<github, wire, sent, ordered, db, attempt>>
    PROVE  ConnectionIInv'
  <1>1. UNCHANGED <<github, wire, sent, ordered, inbox, owner, row, sources, scans, attempt>>
    BY DEF db
  <1>2. ConnectionTypeOK' /\ BoundTrue'
    BY <1>1 DEF ConnectionIInv, ConnectionTypeOK, BoundTrue
  <1>3. IdsTrue => IdsTrue'
    BY <1>1 DEF IdsTrue
  <1>4. ShapeTrue => ShapeTrue'
    BY <1>1 DEF ShapeTrue, Log
  <1>5. (LogTrue => LogTrue') /\ (SettledTrue => SettledTrue')
    BY <1>1 DEF LogTrue, Log, SettledTrue
  <1>6. ListedTrue => ListedTrue'
    BY <1>1 DEF ListedTrue
  <1>7. RemovedTrue => RemovedTrue'
    BY <1>1 DEF RemovedTrue
  <1> QED BY <1>1, <1>2, <1>3, <1>4, <1>5, <1>6, <1>7 DEF ConnectionIInv, OrderTrue

\* An attempt starts, goes on or ends, and writes nothing.
LEMMA AttemptStep ==
    ASSUME ConnectionIInv, NEW w \in Workspaces, NEW a \in AttemptType,
           attempt' \in [Workspaces -> AttemptType], attempt'[w] = a,
           \A v \in Workspaces \ {w} : attempt'[v] = attempt[v],
           UNCHANGED <<github, wire, sent, ordered, db, intent>>,
           a.at # "idle" => github.installed = "yes",
           a.at = "listed" => a.repos = github.repos,
           \/ a.events = <<>> \/ a.events = attempt[w].events
           \/ a.events = inbox /\ \A i \in DOMAIN inbox : inbox[i].kind # "deleted"
    PROVE  ConnectionIInv'
  <1>1. UNCHANGED <<github, wire, sent, ordered, inbox, owner, row, sources, scans, intent>>
    BY DEF db
  <1>2. /\ inbox \in Seq(Event) /\ wire \in Seq(Event) /\ attempt \in [Workspaces -> AttemptType]
        /\ \A v \in Workspaces : attempt'[v] = IF v = w THEN a ELSE attempt[v]
    BY DEF ConnectionIInv, ConnectionTypeOK, AttemptType
  <1>3. ConnectionTypeOK' /\ BoundTrue'
    BY <1>1, <1>2 DEF ConnectionIInv, ConnectionTypeOK, BoundTrue, AttemptType
  <1>4. ASSUME ordered PROVE OrderTrue'
    <2>1. IdsTrue /\ ShapeTrue /\ LogTrue /\ SettledTrue /\ ListedTrue /\ RemovedTrue
      BY <1>4 DEF ConnectionIInv, OrderTrue
    <2>2. ASSUME NEW i \in 1..Len(a.events)
          PROVE  a.events[i].id <= sent - Len(wire) /\ a.events[i].kind # "deleted"
      BY <1>2, <2>1 DEF IdsTrue, ShapeTrue
    <2>3. IdsTrue'
      BY <1>1, <1>2, <2>1, <2>2 DEF IdsTrue
    <2>4. ShapeTrue'
      BY <1>1, <1>2, <2>1, <2>2 DEF ShapeTrue, Log
    <2>5. LogTrue' /\ SettledTrue'
      BY <1>1, <2>1 DEF LogTrue, Log, SettledTrue
    <2>6. ListedTrue'
      <3> SUFFICES ASSUME github'.installed = "yes", row' = "absent", NEW v \in Workspaces,
                          attempt'[v].at = "listed", NEW r \in Repos
                   PROVE  \/ r \in attempt'[v].repos <=> r \in github'.repos
                          \/ \E i \in 1..Len(wire') : Touches(wire'[i], r)
                          \/ \E i \in 1..Len(inbox') : \A j \in 1..Len(attempt'[v].events) :
                               inbox'[i] # attempt'[v].events[j]
        BY Zenon DEF ListedTrue
      <3>1. CASE v = w
        BY <1>1, <1>2, <3>1
      <3>2. CASE v # w
        <4>1. \/ r \in attempt[v].repos <=> r \in github.repos
              \/ \E i \in 1..Len(wire) : Touches(wire[i], r)
              \/ \E i \in 1..Len(inbox) : \A j \in 1..Len(attempt[v].events) :
                   inbox[i] # attempt[v].events[j]
          BY <1>1, <1>2, <2>1, <3>2 DEF ListedTrue
        <4> QED BY <1>1, <1>2, <3>2, <4>1
      <3> QED BY <3>1, <3>2
    <2>7. RemovedTrue'
      BY <1>1, <1>2, <2>1 DEF RemovedTrue
    <2> QED BY <2>3, <2>4, <2>5, <2>6, <2>7 DEF OrderTrue
  <1> QED BY <1>1, <1>3, <1>4 DEF ConnectionIInv

LEMMA RequestStep ==
    ASSUME ConnectionIInv, NEW w \in Workspaces,
           \/ CreateGithubConnectionIntent(w) \/ ExpireIntent(w) \/ ReadPending(w)
           \/ ListInstallationRepositories(w) \/ Abandon(w)
    PROVE  ConnectionIInv'
  <1>1. /\ attempt \in [Workspaces -> AttemptType] /\ intent \in [Workspaces -> Intents]
        /\ inbox \in Seq(Event) /\ github.repos \in SUBSET Repos
    BY DEF ConnectionIInv, ConnectionTypeOK, AttemptType
  <1>2. CASE CreateGithubConnectionIntent(w) \/ ExpireIntent(w)
    <2>1. intent' \in [Workspaces -> Intents]
      BY <1>1, <1>2 DEF CreateGithubConnectionIntent, ExpireIntent, Intents
    <2> QED BY <1>2, <2>1, IntentStep DEF CreateGithubConnectionIntent, ExpireIntent
  <1>3. CASE ReadPending(w)
    <2> DEFINE a == [at |-> "read", events |-> inbox, repos |-> {}]
    <2>1. /\ attempt' = [attempt EXCEPT ![w] = a] /\ github.installed = "yes"
          /\ \A i \in DOMAIN inbox : inbox[i].kind # "deleted"
          /\ UNCHANGED <<github, wire, sent, ordered, db, intent>>
      BY <1>3 DEF ReadPending
    <2>2. a \in AttemptType /\ a.at = "read" /\ a.events = inbox
      BY <1>1 DEF AttemptType
    <2> HIDE DEF a
    <2>3. /\ attempt' \in [Workspaces -> AttemptType] /\ attempt'[w] = a
          /\ \A v \in Workspaces \ {w} : attempt'[v] = attempt[v]
      BY <1>1, <2>1, <2>2
    <2> QED BY <2>1, <2>2, <2>3, AttemptStep
  <1>4. CASE ListInstallationRepositories(w)
    <2>1. /\ attempt' = [attempt EXCEPT ![w].at = "listed", ![w].repos = github.repos]
          /\ github.installed = "yes"
          /\ UNCHANGED <<github, wire, sent, ordered, db, intent>>
      BY <1>4 DEF ListInstallationRepositories
    <2> DEFINE a == attempt'[w]
    <2>2. attempt' \in [Workspaces -> AttemptType]
      BY <1>1, <2>1 DEF AttemptType
    <2>3. \A v \in Workspaces \ {w} : attempt'[v] = attempt[v]
      BY <1>1, <2>1
    <2>4. /\ a \in AttemptType /\ a.events = attempt[w].events /\ a.repos = github.repos
      BY <1>1, <2>1, <2>2 DEF AttemptType
    <2> HIDE DEF a
    <2>5. attempt'[w] = a
      BY DEF a
    <2> QED BY <2>1, <2>2, <2>3, <2>4, <2>5, AttemptStep
  <1>5. CASE Abandon(w)
    <2>1. NoAttempt \in AttemptType /\ NoAttempt.at = "idle" /\ NoAttempt.events = <<>>
      BY DEF NoAttempt, AttemptType
    <2>2. attempt' = [attempt EXCEPT ![w] = NoAttempt] /\ UNCHANGED <<github, wire, sent, ordered, db, intent>>
      BY <1>5 DEF Abandon
    <2>3. /\ attempt' \in [Workspaces -> AttemptType] /\ attempt'[w] = NoAttempt
          /\ \A v \in Workspaces \ {w} : attempt'[v] = attempt[v]
      BY <1>1, <2>1, <2>2
    <2> QED BY <2>1, <2>2, <2>3, AttemptStep
  <1> QED BY <1>2, <1>3, <1>4, <1>5

-----------------------------------------------------------------------------
(* The replay.                                                              *)

\* The tables after each of the first webhooks.
Replays(f, base, events, repos) ==
    f = [n \in 0..Len(events) |->
           IF n = 0 THEN base ELSE EnqueueFromWebhook(f[n - 1], Filtered(events[n], repos))]

\* The recursion of Replay has a
\* solution, which one webhook more extends.
LEMMA ReplayExists ==
    ASSUME NEW base, NEW events, Len(events) \in Nat, NEW repos
    PROVE  \E f : Replays(f, base, events, repos)
  <1> DEFINE After(x, k) == EnqueueFromWebhook(x, Filtered(events[k], repos))
             Solves(f, n) == f = [k \in 0..n |-> IF k = 0 THEN base ELSE After(f[k - 1], k)]
             T == {n \in Nat : \E f : Solves(f, n)}
  <1> HIDE DEF After
  <1>1. 0 \in T
    <2>1. Solves([k \in 0..0 |-> base], 0)
      OBVIOUS
    <2> QED BY <2>1
  <1>2. ASSUME NEW n \in Nat, n \in T PROVE n + 1 \in T
    <2>1. PICK f : Solves(f, n)
      BY <1>2
    <2> DEFINE g == [k \in 0..n+1 |-> IF k = 0 THEN base ELSE After(f[k - 1], k)]
    <2>2. ASSUME NEW k \in 0..n PROVE g[k] = f[k]
      BY <2>1
    <2>3. ASSUME NEW k \in 0..n+1, k # 0 PROVE g[k - 1] = f[k - 1]
      <3>1. k - 1 \in 0..n
        BY <2>3
      <3> QED BY <2>2, <3>1
    <2>4. Solves(g, n + 1)
      BY <2>3
    <2> HIDE DEF g, Solves
    <2> QED BY <2>4
  <1> HIDE DEF T
  <1>3. Len(events) \in T
    BY <1>1, <1>2, NatSetInduction
  <1> QED BY <1>3 DEF T, After, Replays

\* Binding replays what was read over an inventory: a repository outside it is not
\* written, and one that is left disconnected was removed and not added again.
LEMMA ReplayWrites ==
    ASSUME ConnectionTypeOK, BoundTrue, row = "absent",
           NEW events \in Seq(Event), NEW repos \in SUBSET Repos
    PROVE  LET t == Replay(events, repos) IN
           /\ t \in TablesType /\ t.row # "absent"
           /\ \A r \in Repos :
                /\ r \notin repos => t.sources[r] = "absent"
                /\ t.sources[r] = "disconnected" =>
                     \E i \in 1..Len(events) :
                       Takes(events[i], r) /\ \A j \in i+1..Len(events) : ~Adds(events[j], r)
  <1> DEFINE base == [Tables EXCEPT !.row = "active"]
  <1>1. /\ base \in TablesType /\ base.row # "absent"
        /\ \A r \in Repos : base.sources[r] = "absent"
    BY DEF ConnectionTypeOK, BoundTrue, Tables, TablesType, SourceStates
  <1>2. Len(events) \in Nat
    OBVIOUS
  <1>3. PICK f : Replays(f, base, events, repos) /\ Replay(events, repos) = f[Len(events)]
    <2>1. \E f : Replays(f, base, events, repos)
      BY <1>2, ReplayExists
    <2> QED BY <2>1 DEF Replay, Replays
  <1> HIDE DEF base
  <1> DEFINE Holds(n) ==
               /\ f[n] \in TablesType /\ f[n].row # "absent"
               /\ \A r \in Repos :
                    /\ r \notin repos => f[n].sources[r] = "absent"
                    /\ f[n].sources[r] = "disconnected" =>
                         \E i \in 1..n :
                           Takes(events[i], r) /\ \A j \in i+1..n : ~Adds(events[j], r)
             T == {n \in Nat : n <= Len(events) => Holds(n)}
  <1>4. 0 \in T
    <2>1. f[0] = base
      BY <1>2, <1>3 DEF Replays
    <2> QED BY <1>1, <2>1
  <1>5. ASSUME NEW n \in Nat, n \in T PROVE n + 1 \in T
    <2> SUFFICES ASSUME n + 1 <= Len(events) PROVE Holds(n + 1)
      OBVIOUS
    <2> DEFINE e == events[n + 1]
               t == f[n + 1]
    <2>1. Holds(n)
      BY <1>2, <1>5
    <2>2. n + 1 \in 0..Len(events) /\ n + 1 # 0 /\ (n + 1) - 1 = n /\ n + 1 \in 1..Len(events)
      BY <1>2
    <2>3. t = EnqueueFromWebhook(f[n], Filtered(e, repos))
      BY <1>3, <2>2 DEF Replays
    <2>4. /\ e \in Event /\ Filtered(e, repos) \in Event
          /\ Filtered(e, repos).kind = e.kind /\ Filtered(e, repos).repos = e.repos \cap repos
      <3>1. e \in Event
        BY <2>2
      <3> HIDE DEF e
      <3>2. Filtered(e, repos) = [e EXCEPT !.repos = e.repos \cap repos]
        BY DEF Filtered
      <3> QED BY <3>1, <3>2 DEF Event
    <2> HIDE DEF e, t
    <2>5. /\ t \in TablesType
          /\ f[n].row # "absent" => t.row # "absent"
          /\ \A r \in Repos :
               /\ r \notin e.repos \cap repos => t.sources[r] = f[n].sources[r]
               /\ e.kind = "added" /\ r \in e.repos \cap repos => t.sources[r] = "connected"
               /\ t.sources[r] = "disconnected" =>
                    \/ e.kind = "removed" /\ r \in e.repos \cap repos
                    \/ f[n].sources[r] = "disconnected"
      <3> DEFINE d == Filtered(e, repos)
      <3> HIDE DEF d
      <3>1. t = EnqueueFromWebhook(f[n], d) /\ d \in Event /\ f[n] \in TablesType
        BY <2>1, <2>3, <2>4 DEF d
      <3>2. d.kind = e.kind /\ d.repos = e.repos \cap repos
        BY <2>4 DEF d
      <3> HIDE DEF T, Holds
      <3>3. /\ t \in TablesType
            /\ f[n].row # "absent" => t.row # "absent"
            /\ \A r \in Repos :
                 /\ r \notin d.repos => t.sources[r] = f[n].sources[r]
                 /\ Adds(d, r) => t.sources[r] = "connected"
                 /\ t.sources[r] = "disconnected" => Takes(d, r) \/ f[n].sources[r] = "disconnected"
        BY <3>1, EnqueueWrites
      <3> QED BY <3>2, <3>3 DEF Adds, Takes
    <2>6. ASSUME NEW r \in Repos, t.sources[r] = "disconnected"
          PROVE  \E i \in 1..n+1 : Takes(events[i], r) /\ \A j \in i+1..n+1 : ~Adds(events[j], r)
      <3>1. CASE e.kind = "removed" /\ r \in e.repos
        BY <3>1 DEF Takes, e
      <3>2. CASE f[n].sources[r] = "disconnected"
        <4>1. PICK i \in 1..n : Takes(events[i], r) /\ \A j \in i+1..n : ~Adds(events[j], r)
          BY <2>1, <3>2
        <4>2. r \in repos
          BY <2>1, <3>2
        <4>3. ~Adds(events[n + 1], r)
          BY <2>5, <2>6, <4>2 DEF Adds, e
        <4>4. \A j \in i+1..n+1 : j \in i+1..n \/ j = n + 1
          OBVIOUS
        <4>5. i \in 1..n+1
          OBVIOUS
        <4> QED BY <4>1, <4>3, <4>4, <4>5
      <3> QED BY <2>5, <2>6, <3>1, <3>2
    <2>7. \A r \in Repos : r \notin repos => t.sources[r] = "absent"
      BY <2>1, <2>5
    <2> QED BY <2>1, <2>5, <2>6, <2>7 DEF t
  <1> HIDE DEF T
  <1>6. Len(events) \in T
    BY <1>2, <1>4, <1>5, NatSetInduction
  <1> QED BY <1>2, <1>3, <1>6 DEF T

\* The binding marks as replayed the whole inbox, which is what it has read.
LEMMA AllReplayed ==
    ASSUME inbox \in Seq(Event), NEW w \in Workspaces, inbox = attempt[w].events
    PROVE  SubSeq(inbox, Cardinality(Replayed(w)) + 1, Len(inbox)) = <<>>
  <1>1. Replayed(w) = 1..Len(inbox)
    BY DEF Replayed, Contains
  <1>2. Cardinality(1..Len(inbox)) = Len(inbox)
    BY FS_Interval
  <1> QED BY <1>1, <1>2

LEMMA BindStep ==
    ASSUME ConnectionIInv, NEW w \in Workspaces, Bind(w)
    PROVE  ConnectionIInv'
  <1> DEFINE events == attempt[w].events
             repos == attempt[w].repos
             t == Replay(events, repos)
  <1>1. /\ attempt[w].at = "listed" /\ row = "absent" /\ inbox = events
        /\ owner' = w /\ UNCHANGED <<github, wire, sent, ordered>>
        /\ intent' = [intent EXCEPT ![w] = "used"]
        /\ attempt' = [attempt EXCEPT ![w] = NoAttempt]
        /\ Write([t EXCEPT !.sources = Upsert(@, repos, FALSE), !.scans = @ \cup repos])
        /\ inbox' = SubSeq(inbox, Cardinality(Replayed(w)) + 1, Len(inbox))
    BY DEF Bind, Unchanged
  <1>2. /\ inbox \in Seq(Event) /\ wire \in Seq(Event) /\ ConnectionTypeOK /\ BoundTrue
        /\ events \in Seq(Event) /\ repos \in SUBSET Repos
        /\ attempt \in [Workspaces -> AttemptType] /\ intent \in [Workspaces -> Intents]
    BY DEF ConnectionIInv, ConnectionTypeOK, AttemptType
  <1>3. inbox' = <<>>
    BY <1>1, <1>2, AllReplayed
  <1> HIDE DEF events, repos
  <1>4. /\ t \in TablesType /\ t.row # "absent"
        /\ \A r \in Repos :
             /\ r \notin repos => t.sources[r] = "absent"
             /\ t.sources[r] = "disconnected" =>
                  \E i \in 1..Len(events) :
                    Takes(events[i], r) /\ \A j \in i+1..Len(events) : ~Adds(events[j], r)
    BY <1>1, <1>2, ReplayWrites
  <1> HIDE DEF t
  <1>5. row' = t.row /\ sources' = Upsert(t.sources, repos, FALSE) /\ scans' = t.scans \cup repos
    BY <1>1, <1>4 DEF Write, TablesType
  <1>6. /\ NoAttempt \in AttemptType /\ NoAttempt.at = "idle" /\ Len(NoAttempt.events) = 0
        /\ attempt' \in [Workspaces -> AttemptType] /\ attempt'[w] = NoAttempt
        /\ \A v \in Workspaces \ {w} : attempt'[v] = attempt[v]
    <2>1. NoAttempt \in AttemptType /\ NoAttempt.at = "idle" /\ Len(NoAttempt.events) = 0
      BY DEF NoAttempt, AttemptType
    <2> QED BY <1>1, <1>2, <2>1
  <1>7. ConnectionTypeOK'
    <2>1. sources' \in [Repos -> SourceStates] /\ scans' \subseteq Repos
          /\ row' \in {"absent", "active", "disconnected"}
      BY <1>2, <1>4, <1>5 DEF TablesType, Upsert, SourceStates
    <2>2. intent' \in [Workspaces -> Intents]
      BY <1>1, <1>2 DEF Intents
    <2>3. inbox' \in Seq(Event) /\ Len(inbox') <= MaxInbox
      BY <1>3, ConnectionAssumption
    <2> QED BY <1>1, <1>6, <2>1, <2>2, <2>3
         DEF ConnectionIInv, ConnectionTypeOK, SourceStates, AttemptType
  <1>8. BoundTrue'
    BY <1>1, <1>3, <1>4, <1>5, NoneAssumption DEF ConnectionIInv, BoundTrue
  <1>9. /\ Log \in Seq(Event) /\ Len(Log) = Len(inbox) + Len(wire)
        /\ \A i \in 1..Len(inbox) : Log[i] = inbox[i]
        /\ \A i \in 1..Len(wire) : Log[Len(inbox) + i] = wire[i]
    BY <1>2, LogIs
  <1>10. Log' = wire
    <2>1. <<>> \o wire = wire
      BY <1>2, ConcatEmptySeq
    <2> QED BY <1>1, <1>3, <2>1 DEF Log
  <1>11. ASSUME ordered PROVE OrderTrue'
    <2>1. IdsTrue /\ ShapeTrue /\ LogTrue /\ SettledTrue /\ ListedTrue /\ RemovedTrue
      BY <1>11 DEF ConnectionIInv, OrderTrue
    <2>2. /\ \A i \in 1..Len(Log') :
                /\ Log'[i].kind = "created" => i = 1
                /\ Log'[i].kind = "deleted" => i = Len(Log') /\ github'.installed = "no"
          /\ LogTrue'
      <3>1. Len(inbox) \in Nat /\ Len(Log) = Len(Log') + Len(inbox)
        BY <1>2, <1>9, <1>10
      <3>2. \A i \in 1..Len(Log') : Log'[i] = Log[i + Len(inbox)]
        BY <1>2, <1>9, <1>10
      <3> QED BY <1>1, <1>2, <1>7, <2>1, <3>1, <3>2, LogEnd
    <2>3. IdsTrue'
      <3>1. ASSUME NEW v \in Workspaces, NEW i \in 1..Len(attempt'[v].events)
            PROVE  attempt'[v].events[i].id <= sent - Len(wire)
        BY <1>6, <2>1 DEF IdsTrue
      <3>2. \A i \in 1..Len(inbox') : inbox'[i].id <= sent - Len(wire)
        BY <1>3
      <3>3. sent' = sent /\ wire' = wire
        BY <1>1
      <3> QED BY <2>1, <3>1, <3>2, <3>3, Zenon DEF IdsTrue
    <2>4. ShapeTrue'
      <3>1. github.installed # "never"
        BY <1>1, <2>1 DEF ShapeTrue
      <3>2. ASSUME NEW i \in 1..Len(wire'), wire'[i].kind = "created", NEW r \in Repos
            PROVE  sources'[r] # "disconnected"
        <4>1. Log[Len(inbox) + i].kind = "created" /\ Len(inbox) + i \in 1..Len(Log)
          BY <1>1, <1>2, <1>9, <3>2
        <4>2. Len(inbox) + i = 1
          BY <2>1, <4>1 DEF ShapeTrue
        <4>3. Len(events) = 0
          BY <1>1, <1>2, <4>2
        <4>4. t.sources[r] # "disconnected"
          BY <1>4, <4>3
        <4> QED BY <1>5, <4>4 DEF Upsert
      <3>3. ASSUME NEW v \in Workspaces, NEW i \in 1..Len(attempt'[v].events)
            PROVE  attempt'[v].events[i].kind # "deleted"
        BY <1>6, <2>1 DEF ShapeTrue
      <3> QED BY <1>1, <2>2, <3>1, <3>2, <3>3 DEF ShapeTrue
    <2>5. SettledTrue'
      <3> SUFFICES ASSUME github.installed = "yes", NEW r \in Repos,
                          \A i \in 1..Len(wire) : ~Touches(wire[i], r)
                   PROVE  sources'[r] = "connected" <=> r \in github.repos
        BY <1>1 DEF SettledTrue
      <3>1. r \in repos <=> r \in github.repos
        <4>1. \/ r \in attempt[w].repos <=> r \in github.repos
              \/ \E i \in 1..Len(wire) : Touches(wire[i], r)
              \/ \E i \in 1..Len(inbox) : \A j \in 1..Len(attempt[w].events) :
                   inbox[i] # attempt[w].events[j]
          BY <1>1, <2>1, Zenon DEF ListedTrue
        <4> QED BY <1>1, <4>1 DEF events, repos
      <3>2. t.sources \in [Repos -> SourceStates]
        BY <1>4 DEF TablesType
      <3>3. CASE r \notin repos
        BY <1>4, <1>5, <3>1, <3>3 DEF Upsert
      <3>4. CASE r \in repos
        <4>1. ASSUME t.sources[r] = "disconnected" PROVE FALSE
          <5>1. PICK i \in 1..Len(inbox) :
                  Takes(inbox[i], r) /\ \A j \in i+1..Len(inbox) : ~Adds(inbox[j], r)
            BY <1>1, <1>4, <4>1
          <5>2. i \in 1..Len(Log) /\ Takes(Log[i], r)
            BY <1>2, <1>9, <5>1
          <5>3. ASSUME NEW j \in i+1..Len(Log) PROVE ~Adds(Log[j], r)
            <6>1. CASE j <= Len(inbox)
              BY <1>2, <1>9, <5>1, <6>1
            <6>2. CASE j > Len(inbox)
              <7>1. j - Len(inbox) \in 1..Len(wire) /\ Len(inbox) + (j - Len(inbox)) = j
                BY <1>2, <1>9, <6>2
              <7>2. Log[j] = wire[j - Len(inbox)]
                BY <1>9, <7>1
              <7> QED BY <7>1, <7>2 DEF Adds, Touches
            <6> QED BY <1>2, <1>9, <6>1, <6>2
          <5>4. r \notin github.repos
            BY <2>1, <5>2, <5>3 DEF LogTrue
          <5> QED BY <3>1, <3>4, <5>4
        <4> QED BY <1>5, <3>1, <3>2, <3>4, <4>1 DEF Upsert, SourceStates
      <3> QED BY <3>3, <3>4
    <2>6. ListedTrue'
      BY <1>4, <1>5 DEF ListedTrue
    <2>7. RemovedTrue'
      <3>1. ASSUME github.installed = "no", wire = <<>> PROVE FALSE
        <4>1. PICK i \in 1..Len(inbox) : inbox[i].kind = "deleted"
          BY <1>1, <2>1, <3>1 DEF RemovedTrue
        <4> QED BY <1>1, <2>1, <4>1 DEF ShapeTrue, events
      <3> QED BY <1>1, <2>1, <3>1 DEF RemovedTrue
    <2> QED BY <2>2, <2>3, <2>4, <2>5, <2>6, <2>7 DEF OrderTrue
  <1> QED BY <1>1, <1>7, <1>8, <1>11 DEF ConnectionIInv

-----------------------------------------------------------------------------
(* The specification.                                                       *)

LEMMA ConnectionStep ==
    ASSUME ConnectionIInv, [Next]_vars
    PROVE  ConnectionIInv'
  <1>1. CASE UNCHANGED vars
    <2>1. intent' \in [Workspaces -> Intents]
      BY <1>1 DEF vars, ConnectionIInv, ConnectionTypeOK
    <2> QED BY <1>1, <2>1, IntentStep DEF vars, db
  <1>2. CASE \/ Install \/ Uninstall
             \/ \E r \in Repos : AddRepository(r) \/ RemoveRepository(r) \/ Release(r)
    BY <1>2, GithubStep
  <1>3. CASE ExpirePending
    BY <1>3, ExpireStep
  <1>4. ASSUME NEW i \in DOMAIN wire, Deliver(i) \/ Lose(i) PROVE ConnectionIInv'
    BY <1>4, DeliveryStep
  <1>5. ASSUME NEW w \in Workspaces,
               \/ CreateGithubConnectionIntent(w) \/ ExpireIntent(w) \/ ReadPending(w)
               \/ ListInstallationRepositories(w) \/ Abandon(w)
        PROVE  ConnectionIInv'
    BY <1>5, RequestStep
  <1>6. ASSUME NEW w \in Workspaces, Bind(w) PROVE ConnectionIInv'
    BY <1>6, BindStep
  <1> QED BY <1>1, <1>2, <1>3, <1>4, <1>5, <1>6 DEF Next

THEOREM ConnectionInvariant == Spec => []ConnectionIInv
  <1>1. Init => ConnectionIInv
    BY ConnectionInit
  <1>2. ConnectionIInv /\ [Next]_vars => ConnectionIInv'
    BY ConnectionStep
  <1> QED BY <1>1, <1>2, PTL DEF Spec

\* Every variable keeps its type, and the inbox its limit, whatever GitHub sends.
THEOREM ConnectionTypesCorrect == Spec => []ConnectionTypeOK
  <1>1. ConnectionIInv => ConnectionTypeOK
    BY DEF ConnectionIInv
  <1> QED BY <1>1, ConnectionInvariant, PTL

\* A delivery that arrives while the installation is being connected is replayed
\* by the binding or handled after it, also when deliveries are lost or overtaken.
THEOREM NothingIsLeftInInbox == Spec => []NothingLeftInInbox
  <1>1. ConnectionIInv => NothingLeftInInbox
    BY DEF ConnectionIInv, BoundTrue, NothingLeftInInbox
  <1> QED BY <1>1, ConnectionInvariant, PTL

\* Webhooks handled in order leave the sources that GitHub gives, wherever among
\* them the installation was listed and bound.
THEOREM SourcesSettleAfterBinding == Spec => []SourcesSettle
  <1>1. ASSUME ConnectionIInv PROVE SourcesSettle
    <2> SUFFICES ASSUME owner # None, ordered, wire = <<>>
                 PROVE  IF github.installed = "yes" THEN Connected = github.repos
                                                    ELSE row = "disconnected"
      BY DEF SourcesSettle
    <2>1. row # "absent" /\ ShapeTrue /\ SettledTrue /\ RemovedTrue
      BY <1>1 DEF ConnectionIInv, BoundTrue, OrderTrue
    <2>2. github.installed \in {"never", "yes", "no"} /\ github.repos \in SUBSET Repos
      BY <1>1 DEF ConnectionIInv, ConnectionTypeOK
    <2>3. CASE github.installed = "yes"
      <3>1. \A r \in Repos : sources[r] = "connected" <=> r \in github.repos
        BY <2>1, <2>3 DEF SettledTrue
      <3> QED BY <2>2, <2>3, <3>1 DEF Connected
    <2>4. CASE github.installed = "no"
      BY <2>1, <2>4 DEF RemovedTrue
    <2> QED BY <2>1, <2>2, <2>3, <2>4 DEF ShapeTrue
  <1> QED BY <1>1, ConnectionInvariant, PTL

\* Of the workspaces that connect an installation at the same time, the first to
\* bind it keeps it.
THEOREM OwnerIsKept == Spec => OwnerKept
  <1>1. ASSUME ConnectionIInv, [Next]_vars, owner # None PROVE owner' = owner
    <2>1. row # "absent"
      BY <1>1 DEF ConnectionIInv, BoundTrue
    <2>2. ASSUME NEW w \in Workspaces, Bind(w) PROVE FALSE
      BY <2>1, <2>2 DEF Bind, Unchanged
    <2> QED BY <1>1, <2>2
         DEF Next, vars, db, Install, Uninstall, AddRepository, RemoveRepository, Release, Send,
             ExpirePending, Deliver, Lose, CreateGithubConnectionIntent, ExpireIntent, ReadPending,
             ListInstallationRepositories, Abandon
  <1>2. ConnectionIInv /\ [Next]_vars => [owner # None => owner' = owner]_vars
    BY <1>1
  <1> QED BY <1>2, ConnectionInvariant, PTL DEF Spec, OwnerKept
=============================================================================
