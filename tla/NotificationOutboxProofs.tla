----------------------- MODULE NotificationOutboxProofs -----------------------
(* Theorems about NotificationOutbox, for any destinations, alerts, tests and *)
(* senders.                                                                 *)
EXTENDS NotificationOutbox, TLAPS

-----------------------------------------------------------------------------
(* Types.                                                                   *)

LEMMA KeyParts ==
    ASSUME NEW k \in Notices
    PROVE  k[1] \in Dests /\ k[2] \in Alerts \cup Tests
  BY DEF Notices

LEMMA NewNoticeType ==
    ASSUME NEW v \in Versions
    PROVE  /\ NewNotice(v) \in Notice /\ NewNotice(v).version = v
           /\ NewNotice(v).status = "queued" /\ NewNotice(v).attempts = 0
           /\ NewNotice(v).accepted = 0 /\ NewNotice(v).unheard = 0
           /\ NewNotice(v).lost = 0
  BY OutboxAssumption DEF NewNotice, NoNotice, Notice, Versions, Finished

LEMMA NoNoticeType == NoNotice \in Notice /\ NoNotice.status = "absent"
                      /\ NoNotice.accepted = 0 /\ NoNotice.unheard = 0
                      /\ NoNotice.lost = 0
  BY DEF NoNotice, Notice

LEMMA SettledType ==
    ASSUME NEW n \in Notice, NEW w \in {"sent", "queued", "failed"}
    PROVE  [n EXCEPT !.status = w, !.due = FALSE] \in Notice
  BY DEF Notice, Finished

LEMMA RestingType == Resting \in Sender /\ Resting.phase = "idle"
  <1>0. PICK d \in Dests, a \in Alerts \cup Tests : TRUE
    BY OutboxAssumption
  <1>1. <<d, a>> \in Notices
    BY DEF Notices
  <1>2. (CHOOSE k \in Notices : TRUE) \in Notices
    BY <1>1
  <1>3. 1 \in Versions
    BY OutboxAssumption DEF Versions
  <1> QED BY <1>2, <1>3 DEF Resting, Sender, Phases

LEMMA SetPhaseType ==
    ASSUME sender \in [Senders -> Sender], NEW s \in Senders, NEW p \in Phases,
           SetPhase(s, p)
    PROVE  /\ sender' \in [Senders -> Sender] /\ sender'[s].phase = p
           /\ p # "idle" => /\ sender'[s].key = sender[s].key
                            /\ sender'[s].version = sender[s].version
                            /\ sender'[s].attempts = sender[s].attempts
           /\ \A z \in Senders \ {s} : sender'[z] = sender[z]
  <1>1. CASE p = "idle"
    <2>1. sender' = [sender EXCEPT ![s] = Resting]
      BY <1>1 DEF SetPhase
    <2> QED BY <1>1, <2>1, RestingType
  <1>2. CASE p # "idle"
    <2>1. sender' = [sender EXCEPT ![s] = [sender[s] EXCEPT !.phase = p]]
      BY <1>2 DEF SetPhase
    <2>2. [sender[s] EXCEPT !.phase = p] \in Sender
      BY DEF Sender
    <2>3. sender' \in [Senders -> Sender]
      BY <2>1, <2>2
    <2> QED BY <1>2, <2>1, <2>3 DEF Sender
  <1> QED BY <1>1, <1>2

\* The provider's answer, and what the notice remembers of it.
LEMMA PostParts ==
    ASSUME TypeOK, NEW s \in Senders, Post(s)
    PROVE  \E r \in {"accepted", "temporary", "rejected"} :
             LET k == sender[s].key IN
             /\ SetPhase(s, r)
             /\ notice' \in [Notices -> Notice]
             /\ \A i \in Notices :
                  /\ notice'[i].status = notice[i].status
                  /\ notice'[i].version = notice[i].version
                  /\ notice'[i].attempts = notice[i].attempts
                  /\ notice'[i].expired = notice[i].expired
                  /\ notice'[i].lost = notice[i].lost
                  /\ i # k => notice'[i] = notice[i]
             /\ r = "accepted" => /\ notice'[k].accepted = notice[k].accepted + 1
                                  /\ notice'[k].unheard = notice[k].unheard
             /\ r # "accepted" =>
                  \/ /\ notice'[k].accepted = notice[k].accepted + 1
                     /\ notice'[k].unheard = notice[k].unheard + 1
                  \/ notice'[k] = notice[k]
  <1> DEFINE k == sender[s].key
             took == [notice EXCEPT ![k] = [notice[k] EXCEPT !.accepted = @ + 1]]
             deaf == [notice EXCEPT ![k] = [notice[k] EXCEPT !.accepted = @ + 1,
                                                            !.unheard = @ + 1]]
  <1>1. PICK r \in {"accepted", "temporary", "rejected"} : SetPhase(s, r)
    BY DEF Post
  <1>2. sender'[s].phase = r /\ k \in Notices
    BY <1>1, SetPhaseType DEF TypeOK, Phases, Sender
  <1>3. /\ notice[k] \in Notice /\ notice[k].accepted \in Nat /\ notice[k].unheard \in Nat
        /\ notice \in [Notices -> Notice]
    BY <1>2 DEF TypeOK, Notice
  <1>4. \/ r = "accepted" /\ notice' = took
        \/ r # "accepted" /\ notice' = deaf
        \/ r # "accepted" /\ notice' = notice
    BY <1>2, <1>3 DEF Post, Notice
  <1> DEFINE Took == [notice[k] EXCEPT !.accepted = @ + 1]
             Deaf == [notice[k] EXCEPT !.accepted = @ + 1, !.unheard = @ + 1]
  <1>5. Took \in Notice
    BY SMTT(40), <1>3 DEF Notice
  <1>6. Deaf \in Notice
    <2>1. Deaf = [Took EXCEPT !.unheard = @ + 1] /\ Took.unheard \in Nat
      BY SMTT(40), <1>3 DEF Notice
    <2> HIDE DEF Took, Deaf
    <2> QED BY SMTT(40), <1>5, <2>1 DEF Notice
  <1>7. /\ Took.status = notice[k].status /\ Took.version = notice[k].version
        /\ Took.attempts = notice[k].attempts /\ Took.expired = notice[k].expired
        /\ Took.lost = notice[k].lost /\ Took.accepted = notice[k].accepted + 1
        /\ Took.unheard = notice[k].unheard
    BY <1>3 DEF Notice
  <1>8. /\ Deaf.status = notice[k].status /\ Deaf.version = notice[k].version
        /\ Deaf.attempts = notice[k].attempts /\ Deaf.expired = notice[k].expired
        /\ Deaf.lost = notice[k].lost /\ Deaf.accepted = notice[k].accepted + 1
        /\ Deaf.unheard = notice[k].unheard + 1
    BY <1>3 DEF Notice
  <1>9. PICK n \in {Took, Deaf, notice[k]} :
          /\ notice' = [notice EXCEPT ![k] = n]
          /\ r = "accepted" <=> n = Took
    <2> SUFFICES \E n \in {Took, Deaf, notice[k]} :
                   /\ notice' = [notice EXCEPT ![k] = n]
                   /\ r = "accepted" <=> n = Took
      OBVIOUS
    <2>1. Took # Deaf /\ Took # notice[k]
      <3> HIDE DEF Took, Deaf
      <3> QED BY <1>3, <1>7, <1>8
    <2> QED
      <3> HIDE DEF Took, Deaf
      <3>1. notice = [notice EXCEPT ![k] = notice[k]]
        BY <1>3
      <3> QED BY <1>4, <2>1, <3>1 DEF Took, Deaf
  <1> QED
    <2> HIDE DEF Took, Deaf
    <2> QED BY <1>1, <1>2, <1>3, <1>5, <1>6, <1>7, <1>8, <1>9

LEMMA TypeInit == Init => TypeOK
  <1> SUFFICES ASSUME Init PROVE TypeOK
    OBVIOUS
  <1>2. sender \in [Senders -> Sender]
    BY RestingType DEF Init
  <1> QED BY <1>2, NoNoticeType DEF Init, TypeOK

LEMMA TypeStep == TypeOK /\ OpenSendCurrent /\ [Next]_vars => TypeOK'
  <1> SUFFICES ASSUME TypeOK, OpenSendCurrent, [Next]_vars PROVE TypeOK'
    OBVIOUS
  <1> USE DEF TypeOK
  <1>1. CASE UNCHANGED vars
    BY <1>1 DEF vars, settings
  <1>2. ASSUME NEW d \in Dests, SaveWorkspaceNotification(d) PROVE TypeOK'
    <2>1. version + 1 \in Versions
      BY <1>2, OutboxAssumption DEF SaveWorkspaceNotification, Versions
    <2> QED BY <1>2, <2>1 DEF SaveWorkspaceNotification
  <1>3. ASSUME NEW d \in Dests, DisconnectWorkspaceNotification(d) PROVE TypeOK'
    BY <1>3, NoNoticeType DEF DisconnectWorkspaceNotification
  <1>4. ASSUME NEW d \in Dests, NEW t \in Tests,
               RequestWorkspaceNotificationTest(d, t) PROVE TypeOK'
    <2>1. config[d] \in Versions /\ <<d, t>> \in Notices
      BY <1>4 DEF RequestWorkspaceNotificationTest, Connected, Notices
    <2> QED BY <1>4, <2>1, NewNoticeType DEF RequestWorkspaceNotificationTest, settings
  <1>5. CASE ArchiveWorkspace
    BY <1>5 DEF ArchiveWorkspace
  <1>6. CASE ChangePlan
    BY <1>6 DEF ChangePlan
  <1>7. ASSUME NEW a \in Alerts, RaiseAlert(a) PROVE TypeOK'
    <2>1. \A k \in Notices : Connected(k[1]) => config[k[1]] \in Versions
      BY KeyParts DEF Connected
    <2> QED BY <1>7, <2>1, NewNoticeType DEF RaiseAlert, settings
  <1>8. ASSUME NEW s \in Senders, NEW k \in Notices, ClaimWorkspaceNotification(s, k)
        PROVE  TypeOK'
    <2>1. notice[k].status # "absent" /\ notice[k].attempts + 1 \in Nat
      BY <1>8 DEF ClaimWorkspaceNotification, Notice
    <2>2. [notice[k] EXCEPT !.status = "running", !.expired = FALSE,
                            !.attempts = @ + 1] \in Notice
      BY ZenonT(60), <2>1 DEF Notice
    <2>3. [phase |-> "claimed", key |-> k, version |-> notice[k].version,
           attempts |-> notice[k].attempts + 1] \in Sender
      BY <2>1 DEF Sender, Phases
    <2>4. notice' \in [Notices -> Notice]
      BY <1>8, <2>2 DEF ClaimWorkspaceNotification, Take
    <2>5. \A i \in Notices : notice'[i].status # "absent" => notice'[i].version \in Versions
      BY <1>8, <2>1 DEF ClaimWorkspaceNotification, Take, Notice
    <2>6. sender' \in [Senders -> Sender]
      BY <1>8, <2>3 DEF ClaimWorkspaceNotification, Take
    <2> QED BY <1>8, <2>4, <2>5, <2>6 DEF ClaimWorkspaceNotification, Take, settings
  <1>9. ASSUME NEW s \in Senders, NEW p \in Phases, SetPhase(s, p)
        PROVE  sender' \in [Senders -> Sender]
    BY <1>9, SetPhaseType
  <1>10. \A s \in Senders : sender[s].key \in Notices /\ sender[s].attempts \in Nat
    BY DEF Sender
  <1>11. ASSUME NEW s \in Senders, BeginSend(s) PROVE TypeOK'
    <2>1. sender' \in [Senders -> Sender]
      BY <1>9, <1>11 DEF BeginSend, Phases
    <2>2. /\ notice' \in [Notices -> Notice]
          /\ \A i \in Notices : notice'[i].status # "absent" => notice'[i].version \in Versions
      BY <1>10, <1>11 DEF BeginSend, Notice, Finished, Owned, Holds
    <2> QED BY <1>11, <2>1, <2>2 DEF BeginSend, settings
  <1>12. ASSUME NEW s \in Senders, Post(s) PROVE TypeOK'
    <2>1. sender' \in [Senders -> Sender]
      BY <1>9, <1>12 DEF Post, Phases
    <2>2. /\ notice' \in [Notices -> Notice]
          /\ \A i \in Notices : /\ notice'[i].status = notice[i].status
                                /\ notice'[i].version = notice[i].version
      BY <1>12, PostParts
    <2> QED BY <1>12, <2>1, <2>2 DEF Post, settings
  <1>13. ASSUME NEW s \in Senders, CommitSend(s) PROVE TypeOK'
    <2>1. sender' \in [Senders -> Sender]
      BY <1>9, <1>13 DEF CommitSend, Settle, Phases
    <2> DEFINE status == Outcome(s, sender[s].attempts < MaxAttempts)
    <2>2. status \in {"sent", "queued", "failed"}
      BY DEF Outcome
    <2>3. notice' = [notice EXCEPT ![sender[s].key].status = status,
                                   ![sender[s].key].due = FALSE]
      BY SMTT(40), <1>13 DEF CommitSend, Settle
    <2>4. [notice[sender[s].key] EXCEPT !.status = status, !.due = FALSE] \in Notice
      <3> HIDE DEF status
      <3> QED BY ZenonT(60), <1>10, <2>2, SettledType
    <2>5. /\ notice' \in [Notices -> Notice]
          /\ \A i \in Notices : /\ notice'[i].version = notice[i].version
                                /\ i # sender[s].key => notice'[i] = notice[i]
      BY ZenonT(60), <1>10, <2>3, <2>4 DEF Notice
    <2>6. InTx(s)
      BY <1>13 DEF CommitSend, Settle, InTx, Phases
    <2>7. notice[sender[s].key].status = "running"
      BY <2>6 DEF OpenSendCurrent, Holds
    <2> QED BY <1>10, <1>13, <2>1, <2>5, <2>7 DEF CommitSend, Settle, settings
  <1>14. ASSUME NEW s \in Senders, LoseSend(s) PROVE TypeOK'
    <2>1. sender' \in [Senders -> Sender]
      BY <1>9, <1>14 DEF LoseSend, Phases
    <2>2. [notice[sender[s].key] EXCEPT !.lost = @ + 1] \in Notice
      BY SMTT(40), <1>10 DEF Notice
    <2>3. /\ notice' \in [Notices -> Notice]
          /\ \A i \in Notices : /\ notice'[i].status = notice[i].status
                                /\ notice'[i].version = notice[i].version
      BY <1>10, <1>14, <2>2 DEF LoseSend, Notice
    <2> QED BY <1>14, <2>1, <2>3 DEF LoseSend, settings
  <1>15. ASSUME NEW k \in Notices, LeaseExpires(k) PROVE TypeOK'
    <2>1. /\ notice' \in [Notices -> Notice]
          /\ \A i \in Notices : /\ notice'[i].status = notice[i].status
                                /\ notice'[i].version = notice[i].version
      BY ZenonT(60), <1>15 DEF LeaseExpires, Notice
    <2> QED BY <1>15, <2>1 DEF LeaseExpires, settings
  <1>16. ASSUME NEW k \in Notices, BecomesDue(k) PROVE TypeOK'
    <2>1. /\ notice' \in [Notices -> Notice]
          /\ \A i \in Notices : /\ notice'[i].status = notice[i].status
                                /\ notice'[i].version = notice[i].version
      BY ZenonT(60), <1>16 DEF BecomesDue, Notice
    <2> QED BY <1>16, <2>1 DEF BecomesDue, settings
  <1> QED
    BY <1>1, <1>2, <1>3, <1>4, <1>5, <1>6, <1>7, <1>8, <1>11, <1>12, <1>13, <1>14,
       <1>15, <1>16 DEF Next

-----------------------------------------------------------------------------
(* Open sends.                                                              *)

LEMMA PhaseSet ==
    ASSUME TypeOK, NEW s \in Senders, NEW p \in Phases, SetPhase(s, p)
    PROVE  /\ sender'[s].phase = p
           /\ p # "idle" => /\ sender'[s].key = sender[s].key
                            /\ sender'[s].version = sender[s].version
                            /\ sender'[s].attempts = sender[s].attempts
           /\ \A z \in Senders \ {s} : sender'[z] = sender[z]
  BY SetPhaseType DEF TypeOK

SendCurrent(s) ==
    InTx(s) => /\ active /\ config[sender[s].key[1]] = sender[s].version
               /\ Holds(s, sender[s].key)
               /\ \A z \in Senders \ {s} :
                    InTx(z) => sender[z].key[1] # sender[s].key[1]

LEMMA SendsStep == TypeOK /\ OpenSendCurrent /\ [Next]_vars => OpenSendCurrent'
  <1>0. OpenSendCurrent <=> \A s \in Senders : SendCurrent(s)
    BY DEF OpenSendCurrent, SendCurrent
  <1>00. OpenSendCurrent' <=> \A s \in Senders : SendCurrent(s)'
    BY DEF OpenSendCurrent, SendCurrent
  <1> SUFFICES ASSUME TypeOK, OpenSendCurrent, [Next]_vars, NEW s \in Senders, InTx(s)'
               PROVE  SendCurrent(s)'
    BY <1>00 DEF SendCurrent
  <1> DEFINE k == sender[s].key
  <1>1. \A z \in Senders : sender[z].key \in Notices /\ sender[z].key[1] \in Dests
    BY KeyParts DEF TypeOK, Sender
  <1>2. InTx(s) => /\ active /\ config[k[1]] = sender[s].version /\ Holds(s, k)
                   /\ \A z \in Senders \ {s} : InTx(z) => sender[z].key[1] # k[1]
    BY <1>0 DEF SendCurrent
  <1>3. CASE UNCHANGED vars
    BY <1>2, <1>3 DEF vars, settings, InTx, Holds, Idle, SendCurrent
  <1>4. CASE WorkspaceFree /\ sender' = sender
    BY <1>4 DEF WorkspaceFree, InTx, SendCurrent
  <1>5. CASE ChangePlan
    BY SMTT(40), <1>2, <1>5 DEF ChangePlan, InTx, Holds, Idle, SendCurrent
  <1>6. ASSUME NEW a \in Alerts, RaiseAlert(a) PROVE SendCurrent(s)'
    <2>1. InTx(s)
      BY <1>6 DEF RaiseAlert, InTx
    <2>2. notice'[k] = notice[k]
      BY SMTT(40), <1>1, <1>2, <1>6, <2>1 DEF RaiseAlert, DestFree
    <2> QED BY <1>2, <1>6, <2>1, <2>2 DEF RaiseAlert, settings, InTx, Holds, Idle, SendCurrent
  <1>7. ASSUME NEW z \in Senders, NEW i \in Notices, ClaimWorkspaceNotification(z, i)
        PROVE  SendCurrent(s)'
    <2>1. /\ sender'[z].phase = "claimed"
          /\ \A y \in Senders \ {z} : sender'[y] = sender[y]
      BY <1>7 DEF ClaimWorkspaceNotification, Take, TypeOK
    <2>2. s # z /\ InTx(s)
      BY <2>1 DEF InTx
    <2>3. notice'[k] = notice[k]
      BY <1>1, <1>7, <2>2 DEF ClaimWorkspaceNotification, Take, TypeOK
    <2>4. \A y \in Senders : InTx(y)' => InTx(y) /\ sender'[y] = sender[y]
      BY <2>1 DEF InTx
    <2> QED BY <1>2, <1>7, <2>2, <2>3, <2>4
           DEF ClaimWorkspaceNotification, Take, settings, Holds, Idle, SendCurrent
  <1>9. ASSUME NEW z \in Senders, BeginSend(z) PROVE SendCurrent(s)'
    <2> DEFINE q == IF Owned(z) /\ ~Denied(z) THEN "open" ELSE "idle"
    <2>1. SetPhase(z, q) /\ q \in Phases
      BY <1>9 DEF BeginSend, Phases
    <2>2. /\ sender'[z].phase = q
          /\ q # "idle" => /\ sender'[z].key = sender[z].key
                           /\ sender'[z].version = sender[z].version
                           /\ sender'[z].attempts = sender[z].attempts
          /\ \A y \in Senders \ {z} : sender'[y] = sender[y]
      BY PhaseSet, <2>1
    <2>3. DestFree(sender[z].key[1])
      BY <1>9 DEF BeginSend
    <2>4. CASE s = z
      <3>1. Owned(z) /\ ~Denied(z)
        BY <2>2, <2>4 DEF InTx
      <3>2. notice' = notice
        BY <1>9, <3>1 DEF BeginSend
      <3>3. Holds(s, k)'
        BY <2>2, <2>4, <3>1, <3>2 DEF Owned, Holds, Idle
      <3>4. \A y \in Senders \ {s} : InTx(y)' => InTx(y) /\ sender'[y] = sender[y]
        BY <2>2, <2>4 DEF InTx
      <3> QED BY <1>9, <2>2, <2>3, <2>4, <3>1, <3>3, <3>4
             DEF BeginSend, Denied, DestFree, settings, SendCurrent
    <2>5. CASE s # z
      <3>1. InTx(s) /\ sender'[s] = sender[s]
        BY <2>2, <2>5 DEF InTx
      <3>2. sender[z].key[1] # k[1]
        BY <2>3, <3>1 DEF DestFree
      <3>3. notice'[k] = notice[k]
        BY <1>1, <1>9, <3>2 DEF BeginSend, TypeOK
      <3>4. \A y \in Senders : InTx(y)' => sender'[y].key = sender[y].key
        BY <2>2 DEF InTx
      <3>5. \A y \in Senders \ {z} : InTx(y)' => InTx(y)
        BY SMTT(40), <2>2 DEF InTx
      <3> QED BY <1>2, <1>9, <3>1, <3>2, <3>3, <3>4, <3>5
             DEF BeginSend, settings, Holds, Idle, SendCurrent
    <2> QED BY <2>4, <2>5
  <1>10. ASSUME NEW z \in Senders, Post(z) PROVE SendCurrent(s)'
    <2>1. \E p \in Phases \ {"idle"} : SetPhase(z, p)
      BY <1>10 DEF Post, Phases
    <2>2. /\ \A y \in Senders : /\ sender'[y].key = sender[y].key
                                /\ sender'[y].version = sender[y].version
                                /\ sender'[y].attempts = sender[y].attempts
          /\ \A y \in Senders \ {z} : sender'[y] = sender[y]
      BY PhaseSet, <2>1
    <2>3. InTx(z) /\ \A y \in Senders : InTx(y)' => InTx(y)
      BY <1>10, <2>2 DEF Post, InTx, Phases
    <2>4. /\ notice'[k].status = notice[k].status /\ notice'[k].version = notice[k].version
          /\ notice'[k].attempts = notice[k].attempts
      BY <1>1, <1>10, PostParts
    <2> QED BY <1>2, <1>10, <2>2, <2>3, <2>4 DEF Post, settings, Holds, Idle, InTx, SendCurrent
  <1>11. ASSUME NEW z \in Senders, SetPhase(z, "idle"), config' = config, active' = active,
                s # z => notice'[k] = notice[k]
         PROVE  SendCurrent(s)'
    <2>1. sender'[z].phase = "idle" /\ \A y \in Senders \ {z} : sender'[y] = sender[y]
      BY PhaseSet, <1>11 DEF Phases
    <2>2. s # z /\ InTx(s)
      BY <2>1 DEF InTx
    <2>3. \A y \in Senders : InTx(y)' => InTx(y) /\ sender'[y] = sender[y]
      BY <2>1 DEF InTx
    <2> QED BY <1>2, <1>11, <2>2, <2>3 DEF Holds, Idle, SendCurrent
  <1>12. ASSUME NEW z \in Senders, CommitSend(z) PROVE SendCurrent(s)'
    <2>1. InTx(z)
      BY <1>12 DEF CommitSend, Settle, InTx, Phases
    <2>2. s # z => InTx(s)
      BY PhaseSet, <1>12 DEF CommitSend, Settle, Phases, InTx
    <2>3. s # z => sender[z].key # k
      BY <1>2, <2>1, <2>2
    <2>4. s # z => notice'[k] = notice[k]
      BY <1>1, <1>12, <2>3 DEF CommitSend, Settle, TypeOK
    <2>5. SetPhase(z, "idle") /\ config' = config /\ active' = active
      BY <1>12 DEF CommitSend, Settle, settings
    <2> QED BY <1>11, <2>4, <2>5
  <1>13. ASSUME NEW z \in Senders, LoseSend(z) PROVE SendCurrent(s)'
    <2>1. s # z => InTx(s)
      BY PhaseSet, <1>13 DEF LoseSend, Phases, InTx
    <2>4. SetPhase(z, "idle") /\ config' = config /\ active' = active
      BY <1>13 DEF LoseSend, settings
    <2>2. CASE sender[z].phase = "accepted"
      <3>1. InTx(z)
        BY <2>2 DEF InTx, Phases
      <3>2. s # z => sender[z].key # k
        BY <1>2, <2>1, <3>1
      <3>3. s # z => notice'[k] = notice[k]
        BY <1>1, <1>13, <3>2 DEF LoseSend, TypeOK
      <3> QED BY <1>11, <2>4, <3>3
    <2>3. CASE sender[z].phase # "accepted"
      <3>1. notice' = notice
        BY <1>13, <2>3 DEF LoseSend
      <3> QED BY <1>11, <2>4, <3>1
    <2> QED BY <2>2, <2>3
  <1>14. ASSUME NEW i \in Notices, LeaseExpires(i) \/ BecomesDue(i) PROVE SendCurrent(s)'
    <2>1. /\ notice'[k].status = notice[k].status /\ notice'[k].version = notice[k].version
          /\ notice'[k].attempts = notice[k].attempts
      BY <1>1, <1>14 DEF LeaseExpires, BecomesDue, TypeOK, Notice
    <2>2. sender' = sender /\ config' = config /\ active' = active
      BY <1>14 DEF LeaseExpires, BecomesDue, settings
    <2> QED BY <1>2, <2>1, <2>2 DEF Holds, Idle, InTx, SendCurrent
  <1>15. ASSUME NEW d \in Dests,
                SaveWorkspaceNotification(d) \/ DisconnectWorkspaceNotification(d)
         PROVE  SendCurrent(s)'
    BY <1>4, <1>15 DEF SaveWorkspaceNotification, DisconnectWorkspaceNotification
  <1>16. ASSUME NEW d \in Dests, NEW t \in Tests, RequestWorkspaceNotificationTest(d, t)
         PROVE  SendCurrent(s)'
    BY <1>4, <1>16 DEF RequestWorkspaceNotificationTest
  <1>17. CASE ArchiveWorkspace
    BY <1>4, <1>17 DEF ArchiveWorkspace
  <1> QED
    BY <1>3, <1>5, <1>6, <1>7, <1>9, <1>10, <1>12, <1>13, <1>14, <1>15, <1>16, <1>17
       DEF Next

-----------------------------------------------------------------------------
(* Accepted posts.                                                          *)

Accounted(k) ==
    notice[k].accepted = notice[k].lost + notice[k].unheard
        + (IF notice[k].status = "sent" THEN 1 ELSE 0)
        + (IF Accepting(k) THEN 1 ELSE 0)

\* An open send is the only one for its notice, which is running.
LEMMA OnlySend ==
    ASSUME TypeOK, OpenSendCurrent, NEW s \in Senders, InTx(s)
    PROVE  /\ notice[sender[s].key].status = "running"
           /\ \A z \in Senders \ {s} : InTx(z) => sender[z].key # sender[s].key
           /\ Accepting(sender[s].key) <=> sender[s].phase = "accepted"
  BY DEF OpenSendCurrent, Holds, Accepting, InTx, Phases

LEMMA AcceptedStep ==
    TypeOK /\ OpenSendCurrent /\ AcceptedAccounted /\ [Next]_vars => AcceptedAccounted'
  <1>0. AcceptedAccounted' <=> \A k \in Notices : Accounted(k)'
    BY DEF AcceptedAccounted, Accounted
  <1> SUFFICES ASSUME TypeOK, OpenSendCurrent, AcceptedAccounted, [Next]_vars,
                      NEW k \in Notices
               PROVE  Accounted(k)'
    BY <1>0
  <1>1. Accounted(k) /\ notice[k].accepted \in Nat /\ notice[k].lost \in Nat
        /\ notice[k].unheard \in Nat
    BY DEF AcceptedAccounted, Accounted, TypeOK, Notice
  <1>2. ASSUME sender' = sender, notice'[k].accepted = notice[k].accepted,
               notice'[k].lost = notice[k].lost, notice'[k].unheard = notice[k].unheard,
               notice'[k].status = "sent" <=> notice[k].status = "sent"
        PROVE  Accounted(k)'
    BY <1>1, <1>2 DEF Accounted, Accepting
  <1>3. ASSUME notice'[k].accepted = 0, notice'[k].lost = 0, notice'[k].unheard = 0,
               notice'[k].status # "sent",
               sender' = sender, DestFree(k[1])
        PROVE  Accounted(k)'
    BY <1>3 DEF Accounted, Accepting, DestFree, InTx, Phases
  <1>4. CASE UNCHANGED vars
    BY <1>2, <1>4 DEF vars
  <1>5. ASSUME notice' = notice, sender' = sender PROVE Accounted(k)'
    BY <1>2, <1>5
  <1>6. ASSUME NEW d \in Dests, DisconnectWorkspaceNotification(d) PROVE Accounted(k)'
    <2>1. DestFree(k[1])
      BY <1>6 DEF DisconnectWorkspaceNotification, WorkspaceFree, DestFree
    <2>2. notice'[k] = NoNotice \/ notice'[k] = notice[k]
      BY <1>6 DEF DisconnectWorkspaceNotification
    <2> QED BY <1>2, <1>3, <1>6, <2>1, <2>2, NoNoticeType DEF DisconnectWorkspaceNotification
  <1>7. ASSUME NEW d \in Dests, NEW t \in Tests, RequestWorkspaceNotificationTest(d, t)
        PROVE  Accounted(k)'
    <2>1. DestFree(k[1]) /\ NewNotice(config[d]).accepted = 0
          /\ NewNotice(config[d]).lost = 0 /\ NewNotice(config[d]).unheard = 0
          /\ NewNotice(config[d]).status = "queued"
      BY <1>7 DEF RequestWorkspaceNotificationTest, WorkspaceFree, DestFree, NewNotice, NoNotice
    <2>2. notice'[k] = NewNotice(config[d]) \/ notice'[k] = notice[k]
      BY <1>7 DEF RequestWorkspaceNotificationTest, TypeOK
    <2> QED BY <1>2, <1>3, <1>7, <2>1, <2>2 DEF RequestWorkspaceNotificationTest
  <1>8. ASSUME NEW a \in Alerts, RaiseAlert(a) PROVE Accounted(k)'
    <2>1. CASE k[2] = a /\ active /\ Connected(k[1])
      <3>1. DestFree(k[1])
        BY <1>8, <2>1, KeyParts DEF RaiseAlert
      <3>2. notice'[k] = NewNotice(config[k[1]]) /\ sender' = sender
        BY <1>8, <2>1 DEF RaiseAlert
      <3>3. notice'[k].accepted = 0 /\ notice'[k].lost = 0 /\ notice'[k].unheard = 0
            /\ notice'[k].status = "queued"
        BY <3>2 DEF NewNotice, NoNotice
      <3> QED BY <1>3, <3>1, <3>2, <3>3
    <2>2. CASE ~(k[2] = a /\ active /\ Connected(k[1]))
      <3>1. notice'[k] = notice[k] /\ sender' = sender
        BY <1>8, <2>2 DEF RaiseAlert
      <3> QED BY <1>2, <3>1
    <2> QED BY <2>1, <2>2
  <1>9. ASSUME NEW s \in Senders, NEW i \in Notices, ClaimWorkspaceNotification(s, i)
        PROVE  Accounted(k)'
    <2>1. /\ sender[s].phase = "idle" /\ sender'[s].phase = "claimed"
          /\ \A z \in Senders \ {s} : sender'[z] = sender[z]
      BY <1>9 DEF ClaimWorkspaceNotification, Take, Idle, TypeOK
    <2>2. Accepting(k)' <=> Accepting(k)
      BY <2>1 DEF Accepting
    <2>3. /\ notice'[k].accepted = notice[k].accepted /\ notice'[k].lost = notice[k].lost
          /\ notice'[k].unheard = notice[k].unheard
          /\ notice'[k].status = "sent" <=> notice[k].status = "sent"
      BY <1>9 DEF ClaimWorkspaceNotification, Take, TypeOK, Notice
    <2> QED BY <1>1, <2>2, <2>3 DEF Accounted
  <1>10. ASSUME NEW s \in Senders, BeginSend(s) PROVE Accounted(k)'
    <2>1. PICK p \in {"open", "idle"} : SetPhase(s, p)
      BY <1>10 DEF BeginSend
    <2>2. /\ sender[s].phase = "claimed" /\ sender'[s].phase = p
          /\ \A z \in Senders \ {s} : sender'[z] = sender[z]
      BY <1>10, <2>1, PhaseSet DEF BeginSend, Phases
    <2>3. Accepting(k)' <=> Accepting(k)
      BY <2>2 DEF Accepting
    <2>4. /\ notice'[k].accepted = notice[k].accepted /\ notice'[k].lost = notice[k].lost
          /\ notice'[k].unheard = notice[k].unheard
          /\ notice'[k].status = "sent" <=> notice[k].status = "sent"
      BY <1>10 DEF BeginSend, Owned, Holds, TypeOK, Notice
    <2> QED BY <1>1, <2>3, <2>4 DEF Accounted
  <1>11. ASSUME NEW s \in Senders, Post(s) PROVE Accounted(k)'
    <2> DEFINE j == sender[s].key
    <2>1. PICK r \in {"accepted", "temporary", "rejected"} :
            /\ SetPhase(s, r)
            /\ \A i \in Notices : /\ notice'[i].status = notice[i].status
                                  /\ notice'[i].lost = notice[i].lost
                                  /\ i # j => notice'[i] = notice[i]
            /\ r = "accepted" => /\ notice'[j].accepted = notice[j].accepted + 1
                                 /\ notice'[j].unheard = notice[j].unheard
            /\ r # "accepted" =>
                 \/ /\ notice'[j].accepted = notice[j].accepted + 1
                    /\ notice'[j].unheard = notice[j].unheard + 1
                 \/ notice'[j] = notice[j]
      BY <1>11, PostParts
    <2>2. /\ InTx(s) /\ sender[s].phase = "open"
          /\ sender'[s].phase = r /\ sender'[s].key = j
          /\ \A z \in Senders \ {s} : sender'[z] = sender[z]
      BY <1>11, <2>1, PhaseSet DEF Post, InTx, Phases
    <2>3. CASE k = j /\ r = "accepted"
      <3>1. ~Accepting(k) /\ notice[k].status = "running"
        BY <2>2, <2>3, OnlySend
      <3>2. Accepting(k)'
        BY <2>2, <2>3 DEF Accepting
      <3> QED BY <1>1, <2>1, <2>3, <3>1, <3>2 DEF Accounted
    <2>4. CASE ~(k = j /\ r = "accepted")
      <3>1. Accepting(k)' <=> Accepting(k)
        BY <2>2, <2>4 DEF Accepting
      <3>2. \/ /\ notice'[k].accepted = notice[k].accepted + 1
               /\ notice'[k].unheard = notice[k].unheard + 1
            \/ notice'[k] = notice[k]
        BY <2>1, <2>4
      <3> QED BY <1>1, <2>1, <3>1, <3>2 DEF Accounted
    <2> QED BY <2>3, <2>4
  <1>12. ASSUME NEW s \in Senders, CommitSend(s) PROVE Accounted(k)'
    <2>1. /\ InTx(s) /\ SetPhase(s, "idle")
          /\ notice' = [notice EXCEPT
                ![sender[s].key].status = Outcome(s, sender[s].attempts < MaxAttempts),
                ![sender[s].key].due = FALSE]
      BY <1>12 DEF CommitSend, Settle, InTx, Phases
    <2>2. /\ sender'[s].phase = "idle"
          /\ \A z \in Senders \ {s} : sender'[z] = sender[z]
      BY <2>1, PhaseSet DEF Phases
    <2>3. CASE k = sender[s].key
      <3>1. /\ notice[k].status = "running"
            /\ Accepting(k) <=> sender[s].phase = "accepted"
        BY <2>1, <2>3, OnlySend
      <3>2. ~Accepting(k)'
        BY <2>1, <2>2, <2>3, OnlySend DEF Accepting, InTx, Phases
      <3>3. /\ notice'[k].accepted = notice[k].accepted /\ notice'[k].lost = notice[k].lost
            /\ notice'[k].unheard = notice[k].unheard
            /\ notice'[k].status = Outcome(s, sender[s].attempts < MaxAttempts)
        BY <2>1, <2>3 DEF TypeOK, Notice
      <3>4. notice'[k].status = "sent" <=> sender[s].phase = "accepted"
        BY <3>3 DEF Outcome
      <3> QED BY <1>1, <3>1, <3>2, <3>3, <3>4 DEF Accounted
    <2>4. CASE k # sender[s].key
      <3>1. notice'[k] = notice[k]
        BY <2>1, <2>4 DEF TypeOK
      <3>2. Accepting(k)' <=> Accepting(k)
        BY <2>2, <2>4 DEF Accepting
      <3> QED BY <1>1, <3>1, <3>2 DEF Accounted
    <2> QED BY <2>3, <2>4
  <1>13. ASSUME NEW s \in Senders, LoseSend(s) PROVE Accounted(k)'
    <2>1. /\ sender'[s].phase = "idle"
          /\ \A z \in Senders \ {s} : sender'[z] = sender[z]
      BY <1>13, PhaseSet DEF LoseSend, Phases
    <2>2. CASE k = sender[s].key /\ sender[s].phase = "accepted"
      <3>1. InTx(s)
        BY <2>2 DEF InTx, Phases
      <3>2. Accepting(k) /\ notice[k].status = "running"
        BY <2>2, <3>1, OnlySend
      <3>3. ~Accepting(k)'
        BY <2>1, <2>2, <3>1, OnlySend DEF Accepting, InTx, Phases
      <3>4. /\ notice'[k].accepted = notice[k].accepted
            /\ notice'[k].lost = notice[k].lost + 1
            /\ notice'[k].unheard = notice[k].unheard /\ notice'[k].status = notice[k].status
        BY <1>13, <2>2 DEF LoseSend, TypeOK, Notice
      <3> QED BY <1>1, <3>2, <3>3, <3>4 DEF Accounted
    <2>3. CASE ~(k = sender[s].key /\ sender[s].phase = "accepted")
      <3>1. notice'[k] = notice[k]
        BY <1>13, <2>3 DEF LoseSend, TypeOK
      <3>2. Accepting(k)' <=> Accepting(k)
        BY <2>1, <2>3 DEF Accepting
      <3> QED BY <1>1, <3>1, <3>2 DEF Accounted
    <2> QED BY <2>2, <2>3
  <1>14. ASSUME NEW i \in Notices, LeaseExpires(i) \/ BecomesDue(i) PROVE Accounted(k)'
    <2>1. /\ notice'[k].accepted = notice[k].accepted /\ notice'[k].lost = notice[k].lost
          /\ notice'[k].unheard = notice[k].unheard
          /\ notice'[k].status = notice[k].status /\ sender' = sender
      BY <1>14 DEF LeaseExpires, BecomesDue, TypeOK, Notice
    <2> QED BY <1>2, <2>1
  <1>15. ASSUME NEW d \in Dests, SaveWorkspaceNotification(d) PROVE Accounted(k)'
    BY <1>5, <1>15 DEF SaveWorkspaceNotification
  <1>16. CASE ArchiveWorkspace \/ ChangePlan
    BY <1>5, <1>16 DEF ArchiveWorkspace, ChangePlan
  <1> QED
    BY <1>4, <1>6, <1>7, <1>8, <1>9, <1>10, <1>11, <1>12, <1>13, <1>14, <1>15, <1>16
       DEF Next

-----------------------------------------------------------------------------
(* Finished notices.                                                        *)

\* A notice of an alert exists only once the alert was raised, which happens
\* once: no second notice replaces it.
AlertsRaised ==
    \A k \in Notices : k[2] \in Alerts /\ notice[k].status # "absent" => k[2] \in raised

LEMMA RaisedStep ==
    TypeOK /\ OpenSendCurrent /\ AlertsRaised /\ [Next]_vars => AlertsRaised'
  <1> SUFFICES ASSUME TypeOK, OpenSendCurrent, AlertsRaised, [Next]_vars, NEW k \in Notices,
                      k[2] \in Alerts, notice'[k].status # "absent"
               PROVE  k[2] \in raised'
    BY DEF AlertsRaised
  <1>1. notice[k].status # "absent" => k[2] \in raised
    BY DEF AlertsRaised
  <1>2. CASE UNCHANGED vars
    BY <1>1, <1>2 DEF vars
  <1>3. CASE notice' = notice /\ raised' = raised
    BY <1>1, <1>3
  <1>4. ASSUME NEW d \in Dests, DisconnectWorkspaceNotification(d) PROVE k[2] \in raised'
    BY <1>1, <1>4 DEF DisconnectWorkspaceNotification, NoNotice
  <1>5. ASSUME NEW d \in Dests, NEW t \in Tests, RequestWorkspaceNotificationTest(d, t)
        PROVE  k[2] \in raised'
    <2>1. <<d, t>> # k
      BY OutboxAssumption
    <2> QED BY <1>1, <1>5, <2>1 DEF RequestWorkspaceNotificationTest, TypeOK
  <1>6. ASSUME NEW a \in Alerts, RaiseAlert(a) PROVE k[2] \in raised'
    BY <1>1, <1>6 DEF RaiseAlert
  <1>7. ASSUME NEW s \in Senders, NEW i \in Notices, ClaimWorkspaceNotification(s, i)
        PROVE  k[2] \in raised'
    BY <1>1, <1>7 DEF ClaimWorkspaceNotification, Take, TypeOK
  <1>8. ASSUME NEW s \in Senders, BeginSend(s) PROVE k[2] \in raised'
    BY <1>1, <1>8 DEF BeginSend, Owned, Holds, TypeOK
  <1>9. ASSUME NEW s \in Senders, CommitSend(s) PROVE k[2] \in raised'
    <2>1. notice[sender[s].key].status = "running"
      BY <1>9, OnlySend DEF CommitSend, Settle, InTx, Phases
    <2> QED BY <1>1, <1>9, <2>1 DEF CommitSend, Settle, TypeOK
  <1>10. ASSUME NEW s \in Senders, Post(s) \/ LoseSend(s) PROVE k[2] \in raised'
    <2>1. notice'[k].status = notice[k].status /\ raised' = raised
      BY <1>10, PostParts DEF Post, LoseSend, TypeOK, Notice
    <2> QED BY <1>1, <2>1
  <1>11. ASSUME NEW i \in Notices, LeaseExpires(i) \/ BecomesDue(i) PROVE k[2] \in raised'
    BY <1>1, <1>11 DEF LeaseExpires, BecomesDue, TypeOK, Notice
  <1>12. ASSUME NEW d \in Dests, SaveWorkspaceNotification(d) PROVE k[2] \in raised'
    BY <1>3, <1>12 DEF SaveWorkspaceNotification
  <1>13. CASE ArchiveWorkspace \/ ChangePlan
    BY <1>3, <1>13 DEF ArchiveWorkspace, ChangePlan
  <1> QED
    BY <1>2, <1>4, <1>5, <1>6, <1>7, <1>8, <1>9, <1>10, <1>11, <1>12, <1>13 DEF Next

LEMMA FinishedStep ==
    ASSUME TypeOK, OpenSendCurrent, AlertsRaised, [Next]_vars, NEW k \in Notices,
           notice[k].status \in Finished
    PROVE  notice'[k].status \in {notice[k].status, "absent"}
  <1> USE DEF Finished
  <1>1. CASE UNCHANGED vars
    BY <1>1 DEF vars
  <1>2. CASE notice' = notice
    BY <1>2
  <1>3. ASSUME NEW d \in Dests, DisconnectWorkspaceNotification(d)
        PROVE  notice'[k].status \in {notice[k].status, "absent"}
    BY <1>3 DEF DisconnectWorkspaceNotification, NoNotice
  <1>4. ASSUME NEW d \in Dests, NEW t \in Tests, RequestWorkspaceNotificationTest(d, t)
        PROVE  notice'[k].status \in {notice[k].status, "absent"}
    BY <1>4 DEF RequestWorkspaceNotificationTest, TypeOK
  <1>5. ASSUME NEW a \in Alerts, RaiseAlert(a)
        PROVE  notice'[k].status \in {notice[k].status, "absent"}
    <2>1. k[2] # a
      BY <1>5 DEF RaiseAlert, AlertsRaised
    <2> QED BY <1>5, <2>1 DEF RaiseAlert
  <1>6. ASSUME NEW s \in Senders, NEW i \in Notices, ClaimWorkspaceNotification(s, i)
        PROVE  notice'[k].status \in {notice[k].status, "absent"}
    BY <1>6 DEF ClaimWorkspaceNotification, Take, TypeOK
  <1>7. ASSUME NEW s \in Senders, BeginSend(s)
        PROVE  notice'[k].status \in {notice[k].status, "absent"}
    BY <1>7 DEF BeginSend, Owned, Holds, TypeOK
  <1>8. ASSUME NEW s \in Senders, CommitSend(s)
        PROVE  notice'[k].status \in {notice[k].status, "absent"}
    <2>1. notice[sender[s].key].status = "running"
      BY <1>8, OnlySend DEF CommitSend, Settle, InTx, Phases
    <2> QED BY <1>8, <2>1 DEF CommitSend, Settle, TypeOK
  <1>9. ASSUME NEW s \in Senders, Post(s) \/ LoseSend(s)
        PROVE  notice'[k].status \in {notice[k].status, "absent"}
    BY <1>9, PostParts DEF LoseSend, TypeOK, Notice
  <1>10. ASSUME NEW i \in Notices, LeaseExpires(i) \/ BecomesDue(i)
         PROVE  notice'[k].status \in {notice[k].status, "absent"}
    BY <1>10 DEF LeaseExpires, BecomesDue, TypeOK, Notice
  <1>11. ASSUME NEW d \in Dests, SaveWorkspaceNotification(d)
         PROVE  notice'[k].status \in {notice[k].status, "absent"}
    BY <1>2, <1>11 DEF SaveWorkspaceNotification
  <1>12. CASE ArchiveWorkspace \/ ChangePlan
    BY <1>2, <1>12 DEF ArchiveWorkspace, ChangePlan
  <1> QED
    BY <1>1, <1>3, <1>4, <1>5, <1>6, <1>7, <1>8, <1>9, <1>10, <1>11, <1>12 DEF Next

-----------------------------------------------------------------------------
(* Claims.                                                                  *)

Unheld(k) == notice[k].expired \/ \A s \in Senders : ~Holds(s, k)

\* A notice that can be claimed again without another fault has an attempt left.
Room(k) ==
    /\ notice[k].attempts <= MaxAttempts + faults
    /\ \/ notice[k].status = "queued"
       \/ notice[k].status = "running" /\ Unheld(k)
       => notice[k].attempts < MaxAttempts + faults

ClaimRoom == \A k \in Notices : Room(k)

LEMMA RoomStep == TypeOK /\ OpenSendCurrent /\ ClaimRoom /\ [Next]_vars => ClaimRoom'
  <1> SUFFICES ASSUME TypeOK, OpenSendCurrent, ClaimRoom, [Next]_vars, NEW k \in Notices
               PROVE  Room(k)'
    BY DEF ClaimRoom
  <1>0. MaxAttempts \in Nat \ {0}
    BY OutboxAssumption
  <1>1. Room(k) /\ notice[k].attempts \in Nat /\ faults \in Nat
    BY DEF ClaimRoom, TypeOK, Notice
  <1>2. CASE UNCHANGED <<notice, sender, faults>>
    BY <1>1, <1>2 DEF Room, Unheld, Holds, Idle
  <1>3. ASSUME notice'[k].status \notin {"queued", "running"},
               notice'[k].attempts = notice[k].attempts \/ notice'[k].attempts = 0,
               faults' = faults
        PROVE  Room(k)'
    BY <1>0, <1>1, <1>3 DEF Room
  <1>4. ASSUME notice'[k].attempts = 0, faults' = faults PROVE Room(k)'
    BY <1>0, <1>1, <1>4 DEF Room
  <1>5. ASSUME notice'[k].status = notice[k].status,
               notice'[k].attempts = notice[k].attempts, faults' = faults + 1
        PROVE  Room(k)'
    BY <1>0, <1>1, <1>5 DEF Room
  <1>6. ASSUME notice'[k].status = notice[k].status,
               notice'[k].attempts = notice[k].attempts, faults' = faults,
               Unheld(k)' => Unheld(k)
        PROVE  Room(k)'
    BY <1>1, <1>6 DEF Room
  <1>7. ASSUME NEW d \in Dests, DisconnectWorkspaceNotification(d) PROVE Room(k)'
    <2>1. CASE k[1] = d
      BY <1>4, <1>7, <2>1 DEF DisconnectWorkspaceNotification, NoNotice
    <2>2. CASE k[1] # d
      <3>1. notice'[k] = notice[k] /\ sender' = sender /\ faults' = faults
        BY <1>7, <2>2 DEF DisconnectWorkspaceNotification
      <3> QED BY <1>6, <3>1 DEF Unheld, Holds, Idle
    <2> QED BY <2>1, <2>2
  <1>8. ASSUME NEW d \in Dests, NEW t \in Tests, RequestWorkspaceNotificationTest(d, t)
        PROVE  Room(k)'
    <2>1. CASE k = <<d, t>>
      BY <1>4, <1>8, <2>1 DEF RequestWorkspaceNotificationTest, TypeOK, NewNotice, NoNotice
    <2>2. CASE k # <<d, t>>
      <3>1. notice'[k] = notice[k] /\ sender' = sender /\ faults' = faults
        BY <1>8, <2>2 DEF RequestWorkspaceNotificationTest, TypeOK
      <3> QED BY <1>6, <3>1 DEF Unheld, Holds, Idle
    <2> QED BY <2>1, <2>2
  <1>9. ASSUME NEW a \in Alerts, RaiseAlert(a) PROVE Room(k)'
    <2>1. CASE k[2] = a /\ active /\ Connected(k[1])
      BY <1>4, <1>9, <2>1 DEF RaiseAlert, NewNotice, NoNotice
    <2>2. CASE ~(k[2] = a /\ active /\ Connected(k[1]))
      <3>1. notice'[k] = notice[k] /\ sender' = sender /\ faults' = faults
        BY <1>9, <2>2 DEF RaiseAlert
      <3> QED BY <1>6, <3>1 DEF Unheld, Holds, Idle
    <2> QED BY <2>1, <2>2
  <1>10. ASSUME NEW s \in Senders, NEW i \in Notices, ClaimWorkspaceNotification(s, i)
         PROVE  Room(k)'
    <2>1. /\ Idle(s) /\ faults' = faults
          /\ sender'[s] = [phase |-> "claimed", key |-> i, version |-> notice[i].version,
                           attempts |-> notice[i].attempts + 1]
          /\ \A z \in Senders \ {s} : sender'[z] = sender[z]
      BY <1>10 DEF ClaimWorkspaceNotification, Take, TypeOK
    <2>2. CASE k = i
      <3>1. /\ notice'[k].status = "running" /\ notice'[k].expired = FALSE
            /\ notice'[k].attempts = notice[k].attempts + 1
            /\ notice'[k].version = notice[k].version
        BY <1>10, <2>2 DEF ClaimWorkspaceNotification, Take, TypeOK, Notice
      <3>2. notice[k].attempts < MaxAttempts + faults
        BY <1>1, <1>10, <2>2 DEF ClaimWorkspaceNotification, Room, Unheld
      <3>3. Holds(s, k)'
        BY <2>1, <2>2, <3>1 DEF Holds, Idle
      <3> QED BY <1>0, <1>1, <2>1, <3>1, <3>2, <3>3 DEF Room, Unheld
    <2>3. CASE k # i
      <3>1. notice'[k] = notice[k]
        BY <1>10, <2>3 DEF ClaimWorkspaceNotification, Take, TypeOK
      <3>2. \A z \in Senders : Holds(z, k) => Holds(z, k)'
        BY <2>1, <3>1 DEF Holds, Idle
      <3> QED BY <1>6, <2>1, <3>1, <3>2 DEF Unheld
    <2> QED BY <2>2, <2>3
  <1>11. ASSUME NEW s \in Senders, BeginSend(s) PROVE Room(k)'
    <2>1. PICK p \in {"open", "idle"} :
            SetPhase(s, p) /\ p = IF Owned(s) /\ ~Denied(s) THEN "open" ELSE "idle"
      BY <1>11 DEF BeginSend
    <2>2. /\ sender'[s].phase = p
          /\ p # "idle" => /\ sender'[s].key = sender[s].key
                           /\ sender'[s].version = sender[s].version
                           /\ sender'[s].attempts = sender[s].attempts
          /\ \A z \in Senders \ {s} : sender'[z] = sender[z]
      BY <2>1, PhaseSet DEF Phases
    <2>3. CASE k = sender[s].key /\ Owned(s) /\ Denied(s)
      <3>1. notice'[k].status = "cancelled" /\ notice'[k].attempts = notice[k].attempts
        BY <1>11, <2>3 DEF BeginSend, TypeOK, Notice
      <3> QED BY <1>3, <1>11, <3>1 DEF BeginSend
    <2>4. CASE ~(k = sender[s].key /\ Owned(s) /\ Denied(s))
      <3>1. notice'[k] = notice[k] /\ faults' = faults
        BY <1>11, <2>4 DEF BeginSend, TypeOK
      <3>2. \A z \in Senders \ {s} : Holds(z, k) => Holds(z, k)'
        BY <2>2, <3>1 DEF Holds, Idle
      <3>3. Holds(s, k) /\ ~notice[k].expired => Holds(s, k)'
        BY <2>1, <2>2, <2>4, <3>1 DEF Owned, Holds, Idle
      <3> QED BY <1>6, <3>1, <3>2, <3>3 DEF Unheld
    <2> QED BY <2>3, <2>4
  <1>12. ASSUME NEW s \in Senders, Post(s) PROVE Room(k)'
    <2>1. PICK r \in {"accepted", "temporary", "rejected"} : SetPhase(s, r)
      BY <1>12 DEF Post
    <2>2. /\ sender'[s].phase = r /\ sender'[s].key = sender[s].key
          /\ sender'[s].version = sender[s].version
          /\ sender'[s].attempts = sender[s].attempts
          /\ \A z \in Senders \ {s} : sender'[z] = sender[z]
      BY <2>1, PhaseSet DEF Phases
    <2>3. /\ notice'[k].status = notice[k].status /\ notice'[k].version = notice[k].version
          /\ notice'[k].attempts = notice[k].attempts
          /\ notice'[k].expired = notice[k].expired /\ faults' = faults
      BY <1>12, PostParts DEF Post
    <2>4. \A z \in Senders : Holds(z, k) => Holds(z, k)'
      BY <2>2, <2>3 DEF Holds, Idle
    <2> QED BY <1>6, <2>3, <2>4 DEF Unheld
  <1>13. ASSUME NEW s \in Senders, CommitSend(s) PROVE Room(k)'
    <2>1. /\ InTx(s) /\ SetPhase(s, "idle") /\ faults' = faults
          /\ notice' = [notice EXCEPT
                ![sender[s].key].status = Outcome(s, sender[s].attempts < MaxAttempts),
                ![sender[s].key].due = FALSE]
      BY <1>13 DEF CommitSend, Settle, InTx, Phases
    <2>2. CASE k = sender[s].key
      <3>1. sender[s].attempts = notice[k].attempts
        BY <2>1, <2>2 DEF OpenSendCurrent, Holds
      <3>2. /\ notice'[k].attempts = notice[k].attempts
            /\ notice'[k].status = Outcome(s, sender[s].attempts < MaxAttempts)
        BY <2>1, <2>2 DEF TypeOK, Notice
      <3>3. /\ notice'[k].status \in {"sent", "queued", "failed"}
            /\ notice'[k].status = "queued" => notice[k].attempts < MaxAttempts
        BY <3>1, <3>2 DEF Outcome
      <3> QED BY <1>0, <1>1, <2>1, <3>2, <3>3 DEF Room
    <2>3. CASE k # sender[s].key
      <3>1. notice'[k] = notice[k]
        BY <2>1, <2>3 DEF TypeOK
      <3>2. \A z \in Senders \ {s} : sender'[z] = sender[z]
        BY <2>1, PhaseSet DEF Phases
      <3>3. \A z \in Senders : Holds(z, k) => Holds(z, k)'
        BY <2>3, <3>1, <3>2 DEF Holds, Idle
      <3> QED BY <1>6, <2>1, <3>1, <3>3 DEF Unheld
    <2> QED BY <2>2, <2>3
  <1>14. ASSUME NEW s \in Senders, LoseSend(s) PROVE Room(k)'
    <2>1. /\ notice'[k].status = notice[k].status
          /\ notice'[k].attempts = notice[k].attempts /\ faults' = faults + 1
      BY <1>14 DEF LoseSend, TypeOK, Notice
    <2> QED BY <1>5, <2>1
  <1>15. ASSUME NEW i \in Notices, LeaseExpires(i) PROVE Room(k)'
    <2>1. /\ notice'[k].status = notice[k].status
          /\ notice'[k].attempts = notice[k].attempts
          /\ notice'[k].version = notice[k].version /\ sender' = sender
          /\ k # i => notice'[k].expired = notice[k].expired
      BY <1>15 DEF LeaseExpires, TypeOK, Notice
    <2>2. CASE \E s \in Senders : Holds(s, i)
      BY <1>5, <1>15, <2>1, <2>2 DEF LeaseExpires
    <2>3. CASE ~\E s \in Senders : Holds(s, i)
      <3>1. faults' = faults
        BY <1>15, <2>3 DEF LeaseExpires
      <3>2. Unheld(k)' => Unheld(k)
        BY <2>1, <2>3 DEF Unheld, Holds, Idle
      <3> QED BY <1>6, <2>1, <3>1, <3>2
    <2> QED BY <2>2, <2>3
  <1>16. ASSUME NEW i \in Notices, BecomesDue(i) PROVE Room(k)'
    <2>1. /\ notice'[k].status = notice[k].status
          /\ notice'[k].attempts = notice[k].attempts
          /\ notice'[k].version = notice[k].version /\ sender' = sender
          /\ notice'[k].expired = notice[k].expired /\ faults' = faults
      BY <1>16 DEF BecomesDue, TypeOK, Notice
    <2>2. Unheld(k)' => Unheld(k)
      BY <2>1 DEF Unheld, Holds, Idle
    <2> QED BY <1>6, <2>1, <2>2
  <1>17. ASSUME NEW d \in Dests, SaveWorkspaceNotification(d) PROVE Room(k)'
    BY <1>2, <1>17 DEF SaveWorkspaceNotification
  <1>18. CASE ArchiveWorkspace \/ ChangePlan
    BY <1>2, <1>18 DEF ArchiveWorkspace, ChangePlan
  <1>19. CASE UNCHANGED vars
    BY <1>2, <1>19 DEF vars
  <1> QED
    BY <1>7, <1>8, <1>9, <1>10, <1>11, <1>12, <1>13, <1>14, <1>15, <1>16, <1>17, <1>18,
       <1>19 DEF Next

-----------------------------------------------------------------------------
(* The theorems.                                                            *)

\* The inductive invariant: the ownership of an open send carries all the rest.
OutboxInv ==
    TypeOK /\ OpenSendCurrent /\ AcceptedAccounted /\ AlertsRaised /\ ClaimRoom

LEMMA OutboxInit == Init => OutboxInv
  <1> SUFFICES ASSUME Init PROVE OutboxInv
    OBVIOUS
  <1>1. TypeOK
    BY TypeInit
  <1>2. /\ \A s \in Senders : sender[s].phase = "idle"
        /\ \A k \in Notices : notice[k] = NoNotice
    BY RestingType DEF Init
  <1>3. OpenSendCurrent
    BY <1>2 DEF OpenSendCurrent, InTx
  <1>4. AcceptedAccounted
    BY <1>2, NoNoticeType DEF AcceptedAccounted, Accepting
  <1>5. AlertsRaised
    BY <1>2, NoNoticeType DEF AlertsRaised
  <1>6. ClaimRoom
    BY <1>2, OutboxAssumption DEF ClaimRoom, Room, NoNotice, Init
  <1> QED BY <1>1, <1>3, <1>4, <1>5, <1>6 DEF OutboxInv

LEMMA OutboxStep == OutboxInv /\ [Next]_vars => OutboxInv'
  BY TypeStep, SendsStep, AcceptedStep, RaisedStep, RoomStep DEF OutboxInv

\* The inductive invariant holds in every reachable state of the outbox.
THEOREM OutboxInvariant == Spec => []OutboxInv
  BY OutboxInit, OutboxStep, PTL DEF Spec

\* Every variable of the outbox keeps its type.
THEOREM OutboxTypeCorrect == Spec => []TypeOK
  BY OutboxInvariant, PTL DEF OutboxInv

\* A send in progress serves the configuration its notice was queued for, in an
\* active workspace, alone on its destination.
THEOREM SendsCorrect == Spec => []OpenSendCurrent
  BY OutboxInvariant, PTL DEF OutboxInv

\* A message goes out again only after a post the provider accepted unheard, or
\* one whose transaction was lost.
THEOREM AcceptedCorrect == Spec => []AcceptedAccounted
  BY OutboxInvariant, PTL DEF OutboxInv

\* Retries end: every claim beyond the limit is the price of a fault.
THEOREM ClaimsCorrect == Spec => []ClaimsBounded
  <1>1. OutboxInv => ClaimsBounded
    BY DEF OutboxInv, ClaimRoom, Room, ClaimsBounded
  <1> QED BY <1>1, OutboxInvariant, PTL

\* A sent, failed or cancelled notice never changes again.
THEOREM FinishedCorrect == Spec => FinishedIsFinal
  <1>1. OutboxInv /\ [Next]_vars
        => [\A k \in Notices : notice[k].status \in Finished
              => notice'[k].status \in {notice[k].status, "absent"}]_vars
    BY FinishedStep DEF OutboxInv
  <1> QED BY <1>1, OutboxInvariant, PTL DEF Spec, FinishedIsFinal
=============================================================================
