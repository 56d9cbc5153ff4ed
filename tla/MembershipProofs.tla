--------------------------- MODULE MembershipProofs ---------------------------
(* Theorems about Membership, for every set of users and any number of       *)
(* requests at a time.                                                      *)
EXTENDS Membership, FiniteSetTheorems, TLAPS

MemberRow == [role : Roles \cup {"none"}, source : {"legacy", "explicit"}]
Invite == [role : LegacyRoles \cup {"none"}, by : Users \cup {"nobody"}]
Tx == [at : {"idle", "authorised", "accepting", "actor", "target", "linking", "session"},
       role : Roles \cup {"none"}, of : Users \cup {"nobody"}, admins : 0..Cardinality(Users)]

-----------------------------------------------------------------------------
(* The invariant.                                                           *)

\* What a transaction t of u relies on: a login gives a role of an installation
\* to someone who is not removed while it holds the workspace, and whoever holds
\* a member's row knows that the member was not removed.
TxFine(u, t) ==
    /\ t.at \in {"linking", "session"} => t.role \in LegacyRoles \cup {"none"}
    /\ t.at = "linking" => u \notin revoked
    /\ t.at \in {"actor", "target"} => t.of \in Users
    /\ t.at = "target" => t.of \notin revoked \/ Explicit(t.of)

TxTrue == \A u \in Users : TxFine(u, tx[u])

OwnersExplicit == \A u \in Users : member[u].role = "owner" => member[u].source = "explicit"

RevokedOut == \A u \in revoked : ~Explicit(u) => projected[u] = "none"

MemberIInv == MemberTypeOK /\ TxTrue /\ OwnersExplicit /\ LastOwnerKept /\ RevokedOut

LEMMA TypeParts ==
    MemberTypeOK <=>
      /\ assigned \in BOOLEAN /\ member \in [Users -> MemberRow]
      /\ projected \in [Users -> LegacyRoles \cup {"none"}] /\ revoked \subseteq Users
      /\ invite \in [Users -> Invite] /\ pending \in [Users -> LegacyRoles \cup {"none"}]
      /\ tx \in [Users -> Tx]
  BY DEF MemberTypeOK, MemberRow, Invite, Tx

LEMMA UserCount ==
    /\ 0 \in 0..Cardinality(Users)
    /\ \A S \in SUBSET Users : Cardinality(S) \in 0..Cardinality(Users)
  <1>1. IsFiniteSet(Users) /\ Cardinality(Users) \in Nat
    BY MembershipAssumption, FS_CardinalityType
  <1>2. ASSUME NEW S \in SUBSET Users PROVE Cardinality(S) \in 0..Cardinality(Users)
    <2>1. IsFiniteSet(S) /\ Cardinality(S) <= Cardinality(Users)
      BY <1>1, FS_Subset
    <2>2. Cardinality(S) \in Nat
      BY <2>1, FS_CardinalityType
    <2> QED BY <1>1, <2>1, <2>2
  <1> QED BY <1>1, <1>2

LEMMA IdleFine == Idle \in Tx /\ \A u \in Users : TxFine(u, Idle)
  BY UserCount DEF Idle, Tx, TxFine

\* Who is counted as one of several owners leaves another one.
LEMMA OtherOwner ==
    ASSUME MemberTypeOK, NEW u \in Users, NEW v \in Users, Cardinality(Owners(u)) > 1
    PROVE  \E o \in Users : o # v /\ member[o].role = "owner"
  <1> SUFFICES ASSUME \A o \in Users : o # v => member[o].role # "owner"
               PROVE  FALSE
    OBVIOUS
  <1>1. Owners(u) \in SUBSET {v}
    BY DEF Owners
  <1>2. IsFiniteSet({v}) /\ Cardinality({v}) = 1
    BY FS_Singleton
  <1>3. IsFiniteSet(Owners(u)) /\ Cardinality(Owners(u)) <= 1
    BY <1>1, <1>2, FS_Subset
  <1>4. Cardinality(Owners(u)) \in Nat
    BY <1>3, FS_CardinalityType
  <1> QED BY <1>3, <1>4

-----------------------------------------------------------------------------
LEMMA MemberInit == Init => MemberIInv
  <1> SUFFICES ASSUME Init PROVE MemberIInv
    OBVIOUS
  <1>1. MemberTypeOK
    <2>1. /\ revoked \subseteq Users /\ invite \in [Users -> Invite]
          /\ pending \in [Users -> LegacyRoles \cup {"none"}] /\ tx \in [Users -> Tx]
      BY IdleFine DEF Init, NoInvite, Invite
    <2>2. /\ assigned \in BOOLEAN /\ member \in [Users -> MemberRow]
          /\ projected \in [Users -> LegacyRoles \cup {"none"}]
      <3>1. CASE ~assigned
        <4>1. /\ assigned = FALSE /\ member = [u \in Users |-> NoMember]
              /\ projected = [u \in Users |-> "none"]
          BY <3>1 DEF Init
        <4>2. NoMember \in MemberRow
          BY DEF NoMember, MemberRow
        <4> QED BY <4>1, <4>2
      <3>2. CASE assigned
        <4>1. PICK o \in Users :
                /\ member = [u \in Users |-> IF u = o THEN [role |-> "owner", source |-> "explicit"]
                                             ELSE NoMember]
                /\ projected = [u \in Users |-> IF u = o THEN "admin" ELSE "none"]
          BY <3>2 DEF Init
        <4>2. NoMember \in MemberRow /\ [role |-> "owner", source |-> "explicit"] \in MemberRow
          BY DEF NoMember, MemberRow, Roles
        <4>3. assigned \in BOOLEAN
          BY DEF Init
        <4> QED BY <4>1, <4>2, <4>3 DEF LegacyRoles
      <3> QED BY <3>1, <3>2 DEF Init
    <2> QED BY <2>1, <2>2, TypeParts
  <1>2. TxTrue
    BY IdleFine DEF Init, TxTrue
  <1>3. OwnersExplicit /\ LastOwnerKept /\ RevokedOut
    BY DEF Init, OwnersExplicit, LastOwnerKept, RevokedOut, Explicit, NoMember
  <1> QED BY <1>1, <1>2, <1>3 DEF MemberIInv

-----------------------------------------------------------------------------
(* Steps that change invitations and the transaction of one user.           *)

LEMMA TxStep ==
    ASSUME MemberIInv, NEW u \in Users, NEW t \in Tx, TxFine(u, t), tx' = [tx EXCEPT ![u] = t],
           UNCHANGED <<assigned, member, projected, revoked>>,
           invite' \in [Users -> Invite], pending' \in [Users -> LegacyRoles \cup {"none"}]
    PROVE  MemberIInv'
  <1>1. MemberTypeOK'
    BY TypeParts DEF MemberIInv, MemberTypeOK, MemberRow, Invite, Tx
  <1>2. ASSUME NEW v \in Users PROVE TxFine(v, tx[v])'
    <2>1. tx \in [Users -> Tx]
      BY TypeParts DEF MemberIInv
    <2>2. CASE v = u
      BY <2>1, <2>2 DEF TxFine, Explicit
    <2>3. CASE v # u
      BY <2>1, <2>3 DEF MemberIInv, TxTrue, TxFine, Explicit
    <2> QED BY <2>2, <2>3
  <1>3. TxTrue'
    BY <1>2 DEF TxTrue
  <1>4. OwnersExplicit' /\ LastOwnerKept' /\ RevokedOut'
    BY DEF MemberIInv, OwnersExplicit, LastOwnerKept, RevokedOut, Explicit
  <1> QED BY <1>1, <1>3, <1>4 DEF MemberIInv

LEMMA RequestStep ==
    ASSUME MemberIInv, NEW u \in Users,
           \/ Authorise(u) \/ ReadInvite(u) \/ LockTarget(u) \/ BeginLink(u) \/ BeginSession(u)
           \/ RollBack(u)
           \/ \E v \in Users : \/ RevokeWorkspaceInvite(u, v) \/ LockActor(u, v)
                               \/ RevokeInstallationInvite(u, v)
                               \/ \E role \in LegacyRoles : \/ InviteWorkspaceMember(u, v, role)
                                                            \/ UpsertInstallationInvite(u, v, role)
    PROVE  MemberIInv'
  <1>1. /\ member \in [Users -> MemberRow] /\ projected \in [Users -> LegacyRoles \cup {"none"}]
        /\ invite \in [Users -> Invite] /\ pending \in [Users -> LegacyRoles \cup {"none"}]
        /\ tx \in [Users -> Tx] /\ tx[u] \in Tx /\ TxFine(u, tx[u])
        /\ tx = [tx EXCEPT ![u] = tx[u]]
    BY TypeParts DEF MemberIInv, TxTrue
  <1>2. RoleOf(u) \in Roles \cup {"none"}
    BY <1>1 DEF RoleOf, Explicit, MemberRow, Roles, LegacyRoles
  <1>3. CASE Authorise(u)
    <2> DEFINE t == [Idle EXCEPT !.at = "authorised", !.role = RoleOf(u)]
    <2>1. t \in Tx /\ TxFine(u, t)
      BY <1>2, UserCount DEF Idle, Tx, TxFine
    <2>2. tx' = [tx EXCEPT ![u] = t]
      BY <1>3 DEF Authorise, Begin, Goto
    <2> QED BY <1>1, <1>3, <2>1, <2>2, TxStep DEF Authorise
  <1>4. CASE ReadInvite(u)
    <2> DEFINE t == [Idle EXCEPT !.at = "accepting", !.role = invite[u].role, !.of = invite[u].by]
    <2>1. t \in Tx /\ TxFine(u, t)
      BY <1>1, UserCount DEF Idle, Tx, TxFine, Invite, Roles, LegacyRoles
    <2>2. tx' = [tx EXCEPT ![u] = t]
      BY <1>4 DEF ReadInvite, Begin, Goto
    <2> QED BY <1>1, <1>4, <2>1, <2>2, TxStep DEF ReadInvite
  <1>5. CASE LockTarget(u)
    <2> DEFINE t == [tx[u] EXCEPT !.at = "target", !.admins = Cardinality(Admins)]
    <2>1. Cardinality(Admins) \in 0..Cardinality(Users)
      BY UserCount DEF Admins
    <2>2. t \in Tx /\ t.of = tx[u].of /\ t.at = "target" /\ tx[u].at = "actor"
      BY <1>1, <1>5, <2>1 DEF Tx, LockTarget
    <2>3. t.of \in Users /\ projected[t.of] # "none"
      BY <1>1, <1>5, <2>2 DEF TxFine, LockTarget
    <2>4. t.of \notin revoked \/ Explicit(t.of)
      BY <2>3 DEF MemberIInv, RevokedOut
    <2>5. TxFine(u, t)
      BY <2>2, <2>3, <2>4 DEF TxFine
    <2>6. tx' = [tx EXCEPT ![u] = t]
      BY <1>5 DEF LockTarget, Goto
    <2> QED BY <1>1, <1>5, <2>2, <2>5, <2>6, TxStep DEF LockTarget
  <1>6. CASE BeginLink(u)
    <2>1. PICK of \in {u, "nobody"}, role \in LegacyRoles \cup {"none"} :
             tx' = [tx EXCEPT ![u] = [Idle EXCEPT !.at = "linking", !.of = of, !.role = role]]
      BY <1>1, <1>6 DEF BeginLink, Begin, Goto, Applied, Linked, LegacyRoles
    <2> DEFINE t == [Idle EXCEPT !.at = "linking", !.of = of, !.role = role]
    <2>2. t \in Tx /\ TxFine(u, t)
      BY <1>6, UserCount DEF Idle, Tx, TxFine, BeginLink, Roles, LegacyRoles
    <2> QED BY <1>1, <1>6, <2>1, <2>2, TxStep DEF BeginLink
  <1>7. CASE BeginSession(u)
    <2> DEFINE t == [Idle EXCEPT !.at = "session", !.role = projected[u]]
    <2>1. t \in Tx /\ TxFine(u, t)
      BY <1>1, UserCount DEF Idle, Tx, TxFine, Roles, LegacyRoles
    <2>2. tx' = [tx EXCEPT ![u] = t]
      BY <1>7 DEF BeginSession, Begin, Goto
    <2> QED BY <1>1, <1>7, <2>1, <2>2, TxStep DEF BeginSession
  <1>8. CASE RollBack(u)
    BY <1>1, <1>8, IdleFine, TxStep DEF RollBack, Finish, Goto
  <1>9. ASSUME NEW v \in Users, RevokeWorkspaceInvite(u, v) PROVE MemberIInv'
    <2>1. invite' \in [Users -> Invite]
      BY <1>1, <1>9 DEF RevokeWorkspaceInvite, NoInvite, Invite
    <2> QED BY <1>1, <1>9, <2>1, IdleFine, TxStep DEF RevokeWorkspaceInvite, Finish, Goto
  <1>10. ASSUME NEW v \in Users, LockActor(u, v) PROVE MemberIInv'
    <2> DEFINE t == [Idle EXCEPT !.at = "actor", !.of = v]
    <2>1. t \in Tx /\ TxFine(u, t)
      BY UserCount DEF Idle, Tx, TxFine
    <2>2. tx' = [tx EXCEPT ![u] = t]
      BY <1>10 DEF LockActor, Begin, Goto
    <2> QED BY <1>1, <1>10, <2>1, <2>2, TxStep DEF LockActor
  <1>11. ASSUME NEW v \in Users, RevokeInstallationInvite(u, v) PROVE MemberIInv'
    <2>1. pending' \in [Users -> LegacyRoles \cup {"none"}]
      BY <1>1, <1>11 DEF RevokeInstallationInvite
    <2> QED BY <1>1, <1>11, <2>1, TxStep DEF RevokeInstallationInvite
  <1>12. ASSUME NEW v \in Users, NEW role \in LegacyRoles, InviteWorkspaceMember(u, v, role)
         PROVE  MemberIInv'
    <2>1. invite' \in [Users -> Invite]
      BY <1>1, <1>12 DEF InviteWorkspaceMember, Invite
    <2> QED BY <1>1, <1>12, <2>1, IdleFine, TxStep DEF InviteWorkspaceMember, Finish, Goto
  <1>13. ASSUME NEW v \in Users, NEW role \in LegacyRoles, UpsertInstallationInvite(u, v, role)
         PROVE  MemberIInv'
    <2>1. pending' \in [Users -> LegacyRoles \cup {"none"}]
      BY <1>1, <1>13 DEF UpsertInstallationInvite
    <2> QED BY <1>1, <1>13, <2>1, TxStep DEF UpsertInstallationInvite
  <1> QED BY <1>3, <1>4, <1>5, <1>6, <1>7, <1>8, <1>9, <1>10, <1>11, <1>12, <1>13

-----------------------------------------------------------------------------
(* Steps that change members.                                               *)

\* A row that was there is found as it was.
LEMMA MemberFacts ==
    ASSUME MemberIInv, NEW u \in Users
    PROVE  /\ assigned \in BOOLEAN /\ member \in [Users -> MemberRow]
           /\ projected \in [Users -> LegacyRoles \cup {"none"}] /\ revoked \subseteq Users
           /\ invite \in [Users -> Invite] /\ pending \in [Users -> LegacyRoles \cup {"none"}]
           /\ tx \in [Users -> Tx] /\ tx[u] \in Tx /\ tx[u].role \in Roles \cup {"none"}
           /\ member[u] \in MemberRow /\ TxFine(u, tx[u])
           /\ \A v \in Users : TxFine(v, tx[v])
           /\ Idle \in Tx /\ NoInvite \in Invite /\ NoMember \in MemberRow
           /\ OwnersExplicit /\ LastOwnerKept /\ RevokedOut
  BY TypeParts, IdleFine DEF MemberIInv, TxTrue, Tx, NoInvite, Invite, NoMember, MemberRow

\* The user's transaction ends, and the others' rely on what they did.
LEMMA FinishStep ==
    ASSUME MemberIInv, NEW u \in Users, Finish(u),
           \A v \in Users \ {u} : TxFine(v, tx[v]) => TxFine(v, tx[v])',
           member' \in [Users -> MemberRow], projected' \in [Users -> LegacyRoles \cup {"none"}],
           revoked' \subseteq Users, invite' \in [Users -> Invite],
           pending' \in [Users -> LegacyRoles \cup {"none"}], assigned' = assigned,
           OwnersExplicit', LastOwnerKept', RevokedOut'
    PROVE  MemberIInv'
  <1>1. tx' = [tx EXCEPT ![u] = Idle] /\ tx' \in [Users -> Tx]
    BY MemberFacts DEF Finish, Goto
  <1>2. MemberTypeOK'
    BY <1>1, MemberFacts DEF MemberTypeOK, MemberRow, Invite, Tx
  <1>3. tx'[u].at = "idle"
    BY <1>1, MemberFacts DEF Idle
  <1>4. ASSUME NEW v \in Users PROVE TxFine(v, tx[v])'
    <2>1. CASE v = u
      BY <1>3, <2>1 DEF TxFine
    <2>2. CASE v # u
      BY <2>2, MemberFacts
    <2> QED BY <2>1, <2>2
  <1>5. TxTrue'
    BY <1>4 DEF TxTrue
  <1> QED BY <1>2, <1>5 DEF MemberIInv

LEMMA AcceptStep ==
    ASSUME MemberIInv, NEW u \in Users, AcceptWorkspaceInvite(u)
    PROVE  MemberIInv'
  <1> DEFINE row == IF member[u].role = "none"
                    THEN [role |-> tx[u].role, source |-> "explicit"] ELSE member[u]
  <1>1. row \in MemberRow /\ Projection(row.role) \in LegacyRoles \cup {"none"}
    BY MemberFacts DEF MemberRow, Projection, Roles, LegacyRoles
  <1>2. /\ member' = [member EXCEPT ![u] = row]
        /\ projected' = [projected EXCEPT ![u] = Projection(row.role)]
        /\ revoked' = revoked \ {u} /\ invite' = [invite EXCEPT ![u] = NoInvite]
        /\ Finish(u) /\ assigned' = assigned /\ pending' = pending
    BY DEF AcceptWorkspaceInvite
  <1>3. row.role = "owner" => row.source = "explicit"
    BY MemberFacts DEF OwnersExplicit
  <1>4. member[u].role # "none" => row = member[u]
    OBVIOUS
  <1> HIDE DEF row
  <1>5. OwnersExplicit'
    BY <1>2, <1>3, MemberFacts DEF OwnersExplicit
  <1>6. LastOwnerKept'
    BY <1>2, <1>4, MemberFacts DEF LastOwnerKept, Explicit
  <1>7. RevokedOut'
    BY <1>2, MemberFacts DEF RevokedOut, Explicit
  <1>8. ASSUME NEW v \in Users \ {u}, TxFine(v, tx[v]) PROVE TxFine(v, tx[v])'
    <2>1. tx'[v] = tx[v]
      BY <1>2, MemberFacts DEF Finish, Goto
    <2>2. ASSUME NEW o \in Users, o # u PROVE Explicit(o)' <=> Explicit(o)
      BY <1>2, <2>2, MemberFacts DEF Explicit
    <2> QED BY <1>2, <1>8, <2>1, <2>2 DEF TxFine
  <1> QED BY <1>1, <1>2, <1>5, <1>6, <1>7, <1>8, MemberFacts, FinishStep

LEMMA ChangeStep ==
    ASSUME MemberIInv, NEW u \in Users, NEW v \in Users, NEW role \in Roles \cup {"none"},
           ChangeWorkspaceMember(u, v, role)
    PROVE  MemberIInv'
  <1> DEFINE row == IF role = "none" THEN NoMember ELSE [role |-> role, source |-> "explicit"]
  <1>1. /\ row \in MemberRow /\ Projection(role) \in LegacyRoles \cup {"none"}
        /\ row.role = role /\ (role # "none" => row.source = "explicit")
    BY MemberFacts DEF MemberRow, Projection, Roles, LegacyRoles, NoMember
  <1>2. /\ member' = [member EXCEPT ![v] = row]
        /\ projected' = [projected EXCEPT ![v] = Projection(role)]
        /\ revoked' = IF role = "none" THEN revoked \cup {v} ELSE revoked
        /\ invite' = IF role = "none" THEN [invite EXCEPT ![v] = NoInvite] ELSE invite
        /\ Finish(u) /\ assigned' = assigned /\ pending' = pending
        /\ WorkspaceFree /\ Unlocked(u, v) /\ MayChange(u, v, role)
    BY DEF ChangeWorkspaceMember
  <1> HIDE DEF row
  <1>3. OwnersExplicit'
    BY <1>1, <1>2, MemberFacts DEF OwnersExplicit
  <1>4. LastOwnerKept'
    <2> SUFFICES ASSUME assigned PROVE \E o \in Users : Explicit(o)' /\ member'[o].role = "owner"
      BY <1>2 DEF LastOwnerKept
    <2>1. CASE role = "owner"
      BY <1>1, <1>2, <2>1, MemberFacts DEF Explicit
    <2>2. CASE role # "owner"
      <3>1. \E o \in Users : o # v /\ member[o].role = "owner"
        <4>1. CASE member[v].role = "owner"
          <5>1. Cardinality(Owners(u)) > 1
            BY <1>2, <2>2, <4>1 DEF MayChange
          <5>2. MemberTypeOK
            BY DEF MemberIInv
          <5>3. \E o \in Users : o # v /\ member[o].role = "owner"
            BY <5>1, <5>2, OtherOwner
          <5> QED BY <5>3
        <4>2. CASE member[v].role # "owner"
          BY <4>2, MemberFacts DEF LastOwnerKept
        <4> QED BY <4>1, <4>2
      <3> QED BY <1>2, <3>1, MemberFacts DEF Explicit, OwnersExplicit
    <2> QED BY <2>1, <2>2
  <1>5. RevokedOut'
    <2> SUFFICES ASSUME NEW o \in revoked', ~Explicit(o)' PROVE projected'[o] = "none"
      BY DEF RevokedOut
    <2>1. CASE o = v
      <3>1. role = "none"
        BY <1>1, <1>2, <2>1, MemberFacts DEF Explicit
      <3> QED BY <1>2, <2>1, <3>1, MemberFacts DEF Projection
    <2>2. CASE o # v
      <3>1. o \in revoked /\ o \in Users
        BY <1>2, <2>2, MemberFacts
      <3>2. ~Explicit(o) /\ projected'[o] = projected[o]
        BY <1>2, <2>2, <3>1, MemberFacts DEF Explicit
      <3> QED BY <3>1, <3>2, MemberFacts DEF RevokedOut
    <2> QED BY <2>1, <2>2
  <1>6. ASSUME NEW o \in Users \ {u}, TxFine(o, tx[o]) PROVE TxFine(o, tx[o])'
    <2>1. tx'[o] = tx[o]
      BY <1>2, MemberFacts DEF Finish, Goto
    <2>2. tx[o].at # "linking"
      BY <1>2 DEF WorkspaceFree
    <2>3. ASSUME tx[o].at = "target" PROVE tx[o].of \notin revoked' \/ Explicit(tx[o].of)'
      <3>1. tx[o].of # v /\ tx[o].of \in Users
        BY <1>2, <1>6, <2>3 DEF Unlocked, TxFine
      <3> QED BY <1>2, <1>6, <2>1, <2>3, <3>1, MemberFacts DEF TxFine, Explicit
    <2> QED BY <1>6, <2>1, <2>2, <2>3 DEF TxFine
  <1> QED BY <1>1, <1>2, <1>3, <1>4, <1>5, <1>6, MemberFacts, FinishStep

LEMMA SetRoleStep ==
    ASSUME MemberIInv, NEW u \in Users, NEW role \in LegacyRoles \cup {"none"},
           SetInstallationRole(u, role)
    PROVE  MemberIInv'
  <1>1. /\ tx[u].at = "target" /\ projected' = [projected EXCEPT ![tx[u].of] = role] /\ Finish(u)
        /\ UNCHANGED <<assigned, member, revoked, invite, pending>>
    BY DEF SetInstallationRole
  <1>2. tx[u].of \in Users /\ (tx[u].of \notin revoked \/ Explicit(tx[u].of))
    BY <1>1, MemberFacts DEF TxFine
  <1>3. projected' \in [Users -> LegacyRoles \cup {"none"}]
    BY <1>1, MemberFacts
  <1>4. OwnersExplicit' /\ LastOwnerKept'
    BY <1>1, MemberFacts DEF OwnersExplicit, LastOwnerKept, Explicit
  <1>5. RevokedOut'
    BY <1>1, <1>2, MemberFacts DEF RevokedOut, Explicit
  <1>6. ASSUME NEW o \in Users \ {u}, TxFine(o, tx[o]) PROVE TxFine(o, tx[o])'
    <2>1. tx'[o] = tx[o]
      BY <1>1, MemberFacts DEF Finish, Goto
    <2> QED BY <1>1, <1>6, <2>1 DEF TxFine, Explicit
  <1> QED BY <1>1, <1>3, <1>4, <1>5, <1>6, MemberFacts, FinishStep

\* A login adds a row and changes none.
LEMMA WithRowFacts ==
    ASSUME MemberIInv, NEW u \in Users, NEW role \in LegacyRoles \cup {"none"},
           member' = [member EXCEPT ![u] = WithRow(u, role)], assigned' = assigned
    PROVE  /\ member' \in [Users -> MemberRow] /\ OwnersExplicit' /\ LastOwnerKept'
           /\ \A v \in Users : Explicit(v)' <=> Explicit(v)
  <1>1. /\ WithRow(u, role) \in MemberRow
        /\ member[u].role # "none" => WithRow(u, role) = member[u]
        /\ member[u].role = "none" =>
             WithRow(u, role).source # "explicit" \/ WithRow(u, role).role = "none"
        /\ member[u].role = "none" => WithRow(u, role).role # "owner"
    BY MemberFacts DEF WithRow, MemberRow, Roles, LegacyRoles
  <1>2. member' \in [Users -> MemberRow]
    BY <1>1, MemberFacts
  <1>3. \A v \in Users : Explicit(v)' <=> Explicit(v)
    BY <1>1, MemberFacts DEF Explicit
  <1>4. OwnersExplicit'
    BY <1>1, MemberFacts DEF OwnersExplicit
  <1>5. LastOwnerKept'
    BY <1>1, <1>3, MemberFacts DEF LastOwnerKept
  <1> QED BY <1>2, <1>3, <1>4, <1>5

LEMMA LinkStep ==
    ASSUME MemberIInv, NEW u \in Users, Link(u)
    PROVE  MemberIInv'
  <1>1. tx[u].at = "linking" /\ tx[u].role \in LegacyRoles \cup {"none"} /\ u \notin revoked
    BY MemberFacts DEF Link, TxFine
  <1>2. /\ projected' \in [Users -> LegacyRoles \cup {"none"}]
        /\ \A v \in Users : v # u => projected'[v] = projected[v]
    BY <1>1, MemberFacts DEF Link
  <1>3. pending' \in [Users -> LegacyRoles \cup {"none"}]
    BY MemberFacts DEF Link
  <1>4. /\ member' = [member EXCEPT ![u] = WithRow(u, projected'[u])] /\ Finish(u)
        /\ assigned' = assigned /\ revoked' = revoked /\ invite' = invite
    BY DEF Link
  <1>5. /\ member' \in [Users -> MemberRow] /\ OwnersExplicit' /\ LastOwnerKept'
        /\ \A v \in Users : Explicit(v)' <=> Explicit(v)
    BY <1>2, <1>4, WithRowFacts
  <1>6. RevokedOut'
    BY <1>1, <1>2, <1>4, <1>5, MemberFacts DEF RevokedOut
  <1>7. ASSUME NEW o \in Users \ {u}, TxFine(o, tx[o]) PROVE TxFine(o, tx[o])'
    <2>1. tx'[o] = tx[o]
      BY <1>4, MemberFacts DEF Finish, Goto
    <2> QED BY <1>4, <1>5, <1>7, <2>1 DEF TxFine
  <1> QED BY <1>2, <1>3, <1>4, <1>5, <1>6, <1>7, MemberFacts, FinishStep

LEMMA SessionStep ==
    ASSUME MemberIInv, NEW u \in Users, CreateSession(u)
    PROVE  MemberIInv'
  <1>1. tx[u].role \in LegacyRoles \cup {"none"}
    BY MemberFacts DEF CreateSession, TxFine
  <1>2. /\ member' = [member EXCEPT ![u] = WithRow(u, tx[u].role)] /\ Finish(u)
        /\ UNCHANGED <<assigned, projected, revoked, invite, pending>>
    BY DEF CreateSession
  <1>3. /\ member' \in [Users -> MemberRow] /\ OwnersExplicit' /\ LastOwnerKept'
        /\ \A v \in Users : Explicit(v)' <=> Explicit(v)
    BY <1>1, <1>2, WithRowFacts
  <1>4. RevokedOut'
    BY <1>2, <1>3, MemberFacts DEF RevokedOut
  <1>5. ASSUME NEW o \in Users \ {u}, TxFine(o, tx[o]) PROVE TxFine(o, tx[o])'
    <2>1. tx'[o] = tx[o]
      BY <1>2, MemberFacts DEF Finish, Goto
    <2> QED BY <1>2, <1>3, <1>5, <2>1 DEF TxFine
  <1> QED BY <1>2, <1>3, <1>4, <1>5, MemberFacts, FinishStep

-----------------------------------------------------------------------------
LEMMA MemberStep == MemberIInv /\ [Next]_vars => MemberIInv'
  <1> SUFFICES ASSUME MemberIInv, [Next]_vars PROVE MemberIInv'
    OBVIOUS
  <1>1. CASE UNCHANGED vars
    BY <1>1 DEF vars, MemberIInv, MemberTypeOK, TxTrue, TxFine, OwnersExplicit, LastOwnerKept,
       RevokedOut, Explicit
  <1>2. ASSUME NEW u \in Users, NEW v \in Users, NEW role \in Roles \cup {"none"},
               ChangeWorkspaceMember(u, v, role)
        PROVE  MemberIInv'
    BY <1>2, ChangeStep
  <1>3. CASE Next
    BY <1>2, <1>3, RequestStep, AcceptStep, SetRoleStep, LinkStep, SessionStep DEF Next
  <1> QED BY <1>1, <1>3

LEMMA MemberInvariant == Spec => []MemberIInv
  BY MemberInit, MemberStep, PTL DEF Spec

\* Every variable keeps its type; an installation has no owners.
THEOREM MemberTypeCorrect == Spec => []MemberTypeOK
  <1>1. MemberIInv => MemberTypeOK
    BY DEF MemberIInv
  <1> QED BY <1>1, MemberInvariant, PTL

\* A workspace that was created keeps an owner.
THEOREM OwnerRemains == Spec => []LastOwnerKept
  <1>1. MemberIInv => LastOwnerKept
    BY DEF MemberIInv
  <1> QED BY <1>1, MemberInvariant, PTL

\* Someone who was removed stays out, whatever logins and older routes do.
THEOREM RemovedRemainsOut == Spec => []RevokedStaysOut
  <1>1. MemberIInv => RevokedStaysOut
    <2> SUFFICES ASSUME MemberIInv, NEW u \in revoked, ~Explicit(u)
                 PROVE  RoleOf(u) = "none" /\ projected[u] = "none"
      BY DEF RevokedStaysOut
    <2>1. projected[u] = "none"
      BY DEF MemberIInv, RevokedOut
    <2> QED BY <2>1 DEF RoleOf
  <1> QED BY <1>1, MemberInvariant, PTL
=============================================================================
