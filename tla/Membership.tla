------------------------------ MODULE Membership ------------------------------
(***************************************************************************)
(* Membership of a workspace and of the GitHub installation connected to it *)
(* (workspace-membership.ts, workspaces.ts, workspace-source-access.ts, and *)
(* the member and invite queries of store.ts).                              *)
(*                                                                         *)
(* Either the workspace was created for the installation and its members    *)
(* are the people GitHub links (legacy rows), or the installation was       *)
(* assigned to a workspace that a user created and keeps by invitation      *)
(* (explicit rows). In both, installation_users is a projection that older  *)
(* routes still read and write.                                             *)
(***************************************************************************)
EXTENDS Naturals, FiniteSets

CONSTANTS
    Users,
    MaxRequests,   \* bound: transactions at a time
    MaxInvites     \* bound: people invited at a time

ASSUME MembershipAssumption ==
    /\ IsFiniteSet(Users)
    /\ MaxRequests \in Nat \ {0} /\ MaxInvites \in Nat

VARIABLES
    assigned,    \* whether the installation was assigned to the workspace
    member,      \* member[u]: the row of product_workspace_members
    projected,   \* projected[u]: the role in installation_users
    revoked,     \* rows of product_workspace_revocations
    invite,      \* invite[u]: the pending workspace invitation
    pending,     \* pending[u]: the role in installation_invites
    tx           \* tx[u]: the transaction a user's request is in

vars == <<assigned, member, projected, revoked, invite, pending, tx>>

\* "member" stands for viewer too.
Roles == {"owner", "admin", "member"}
LegacyRoles == {"admin", "member"}
NoMember == [role |-> "none", source |-> "legacy"]
NoInvite == [role |-> "none", by |-> "nobody"]

\* role: that of the person who authorises it, as it was read; of: the user it
\* is about; admins: what it counted.
Idle == [at |-> "idle", role |-> "none", of |-> "nobody", admins |-> 0]

Goto(u, state) == tx' = [tx EXCEPT ![u] = state]
Finish(u) == Goto(u, Idle)
Begin(u, state) ==
    /\ tx[u].at = "idle" /\ Cardinality({v \in Users : tx[v].at # "idle"}) < MaxRequests
    /\ Goto(u, state)

Explicit(u) == member[u].role # "none" /\ member[u].source = "explicit"

MayInvite(v) ==
    Cardinality({u \in Users \ {v} : invite[u].role # "none" \/ pending[u] # "none"}) < MaxInvites

\* access: a legacy member has the role of the installation, or none.
RoleOf(u) ==
    CASE Explicit(u) -> member[u].role
      [] member[u].role # "none" /\ ~Explicit(u) -> projected[u]
      [] OTHER -> "none"

Admins == {u \in Users : projected[u] = "admin"}

\* No other transaction has locked v's row of installation_users; a login locks
\* its user's row to apply an invite, and a row it adds is not seen yet.
Unlocked(u, v) ==
    \A o \in Users \ {u} :
        /\ o = v => tx[o].at \notin {"actor", "target"}
        /\ tx[o].at \in {"target", "linking"} => tx[o].of # v

\* Mutant: a login does not lock the workspace.
NoLock == TRUE

\* Changes of the membership lock the workspace row that logins share.
WorkspaceFree == \A u \in Users : tx[u].at # "linking"

-----------------------------------------------------------------------------
(* The workspace's members.                                                 *)

\* access reads the role in the statement that waits for the lock: when it goes
\* on, other transactions may have changed it.
Authorise(u) ==
    /\ RoleOf(u) \in {"owner", "admin"}
    /\ Begin(u, [Idle EXCEPT !.at = "authorised", !.role = RoleOf(u)])
    /\ UNCHANGED <<assigned, member, projected, revoked, invite, pending>>

InviteWorkspaceMember(u, v, role) ==
    /\ tx[u].at = "authorised" /\ WorkspaceFree
    /\ role = "admin" => tx[u].role = "owner"
    /\ member[v].role = "none" /\ MayInvite(v)
    /\ invite' = [invite EXCEPT ![v] = [role |-> role, by |-> u]]
    /\ Finish(u)
    /\ UNCHANGED <<assigned, member, projected, revoked, pending>>

RevokeWorkspaceInvite(u, v) ==
    /\ tx[u].at = "authorised" /\ WorkspaceFree
    /\ invite[v].role # "none"
    /\ invite' = [invite EXCEPT ![v] = NoInvite]
    /\ Finish(u)
    /\ UNCHANGED <<assigned, member, projected, revoked, pending>>

\* Mutant: an owner is projected as it is.
ProjectedOwner(role) == role

Projection(role) == IF role = "owner" THEN "admin" ELSE role

\* The invitation counts with what its sender may still grant. It lapses when it
\* is replaced; one with the same terms counts as the same.
ReadInvite(u) ==
    LET sender == RoleOf(invite[u].by) IN
    /\ invite[u].role # "none"
    /\ sender \in {"owner", "admin"} /\ (invite[u].role = "admin" => sender = "owner")
    /\ Begin(u, [Idle EXCEPT !.at = "accepting", !.role = invite[u].role, !.of = invite[u].by])
    /\ UNCHANGED <<assigned, member, projected, revoked, invite, pending>>

\* A row that is there already stays.
AcceptWorkspaceInvite(u) ==
    LET row == IF member[u].role = "none"
               THEN [role |-> tx[u].role, source |-> "explicit"] ELSE member[u] IN
    /\ tx[u].at = "accepting" /\ WorkspaceFree /\ Unlocked(u, u)
    /\ invite[u] = [role |-> tx[u].role, by |-> tx[u].of]
    /\ invite' = [invite EXCEPT ![u] = NoInvite]
    /\ member' = [member EXCEPT ![u] = row]
    /\ projected' = [projected EXCEPT ![u] = Projection(row.role)]
    /\ revoked' = revoked \ {u}
    /\ Finish(u)
    /\ UNCHANGED <<assigned, pending>>

\* Mutant: owners are counted as they were authorised.
OwnersOrActor(u) ==
    {v \in Users : member[v].role = "owner"} \cup {v \in Users : v = u /\ tx[u].role = "owner"}

\* The owners a change of u counts.
Owners(u) == {v \in Users : member[v].role = "owner"}

\* What changeWorkspaceMember refuses: target is the row of v.
MayChange(u, v, role) ==
    /\ member[v].role # "none"
    /\ tx[u].role # "owner" => {role, member[v].role} \cap {"owner", "admin"} = {}
    /\ (member[v].role = "owner" /\ role # "owner") => Cardinality(Owners(u)) > 1

ChangeWorkspaceMember(u, v, role) ==
    /\ tx[u].at = "authorised" /\ WorkspaceFree /\ Unlocked(u, v)
    /\ MayChange(u, v, role)
    /\ member' = [member EXCEPT ![v] = IF role = "none" THEN NoMember
                                       ELSE [role |-> role, source |-> "explicit"]]
    /\ projected' = [projected EXCEPT ![v] = Projection(role)]
    /\ revoked' = IF role = "none" THEN revoked \cup {v} ELSE revoked
    /\ invite' = IF role = "none" THEN [invite EXCEPT ![v] = NoInvite] ELSE invite
    /\ Finish(u)
    /\ UNCHANGED <<assigned, pending>>

-----------------------------------------------------------------------------
(* The installation's members, for those who are not explicit members.      *)

\* Whether v is an explicit member is asked before the transaction, which locks
\* the actor's row first.
LockActor(u, v) ==
    /\ ~Explicit(v)
    /\ projected[u] = "admin" /\ Unlocked(u, u)
    /\ Begin(u, [Idle EXCEPT !.at = "actor", !.of = v])
    /\ UNCHANGED <<assigned, member, projected, revoked, invite, pending>>

\* Then the target's row; admins are counted and not locked.
LockTarget(u) ==
    /\ tx[u].at = "actor" /\ Unlocked(u, tx[u].of) /\ projected[tx[u].of] # "none"
    /\ Goto(u, [tx[u] EXCEPT !.at = "target", !.admins = Cardinality(Admins)])
    /\ UNCHANGED <<assigned, member, projected, revoked, invite, pending>>

\* setInstallationRoleForUser, and removeInstallationMemberForUser for "none".
SetInstallationRole(u, role) ==
    LET v == tx[u].of IN
    /\ tx[u].at = "target"
    /\ (projected[v] = "admin" /\ role # "admin") => tx[u].admins > 1
    /\ projected' = [projected EXCEPT ![v] = role]
    /\ Finish(u)
    /\ UNCHANGED <<assigned, member, revoked, invite, pending>>

UpsertInstallationInvite(u, v, role) ==
    /\ tx[u].at = "idle" /\ projected[u] = "admin" /\ Unlocked(u, u)
    /\ projected[v] = "none" /\ MayInvite(v)
    /\ pending' = [pending EXCEPT ![v] = role]
    /\ UNCHANGED <<assigned, member, projected, revoked, invite, tx>>

RevokeInstallationInvite(u, v) ==
    /\ tx[u].at = "idle" /\ projected[u] = "admin" /\ Unlocked(u, u)
    /\ pending[v] # "none"
    /\ pending' = [pending EXCEPT ![v] = "none"]
    /\ UNCHANGED <<assigned, member, projected, revoked, invite, tx>>

-----------------------------------------------------------------------------
(* Signing in.                                                              *)

\* linkUserInstallation, linkUserToAccountInstallations: whoever finds no one
\* there becomes the administrator.
Linked(u) ==
    CASE projected[u] # "none" -> projected[u]
      [] projected[u] = "none" /\ (\A v \in Users : projected[v] = "none") -> "admin"
      [] OTHER -> "member"

\* applyPendingInvite: the last administrator is not demoted.
Applied(u) ==
    IF pending[u] # "admin" /\ Linked(u) = "admin" /\ Admins \ {u} = {}
    THEN Linked(u) ELSE pending[u]

\* Nothing of it is seen before it commits. An explicit member's invite stays,
\* and without one a row that is there is not written.
BeginLink(u) ==
    LET applies == pending[u] # "none" /\ ~Explicit(u) IN
    /\ ~assigned /\ u \notin revoked /\ Unlocked(u, u)
    /\ Begin(u, [Idle EXCEPT !.at = "linking", !.of = IF applies THEN u ELSE "nobody",
                   !.role = CASE applies -> Applied(u)
                              [] ~applies /\ projected[u] = "none" -> Linked(u)
                              [] OTHER -> "none"])
    /\ UNCHANGED <<assigned, member, projected, revoked, invite, pending>>

\* ensureUserWorkspaces adds the legacy row of someone the installation knows.
WithRow(u, role) == IF member[u].role = "none" /\ role # "none"
                    THEN [role |-> role, source |-> "legacy"] ELSE member[u]

Link(u) ==
    /\ tx[u].at = "linking"
    /\ projected' = IF tx[u].role = "none" THEN projected
                    ELSE [projected EXCEPT ![u] = tx[u].role]
    /\ pending' = IF tx[u].of = u THEN [pending EXCEPT ![u] = "none"] ELSE pending
    /\ member' = [member EXCEPT ![u] = WithRow(u, projected'[u])]
    /\ Finish(u)
    /\ UNCHANGED <<assigned, revoked, invite>>

\* Every new session calls ensureUserWorkspaces: its statement reads the
\* installation's role and the revocations,
BeginSession(u) ==
    /\ ~assigned /\ u \notin revoked /\ projected[u] # "none"
    /\ Begin(u, [Idle EXCEPT !.at = "session", !.role = projected[u]])
    /\ UNCHANGED <<assigned, member, projected, revoked, invite, pending>>

\* and may have waited for a member's removal when it adds the row.
CreateSession(u) ==
    /\ tx[u].at = "session"
    /\ member' = [member EXCEPT ![u] = WithRow(u, tx[u].role)]
    /\ Finish(u)
    /\ UNCHANGED <<assigned, projected, revoked, invite, pending>>

\* A check fails, a deadlock is broken, or the request goes away.
RollBack(u) ==
    /\ tx[u].at # "idle" /\ Finish(u)
    /\ UNCHANGED <<assigned, member, projected, revoked, invite, pending>>

-----------------------------------------------------------------------------
\* A new installation that nobody is linked to, or a created workspace with its
\* owner that an installation is assigned to.
Init ==
    /\ revoked = {} /\ invite = [u \in Users |-> NoInvite]
    /\ pending = [u \in Users |-> "none"] /\ tx = [u \in Users |-> Idle]
    /\ \/ /\ assigned = FALSE /\ member = [u \in Users |-> NoMember]
          /\ projected = [u \in Users |-> "none"]
       \/ /\ assigned = TRUE
          /\ \E o \in Users :
               /\ member = [u \in Users |-> IF u = o THEN [role |-> "owner", source |-> "explicit"]
                                            ELSE NoMember]
               /\ projected = [u \in Users |-> IF u = o THEN "admin" ELSE "none"]

Next ==
    \E u \in Users :
        \/ Authorise(u) \/ ReadInvite(u) \/ AcceptWorkspaceInvite(u) \/ LockTarget(u)
        \/ BeginLink(u) \/ Link(u) \/ BeginSession(u) \/ CreateSession(u) \/ RollBack(u)
        \/ \E role \in LegacyRoles \cup {"none"} : SetInstallationRole(u, role)
        \/ \E v \in Users :
             \/ RevokeWorkspaceInvite(u, v) \/ LockActor(u, v) \/ RevokeInstallationInvite(u, v)
             \/ \E role \in LegacyRoles :
                  InviteWorkspaceMember(u, v, role) \/ UpsertInstallationInvite(u, v, role)
             \/ \E role \in Roles \cup {"none"} : ChangeWorkspaceMember(u, v, role)

Spec == Init /\ [][Next]_vars

-----------------------------------------------------------------------------
(* Properties.                                                             *)

\* Every variable has its type; an installation has no owners.
MemberTypeOK ==
    /\ assigned \in BOOLEAN
    /\ member \in [Users -> [role : Roles \cup {"none"}, source : {"legacy", "explicit"}]]
    /\ projected \in [Users -> LegacyRoles \cup {"none"}] /\ revoked \subseteq Users
    /\ invite \in [Users -> [role : LegacyRoles \cup {"none"}, by : Users \cup {"nobody"}]]
    /\ pending \in [Users -> LegacyRoles \cup {"none"}]
    /\ tx \in [Users -> [at : {"idle", "authorised", "accepting", "actor", "target", "linking",
                               "session"},
                         role : Roles \cup {"none"}, of : Users \cup {"nobody"},
                         admins : 0..Cardinality(Users)]]

\* A workspace that was created keeps an owner, although a request that changes
\* a member may act with the role its user had before others changed it.
LastOwnerKept == assigned => \E u \in Users : Explicit(u) /\ member[u].role = "owner"

\* Someone who was removed has no role in the workspace and none in the
\* installation until an invitation is accepted or an administrator gives the
\* row that a late session brought back a role: no sign-in and no older route
\* restores it.
RevokedStaysOut ==
    \A u \in revoked : ~Explicit(u) => RoleOf(u) = "none" /\ projected[u] = "none"

\* "The last admin cannot be demoted or removed": an installation with members
\* has an administrator.  Two administrators who demote each other wait for one
\* another's row, but each may demote itself while the other is still counted.
InstallationKeepsAdmin == (\E u \in Users : projected[u] # "none") => Admins # {}
=============================================================================
