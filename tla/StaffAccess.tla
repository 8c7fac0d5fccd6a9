---------------------------- MODULE StaffAccess ----------------------------
(***************************************************************************)
(* Who may administer the platform: the owner, members of staff with their *)
(* roles, invitations, and the access snapshots cached by each API         *)
(* instance.                                                               *)
(*                                                                         *)
(*   - StaffAccessService.resolve: the guard of every staff route takes    *)
(*     the snapshot of the caller from the cache, or loads it and then     *)
(*     remembers it;                                                       *)
(*   - StaffRbacService: roles and members, each a check by the snapshot   *)
(*     of the caller, then a transaction, then an invalidation of the      *)
(*     cache of this instance;                                             *)
(*   - PlatformGovernanceService: invitations and the transfer of          *)
(*     ownership;                                                          *)
(*   - AccountLifecycleReconciler.expirePlatformInvitations.               *)
(*                                                                         *)
(* Accounts are active: bans and deletions are in module Accounts. One     *)
(* session of a user stands for all, it opens a new one whenever his       *)
(* sessions are dropped, and it is always strong and fresh.                *)
(***************************************************************************)
EXTENDS Integers, FiniteSets, FiniteSetsExt

CONSTANTS
    Users,
    Owner,       \* the owner at the start
    Member,      \* the only member of staff at the start
    Roles,
    FirstRole,   \* the role of Member at the start, the only role
    FirstRank,   \* its position
    FirstPerms,  \* its permissions
    Perms,       \* registered permissions
    Manage,      \* the permission the modelled routes ask for
    MaxRank,     \* the highest position of a role
    Invites,     \* bound: invitations ever written
    Instances,   \* processes of the API, each with its own cache
    Calls,       \* calls that can be in progress at once
    MaxCalls     \* bound: calls ever begun

ASSUME StaffAssumption ==
    /\ Owner \in Users /\ Member \in Users \ {Owner}
    /\ FirstRole \in Roles /\ Manage \in Perms /\ FirstPerms \subseteq Perms
    /\ Instances # {}
    /\ MaxRank \in Nat /\ FirstRank \in 0..MaxRank /\ MaxCalls \in Nat

VARIABLES
    account,  \* User.role
    member,   \* StaffMembership.status, or "NONE"
    role,     \* StaffRole rows with their permissions
    holds,    \* StaffUserRole rows: the roles of each account
    invite,   \* PlatformInvitation rows
    cache,    \* the snapshots each instance remembers
    call,     \* calls in progress
    begun,    \* how many calls were begun
    cleared   \* instances whose revocation of an account is complete

vars == <<account, member, role, holds, invite, cache, call, begun, cleared>>

Ranks == 0..MaxRank

\* "none": resolved, and neither owner nor active staff; "absent": not in the cache.
Access == [kind : {"OWNER", "STAFF", "none", "absent"}, perms : SUBSET Perms, rank : Ranks]

Role == [exists : BOOLEAN, rank : Ranks, perms : SUBSET Perms]

Invite == [status : {"none", "PENDING", "ACCEPTED", "REVOKED", "EXPIRED"},
           to : Users, roles : SUBSET Roles]

Ops == {"createRole", "updateRole", "setRolePermissions", "deleteRole",
        "createStaffMember", "assignRole", "removeRole", "setStaffRoles",
        "suspend", "activate", "revokeStaffMember",
        "createInvitation", "revokeInvitation", "acceptInvitation", "transferOwnership"}

\* What a call has been asked to do, and has found nothing against.
Order == [op : Ops \union {"none"}, user : Users, roles : SUBSET Roles,
          perms : SUBSET Perms, rank : Ranks, invites : SUBSET Invites]

Call == [step : {"idle", "loaded", "ready", "checked", "committed"},
         at : Instances, actor : Users, access : Access, order : Order]

No == [op |-> "none", user |-> Owner, roles |-> {}, perms |-> {}, rank |-> 0, invites |-> {}]
Absent == [kind |-> "absent", perms |-> {}, rank |-> 0]
NoRole == [exists |-> FALSE, rank |-> 0, perms |-> {}]
NoCall == [step |-> "idle", at |-> CHOOSE i \in Instances : TRUE, actor |-> Owner,
           access |-> Absent, order |-> No]

TypeOK ==
    /\ account \in [Users -> {"USER", "STAFF", "OWNER"}]
    /\ member \in [Users -> {"NONE", "ACTIVE", "SUSPENDED", "REVOKED"}]
    /\ role \in [Roles -> Role]
    /\ holds \in [Users -> SUBSET Roles]
    /\ invite \in [Invites -> Invite]
    /\ cache \in [Instances -> [Users -> Access]]
    /\ call \in [Calls -> Call]
    /\ begun \in 0..MaxCalls
    /\ cleared \subseteq Instances \X Users

Init ==
    /\ account = [u \in Users |-> CASE u = Owner -> "OWNER"
                                    [] u = Member -> "STAFF"
                                    [] OTHER -> "USER"]
    /\ member = [u \in Users |-> IF u = Member THEN "ACTIVE" ELSE "NONE"]
    /\ role = [r \in Roles |-> IF r = FirstRole
                               THEN [exists |-> TRUE, rank |-> FirstRank, perms |-> FirstPerms]
                               ELSE NoRole]
    /\ holds = [u \in Users |-> IF u = Member THEN {FirstRole} ELSE {}]
    /\ invite = [n \in Invites |-> [status |-> "none", to |-> Owner, roles |-> {}]]
    /\ cache = [i \in Instances |-> [u \in Users |-> Absent]]
    /\ call = [c \in Calls |-> NoCall]
    /\ begun = 0
    /\ cleared = {}

rows == <<account, member, role, holds, invite>>

----------------------------------------------------------------------------
(* StaffAccessService *)

PermsOf(u) == UNION {role[r].perms : r \in holds[u]}
RankOf(u) == Max({0} \union {role[r].rank : r \in holds[u]})

\* load: one statement.
Loaded(u) ==
    CASE account[u] = "OWNER" -> [kind |-> "OWNER", perms |-> Perms, rank |-> MaxRank]
      [] account[u] = "STAFF" /\ member[u] = "ACTIVE" ->
            [kind |-> "STAFF", perms |-> PermsOf(u), rank |-> RankOf(u)]
      [] OTHER -> [kind |-> "none", perms |-> {}, rank |-> 0]

\* Of the owner's snapshot nothing is compared (canManageRole, hasPermission).
Manages(access, rank, perms) ==
    access.kind = "OWNER" \/ (access.rank > rank /\ perms \subseteq access.perms)

MayEnter(access) ==
    access.kind = "OWNER" \/ (access.kind = "STAFF" /\ Manage \in access.perms)

\* resolve finds an entry ...
Hit(c, i, u) ==
    /\ call[c].step = "idle" /\ begun < MaxCalls
    /\ MayEnter(cache[i][u])
    /\ call' = [call EXCEPT ![c] = [NoCall EXCEPT !.step = "ready", !.at = i, !.actor = u,
                                                  !.access = cache[i][u]]]
    /\ begun' = begun + 1
    /\ UNCHANGED <<account, member, role, holds, invite, cache, cleared>>

\* ... or none, and awaits the row. The browsers of owner and staff, past
\* ones too, call staff routes.
Load(c, i, u) ==
    /\ call[c].step = "idle" /\ begun < MaxCalls
    /\ cache[i][u].kind = "absent"
    /\ account[u] # "USER" \/ member[u] # "NONE"
    /\ call' = [call EXCEPT ![c] = [NoCall EXCEPT !.step = "loaded", !.at = i, !.actor = u,
                                                  !.access = Loaded(u)]]
    /\ begun' = begun + 1
    /\ UNCHANGED <<account, member, role, holds, invite, cache, cleared>>

\* The entry is written whatever happened since the statement.
Remember(c) ==
    /\ call[c].step = "loaded"
    /\ cache' = [cache EXCEPT ![call[c].at][call[c].actor] = call[c].access]
    /\ call' = [call EXCEPT ![c] = IF MayEnter(@.access) THEN [@ EXCEPT !.step = "ready"]
                                   ELSE NoCall]
    /\ UNCHANGED <<account, member, role, holds, invite, begun, cleared>>

\* Five seconds after it was written, or the cache is full.
Expire(i, u) ==
    /\ cache[i][u].kind # "absent"
    /\ cache' = [cache EXCEPT ![i][u] = Absent]
    /\ UNCHANGED <<account, member, role, holds, invite, call, begun, cleared>>

\* The caller's own membership is not his to change.
Other(c, u) == call[c].actor # u

----------------------------------------------------------------------------
(* The checks of a call, made outside of its transaction. *)

\* Mutant: what the caller does not hold may be granted.
GrantableAny(access, perms) == MayEnter(access)

Grantable(access, perms) == access.kind = "OWNER" \/ perms \subseteq access.perms

ManageableRole(access, r) ==
    role[r].exists /\ Manages(access, role[r].rank, role[r].perms)

ManageableRoles(access, rs) == rs # {} /\ \A r \in rs : ManageableRole(access, r)

ManageableMember(access, u) ==
    account[u] = "STAFF" /\ Manages(access, RankOf(u), PermsOf(u))

Found(c, order) ==
    /\ call[c].step = "ready"
    /\ call' = [call EXCEPT ![c].step = "checked", ![c].order = order]
    /\ UNCHANGED <<rows, cache, begun, cleared>>

CheckCreateRole(c, rank, perms) ==
    /\ Manages(call[c].access, rank, {}) /\ Grantable(call[c].access, perms)
    /\ Found(c, [No EXCEPT !.op = "createRole", !.rank = rank, !.perms = perms])

CheckUpdateRole(c, r, rank) ==
    /\ ManageableRole(call[c].access, r) /\ Manages(call[c].access, rank, {})
    /\ Found(c, [No EXCEPT !.op = "updateRole", !.roles = {r}, !.rank = rank])

CheckSetRolePermissions(c, r, perms) ==
    /\ ManageableRole(call[c].access, r) /\ Grantable(call[c].access, perms)
    /\ Found(c, [No EXCEPT !.op = "setRolePermissions", !.roles = {r}, !.perms = perms])

\* Counted here, deleted later.
CheckDeleteRole(c, r) ==
    /\ ManageableRole(call[c].access, r)
    /\ \A u \in Users : r \notin holds[u]
    /\ \A n \in Invites : invite[n].status = "PENDING" => r \notin invite[n].roles
    /\ Found(c, [No EXCEPT !.op = "deleteRole", !.roles = {r}])

\* The account is read inside the transaction, but by a plain SELECT under READ
\* COMMITTED, which holds nobody off until the UPDATE.
CheckCreateStaffMember(c, u, rs) ==
    /\ Other(c, u) /\ account[u] = "USER"
    /\ ManageableRoles(call[c].access, rs)
    /\ Found(c, [No EXCEPT !.op = "createStaffMember", !.user = u, !.roles = rs])

CheckOneRole(c, op, u, r) ==
    /\ op \in {"assignRole", "removeRole"}
    /\ Other(c, u) /\ ManageableRole(call[c].access, r) /\ ManageableMember(call[c].access, u)
    /\ Found(c, [No EXCEPT !.op = op, !.user = u, !.roles = {r}])

CheckSetStaffRoles(c, u, rs) ==
    /\ Other(c, u) /\ ManageableMember(call[c].access, u)
    /\ ManageableRoles(call[c].access, rs)
    /\ Found(c, [No EXCEPT !.op = "setStaffRoles", !.user = u, !.roles = rs])

CheckMember(c, op, u) ==
    /\ op \in {"suspend", "activate", "revokeStaffMember"}
    /\ Other(c, u) /\ ManageableMember(call[c].access, u)
    /\ Found(c, [No EXCEPT !.op = op, !.user = u])

CheckCreateInvitation(c, u, rs) ==
    /\ account[u] = "USER" /\ ManageableRoles(call[c].access, rs)
    /\ Found(c, [No EXCEPT !.op = "createInvitation", !.user = u, !.roles = rs])

CheckRevokeInvitation(c, n) ==
    /\ invite[n].status = "PENDING"
    /\ Found(c, [No EXCEPT !.op = "revokeInvitation", !.invites = {n}])

CheckTransferOwnership(c, u, rs) ==
    /\ call[c].access.kind = "OWNER" /\ Other(c, u)
    /\ Found(c, [No EXCEPT !.op = "transferOwnership", !.user = u, !.roles = rs])

\* The invited customer, who is no staff, follows the link.
CheckAcceptInvitation(c, i, u, n) ==
    /\ call[c].step = "idle" /\ begun < MaxCalls
    /\ invite[n].status = "PENDING"
    /\ call' = [call EXCEPT ![c] =
            [NoCall EXCEPT !.step = "checked", !.at = i, !.actor = u,
                           !.order = [No EXCEPT !.op = "acceptInvitation", !.user = u,
                                                !.invites = {n}]]]
    /\ begun' = begun + 1
    /\ UNCHANGED <<rows, cache, cleared>>

----------------------------------------------------------------------------
(* The transactions. *)

RolesExist(rs) == \A r \in rs : role[r].exists

\* Mutant: the transfer trusts the snapshot of the caller.
CurrentOwnerBySnapshot(u) == Cardinality({v \in Users : account[v] = "OWNER"}) = 1

CurrentOwner(u) == {v \in Users : account[v] = "OWNER"} = {u}

\* Mutant: acceptInvitation relies on its first look at the invitation.
AcceptableFound(u, n) == invite[n].to = u /\ account[u] = "USER"

Acceptable(u, n) ==
    /\ invite[n].status = "PENDING" /\ invite[n].to = u
    /\ account[u] = "USER"

\* What the transactions check again, and what the constraints of the tables
\* refuse: a foreign key to a role that is gone, a role that is already held.
Passes(actor, o) ==
    CASE o.op \in {"createRole", "revokeInvitation"} -> TRUE
      [] o.op \in {"updateRole", "setRolePermissions", "deleteRole", "createStaffMember",
                   "assignRole", "setStaffRoles", "createInvitation"} -> RolesExist(o.roles)
      [] o.op = "removeRole" -> Cardinality(holds[o.user]) > 1 /\ o.roles \subseteq holds[o.user]
      [] o.op \in {"suspend", "activate"} -> member[o.user] # "NONE"
      [] o.op = "revokeStaffMember" -> account[o.user] = "STAFF"
      [] o.op = "acceptInvitation" ->
            \A n \in o.invites : /\ Acceptable(actor, n) /\ invite[n].roles # {}
                                 /\ invite[n].roles \intersect holds[actor] = {}
      [] o.op = "transferOwnership" ->
            /\ CurrentOwner(actor)
            /\ account[o.user] = "STAFF" /\ member[o.user] = "ACTIVE"
            /\ RolesExist(o.roles)

\* An exception: the call ends without an invalidation.
Refuse(c) ==
    /\ call[c].step = "checked" /\ ~Passes(call[c].actor, call[c].order)
    /\ call' = [call EXCEPT ![c] = NoCall]
    /\ UNCHANGED <<rows, cache, begun, cleared>>

Committing(c, op) ==
    /\ call[c].step = "checked" /\ call[c].order.op = op
    /\ Passes(call[c].actor, call[c].order)
    /\ call' = [call EXCEPT ![c].step = "committed"]
    /\ UNCHANGED <<cache, begun>>

CreateRole(c) ==
    /\ Committing(c, "createRole")
    /\ \E r \in Roles :
        /\ ~role[r].exists
        /\ role' = [role EXCEPT ![r] = [exists |-> TRUE, rank |-> call[c].order.rank,
                                        perms |-> call[c].order.perms]]
    /\ UNCHANGED <<account, member, holds, invite, cleared>>

UpdateRole(c) ==
    /\ Committing(c, "updateRole")
    /\ role' = [r \in Roles |-> IF r \in call[c].order.roles
                                THEN [role[r] EXCEPT !.rank = call[c].order.rank] ELSE role[r]]
    /\ UNCHANGED <<account, member, holds, invite, cleared>>

SetRolePermissions(c) ==
    /\ Committing(c, "setRolePermissions")
    /\ role' = [r \in Roles |-> IF r \in call[c].order.roles
                                THEN [role[r] EXCEPT !.perms = call[c].order.perms] ELSE role[r]]
    /\ UNCHANGED <<account, member, holds, invite, cleared>>

\* Links of settled and pending invitations are dropped; assignments cascade.
DeleteRole(c) ==
    /\ Committing(c, "deleteRole")
    /\ role' = [r \in Roles |-> IF r \in call[c].order.roles THEN NoRole ELSE role[r]]
    /\ holds' = [u \in Users |-> holds[u] \ call[c].order.roles]
    /\ invite' = [n \in Invites |-> [invite[n] EXCEPT !.roles = @ \ call[c].order.roles]]
    /\ UNCHANGED <<account, member, cleared>>

Welcomed(u) == Instances \X {u}

CreateStaffMember(c) ==
    LET u == call[c].order.user IN
    /\ Committing(c, "createStaffMember")
    /\ account' = [account EXCEPT ![u] = "STAFF"]
    /\ member' = [member EXCEPT ![u] = "ACTIVE"]
    /\ holds' = [holds EXCEPT ![u] = @ \union call[c].order.roles]
    /\ cleared' = cleared \ Welcomed(u)
    /\ UNCHANGED <<role, invite>>

AssignRole(c) ==
    /\ Committing(c, "assignRole")
    /\ holds' = [holds EXCEPT ![call[c].order.user] = @ \union call[c].order.roles]
    /\ UNCHANGED <<account, member, role, invite, cleared>>

RemoveRole(c) ==
    /\ Committing(c, "removeRole")
    /\ holds' = [holds EXCEPT ![call[c].order.user] = @ \ call[c].order.roles]
    /\ UNCHANGED <<account, member, role, invite, cleared>>

SetStaffRoles(c) ==
    /\ Committing(c, "setStaffRoles")
    /\ holds' = [holds EXCEPT ![call[c].order.user] = call[c].order.roles]
    /\ UNCHANGED <<account, member, role, invite, cleared>>

SetStaffStatus(c) ==
    /\ \/ Committing(c, "suspend")
          /\ member' = [member EXCEPT ![call[c].order.user] = "SUSPENDED"]
       \/ Committing(c, "activate")
          /\ member' = [member EXCEPT ![call[c].order.user] = "ACTIVE"]
    /\ UNCHANGED <<account, role, holds, invite, cleared>>

RevokeStaffMember(c) ==
    LET u == call[c].order.user IN
    /\ Committing(c, "revokeStaffMember")
    /\ holds' = [holds EXCEPT ![u] = {}]
    /\ member' = [member EXCEPT ![u] = "REVOKED"]
    /\ account' = [account EXCEPT ![u] = "USER"]
    /\ UNCHANGED <<role, invite, cleared>>

\* Serializable: of two for one address the second sees the first.
CreateInvitation(c) ==
    LET u == call[c].order.user IN
    /\ Committing(c, "createInvitation")
    /\ \E new \in Invites :
        /\ invite[new].status = "none"
        /\ invite' = [n \in Invites |->
                IF n = new
                THEN [status |-> "PENDING", to |-> u, roles |-> call[c].order.roles]
                ELSE IF invite[n].to = u /\ invite[n].status = "PENDING"
                     THEN [invite[n] EXCEPT !.status = "REVOKED"] ELSE invite[n]]
    /\ UNCHANGED <<account, member, role, holds, cleared>>

\* The update has no condition: what was accepted since is overwritten.
RevokeInvitation(c) ==
    /\ Committing(c, "revokeInvitation")
    /\ invite' = [n \in Invites |-> IF n \in call[c].order.invites
                                    THEN [invite[n] EXCEPT !.status = "REVOKED"] ELSE invite[n]]
    /\ UNCHANGED <<account, member, role, holds, cleared>>

AcceptInvitation(c) ==
    LET u == call[c].actor IN
    /\ Committing(c, "acceptInvitation")
    /\ account' = [account EXCEPT ![u] = "STAFF"]
    /\ member' = [member EXCEPT ![u] = "ACTIVE"]
    /\ holds' = [holds EXCEPT ![u] = @ \union UNION {invite[n].roles : n \in call[c].order.invites}]
    /\ invite' = [n \in Invites |-> IF n \in call[c].order.invites
                                    THEN [invite[n] EXCEPT !.status = "ACCEPTED"] ELSE invite[n]]
    /\ cleared' = cleared \ Welcomed(u)
    /\ UNCHANGED role

TransferOwnership(c) ==
    LET old == call[c].actor  new == call[c].order.user IN
    /\ Committing(c, "transferOwnership")
    /\ account' = [account EXCEPT ![old] = "STAFF", ![new] = "OWNER"]
    /\ member' = [member EXCEPT ![old] = "ACTIVE", ![new] = "REVOKED"]
    /\ holds' = [holds EXCEPT ![old] = call[c].order.roles, ![new] = {}]
    /\ cleared' = (cleared \ Welcomed(old)) \ Welcomed(new)
    /\ UNCHANGED <<role, invite>>

\* expirePlatformInvitations, and acceptInvitation of an expired one.
ExpireInvitation(n) ==
    /\ invite[n].status = "PENDING"
    /\ invite' = [invite EXCEPT ![n].status = "EXPIRED"]
    /\ UNCHANGED <<account, member, role, holds, cache, call, begun, cleared>>

\* invalidate, invalidateAll: whose entries this instance drops after a commit.
Stale(actor, o) ==
    CASE o.op \in {"updateRole", "setRolePermissions", "deleteRole"} -> Users
      [] o.op \in {"createRole", "createInvitation", "revokeInvitation"} -> {}
      [] o.op = "transferOwnership" -> {actor, o.user}
      [] OTHER -> {o.user}

Invalidate(c) ==
    LET i == call[c].at  gone == Stale(call[c].actor, call[c].order) IN
    /\ call[c].step = "committed"
    /\ cache' = [cache EXCEPT ![i] = [u \in Users |-> IF u \in gone THEN Absent ELSE @[u]]]
    /\ call' = [call EXCEPT ![c] = NoCall]
    /\ cleared' = IF /\ call[c].order.op = "revokeStaffMember"
                     /\ account[call[c].order.user] = "USER"
                  THEN cleared \union {<<i, call[c].order.user>>} ELSE cleared
    /\ UNCHANGED <<rows, begun>>

----------------------------------------------------------------------------
Resolve ==
    \/ \E i \in Instances, u \in Users :
        Expire(i, u) \/ \E c \in Calls : Hit(c, i, u) \/ Load(c, i, u)
    \/ \E c \in Calls : Remember(c)

Check(c) ==
    \/ \E perms \in SUBSET Perms, rank \in Ranks : CheckCreateRole(c, rank, perms)
    \/ \E r \in Roles :
        \/ \E rank \in Ranks : CheckUpdateRole(c, r, rank)
        \/ \E perms \in SUBSET Perms : CheckSetRolePermissions(c, r, perms)
        \/ CheckDeleteRole(c, r)
        \/ \E op \in Ops, u \in Users : CheckOneRole(c, op, u, r)
    \/ \E u \in Users, rs \in SUBSET Roles \ {{}} :
        \/ CheckCreateStaffMember(c, u, rs) \/ CheckSetStaffRoles(c, u, rs)
        \/ CheckCreateInvitation(c, u, rs) \/ CheckTransferOwnership(c, u, rs)
    \/ \E op \in Ops, u \in Users : CheckMember(c, op, u)
    \/ \E n \in Invites :
        \/ CheckRevokeInvitation(c, n)
        \/ \E i \in Instances, u \in Users : CheckAcceptInvitation(c, i, u, n)

Commit(c) ==
    \/ CreateRole(c) \/ UpdateRole(c) \/ SetRolePermissions(c) \/ DeleteRole(c)
    \/ CreateStaffMember(c) \/ AssignRole(c) \/ RemoveRole(c) \/ SetStaffRoles(c)
    \/ SetStaffStatus(c) \/ RevokeStaffMember(c)
    \/ CreateInvitation(c) \/ RevokeInvitation(c) \/ AcceptInvitation(c)
    \/ TransferOwnership(c)

Next ==
    \/ Resolve
    \/ \E c \in Calls : Check(c) \/ Commit(c) \/ Refuse(c) \/ Invalidate(c)
    \/ \E n \in Invites : ExpireInvitation(n)

Spec == Init /\ [][Next]_vars

----------------------------------------------------------------------------
(* Properties *)

\* Everything a member of staff could use or hand on now: what the roles hold,
\* what the snapshots of staff say, and what calls are about to write.
Snapshots ==
    {cache[i][u] : i \in Instances, u \in Users} \union {call[c].access : c \in Calls}
Orders == {call[c].order : c \in Calls}

Reach ==
    UNION ({role[r].perms : r \in Roles} \union {o.perms : o \in Orders}
           \union {a.perms : a \in {b \in Snapshots : b.kind = "STAFF"}})

OwnerActs ==
    \E c \in Calls : call[c].access.kind = "OWNER" /\ call'[c] # call[c]

(***************************************************************************)
(* Staff cannot widen what staff may do. Only a call of the owner brings a *)
(* permission into reach: no chain of calls by members of staff, with      *)
(* snapshots as old as they may be and roles changed between check and     *)
(* write, grants what no role, snapshot or call had                        *)
(* (staff-rbac.service.ts:792-834).                                        *)
(***************************************************************************)
OnlyOwnerWidens == [][OwnerActs \/ Reach' \subseteq Reach]_vars

(***************************************************************************)
(* There are never two owners, though a former owner may be taken for one  *)
(* by snapshots for some seconds (platform-governance.service.ts:459).     *)
(***************************************************************************)
NeverTwoOwners ==
    \A u, v \in Users : account[u] = "OWNER" /\ account[v] = "OWNER" => u = v

(***************************************************************************)
(* An invitation lets one account in, once: it is accepted from PENDING    *)
(* only, by its addressee while a customer, and no address has two to      *)
(* choose from, whatever calls revoke, renew, expire and accept it at the  *)
(* same time (platform-governance.service.ts:280-300).                     *)
(***************************************************************************)
OneWayIn ==
    [][\A n \in Invites :
        (invite[n].status # "ACCEPTED" /\ invite'[n].status = "ACCEPTED") =>
            /\ invite[n].status = "PENDING" /\ account[invite[n].to] = "USER"
            /\ \A m \in Invites \ {n} :
                ~(invite[m].status = "PENDING" /\ invite[m].to = invite[n].to)]_vars

(***************************************************************************)
(* staff-access.service.ts:18: "the mutating instance clears its own entry *)
(* immediately through invalidate()". The code breaks it: a load that was  *)
(* under way is remembered after the invalidation.                         *)
(***************************************************************************)
ClearedAtOnce ==
    \A i \in Instances, u \in Users :
        <<i, u>> \in cleared => cache[i][u].kind # "STAFF"

=============================================================================
