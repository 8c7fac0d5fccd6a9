-------------------------- MODULE StaffAccessProofs --------------------------
(***************************************************************************)
(* Theorems about the administration of the platform, for every number of  *)
(* accounts, roles, permissions, API instances and overlapping calls.      *)
(*                                                                         *)
(* That staff cannot widen what staff may do rests on two facts about      *)
(* snapshots: one that is neither the owner's nor staff's carries nothing, *)
(* and a call gets past the guard of its route only with one that is.      *)
(***************************************************************************)
EXTENDS StaffAccess, WellFoundedInduction, TLAPS

Carries(access) == access.kind \in {"OWNER", "STAFF"} \/ access.perms = {}

Entered ==
    /\ \A i \in Instances, u \in Users : Carries(cache[i][u])
    /\ \A c \in Calls : /\ Carries(call[c].access)
                        /\ call[c].step = "idle" => call[c].access.kind = "absent"
                        /\ call[c].step = "ready" => MayEnter(call[c].access)

Inv == TypeOK /\ NeverTwoOwners /\ Entered

----------------------------------------------------------------------------
(* Ranks and snapshots *)

\* A set of ranks that is not empty has a highest one.
LEMMA HighestRank ==
    ASSUME NEW N \in Nat, NEW S \in SUBSET (0..N), S # {}
    PROVE  Max(S) \in S
<1> DEFINE T == {N - x : x \in S}
<1>1. T \subseteq Nat /\ T # {}
  <2>1. \A x \in S : N - x \in Nat
    OBVIOUS
  <2> QED
    BY <2>1
<1> HIDE DEF T
<1>2. PICK t \in T : \A y \in T : ~(<<y, t>> \in OpToRel(<, Nat))
  BY <1>1, NatLessThanWellFounded, WFMin
<1>3. \A y \in T : t <= y
  <2> TAKE y \in T
  <2>1. y \in Nat /\ t \in Nat
    BY <1>1
  <2>2. <<y, t>> \in OpToRel(<, Nat) \/ ~(y < t)
    BY <2>1, Zenon DEF OpToRel
  <2>3. ~(y < t)
    BY <1>2, <2>2, Zenon
  <2> QED
    BY <2>1, <2>3
<1>4. PICK x \in S : t = N - x
  BY DEF T
<1>5. \A y \in S : x >= y
  <2> TAKE y \in S
  <2>1. N - y \in T
    BY DEF T
  <2> QED
    BY <1>3, <1>4, <2>1
<1> QED
  BY <1>5, Zenon DEF Max

LEMMA RankType == ASSUME TypeOK, NEW u \in Users PROVE RankOf(u) \in Ranks
<1> DEFINE S == {0} \union {role[r].rank : r \in holds[u]}
<1>1. S \in SUBSET (0..MaxRank) /\ S # {}
  <2>1. \A r \in holds[u] : role[r].rank \in 0..MaxRank
    BY DEF TypeOK, Role, Ranks
  <2> QED
    BY <2>1, StaffAssumption
<1>2. Max(S) \in S
  BY <1>1, HighestRank, StaffAssumption
<1> QED
  BY <1>1, <1>2 DEF RankOf, Ranks

LEMMA PermsType == ASSUME TypeOK, NEW u \in Users PROVE PermsOf(u) \subseteq Perms
BY DEF TypeOK, Role, PermsOf

LEMMA Blanks == /\ No \in Order /\ Absent \in Access /\ NoRole \in Role /\ NoCall \in Call
                /\ No.perms = {} /\ Carries(Absent)
<1>1. /\ No \in Order /\ No.perms = {} /\ NoRole \in Role
      /\ Absent \in Access /\ Carries(Absent)
  BY StaffAssumption DEF No, Order, Absent, Access, NoRole, Role, Ranks, Carries
<1>2. (CHOOSE i \in Instances : TRUE) \in Instances
  BY StaffAssumption
<1> QED
  BY <1>1, <1>2, StaffAssumption DEF NoCall, Call

\* What is loaded is what the roles hold.
LEMMA LoadedType ==
    ASSUME TypeOK, NEW u \in Users
    PROVE  /\ Loaded(u) \in Access /\ Carries(Loaded(u))
           /\ Loaded(u).kind = "STAFF" => Loaded(u).perms = PermsOf(u)
<1>1. PermsOf(u) \subseteq Perms /\ RankOf(u) \in Ranks /\ 0 \in Ranks /\ MaxRank \in Ranks
  BY PermsType, RankType, StaffAssumption DEF Ranks
<1>2. CASE account[u] = "OWNER"
  BY <1>1, <1>2 DEF Loaded, Access, Carries
<1>3. CASE account[u] # "OWNER" /\ account[u] = "STAFF" /\ member[u] = "ACTIVE"
  BY <1>1, <1>3 DEF Loaded, Access, Carries
<1>4. CASE account[u] # "OWNER" /\ ~(account[u] = "STAFF" /\ member[u] = "ACTIVE")
  BY <1>1, <1>4 DEF Loaded, Access, Carries
<1> QED
  BY <1>2, <1>3, <1>4

LEMMA InitInv == Init => Inv
<1> SUFFICES ASSUME Init PROVE Inv
  OBVIOUS
<1> USE StaffAssumption DEF Init
<1>1. role \in [Roles -> Role]
  BY Blanks DEF Role, Ranks
<1>2. invite \in [Invites -> Invite]
  BY DEF Invite
<1>3. cache \in [Instances -> [Users -> Access]] /\ call \in [Calls -> Call]
  BY Blanks
<1>4. holds \in [Users -> SUBSET Roles]
  <2>1. {FirstRole} \in SUBSET Roles
    OBVIOUS
  <2> QED
    BY <2>1
<1>5. account \in [Users -> {"USER", "STAFF", "OWNER"}]
  <2>1. ASSUME NEW u \in Users
        PROVE  (CASE u = Owner -> "OWNER" [] u = Member -> "STAFF" [] OTHER -> "USER")
                   \in {"USER", "STAFF", "OWNER"}
    <3>1. CASE u = Owner
      BY <3>1
    <3>2. CASE u = Member
      BY <3>2
    <3>3. CASE u # Owner /\ u # Member
      BY <3>3
    <3> QED
      BY <3>1, <3>2, <3>3
  <2> QED
    BY <2>1
<1>6. TypeOK
  <2>1. member \in [Users -> {"NONE", "ACTIVE", "SUSPENDED", "REVOKED"}]
    OBVIOUS
  <2>2. begun \in 0..MaxCalls /\ cleared \subseteq Instances \X Users
    OBVIOUS
  <2> HIDE DEF Init
  <2> QED
    BY <1>1, <1>2, <1>3, <1>4, <1>5, <2>1, <2>2 DEF TypeOK
<1>7. NeverTwoOwners
  <2>1. \A u \in Users : u # Owner => account[u] # "OWNER"
    OBVIOUS
  <2> QED
    BY <2>1 DEF NeverTwoOwners
<1>8. Entered
  BY Blanks DEF Entered, NoCall, Absent, Carries
<1> QED
  BY <1>6, <1>7, <1>8 DEF Inv

----------------------------------------------------------------------------
(* One call moves: what it becomes decides what holds of all. *)

LEMMA CallMoves ==
    ASSUME Inv, NEW c \in Calls, NEW to \in Call, call' = [call EXCEPT ![c] = to],
           Carries(to.access), to.step = "idle" => to.access.kind = "absent",
           to.step = "ready" => MayEnter(to.access)
    PROVE  /\ call' \in [Calls -> Call]
           /\ \A d \in Calls : /\ Carries(call'[d].access)
                               /\ call'[d].step = "idle" => call'[d].access.kind = "absent"
                               /\ call'[d].step = "ready" => MayEnter(call'[d].access)
BY DEF Inv, TypeOK, Entered

LEMMA ResolveInv == ASSUME Inv, Resolve PROVE Inv'
<1> USE DEF Inv
<1>1. ASSUME NEW i \in Instances, NEW u \in Users, Expire(i, u) PROVE Inv'
  <2>1. cache' \in [Instances -> [Users -> Access]]
    BY <1>1, Blanks DEF Expire, TypeOK
  <2>2. TypeOK' /\ NeverTwoOwners'
    BY <1>1, <2>1 DEF Expire, TypeOK, NeverTwoOwners
  <2>3. Entered'
    BY <1>1, Blanks DEF Expire, TypeOK, Entered, MayEnter, Carries
  <2> QED
    BY <2>2, <2>3
<1>2. ASSUME NEW i \in Instances, NEW u \in Users, NEW c \in Calls, Hit(c, i, u) \/ Load(c, i, u)
      PROVE  Inv'
  <2>1. PICK access \in Access, step \in {"loaded", "ready"} :
          /\ call' = [call EXCEPT ![c] = [NoCall EXCEPT !.step = step, !.at = i, !.actor = u,
                                                        !.access = access]]
          /\ Carries(access) /\ (step = "ready" => MayEnter(access))
    <3>1. CASE Hit(c, i, u)
      <4>1. cache[i][u] \in Access /\ Carries(cache[i][u])
        BY DEF TypeOK, Entered
      <4> QED
        BY <3>1, <4>1 DEF Hit
    <3>2. CASE Load(c, i, u)
      <4>1. Loaded(u) \in Access /\ Carries(Loaded(u))
        BY LoadedType
      <4> QED
        BY <3>2, <4>1 DEF Load
    <3> QED
      BY <1>2, <3>1, <3>2
  <2> DEFINE to == [NoCall EXCEPT !.step = step, !.at = i, !.actor = u, !.access = access]
  <2>2. to \in Call /\ to.access = access /\ to.step = step
    BY Blanks DEF NoCall, Call
  <2>3. call' \in [Calls -> Call] /\ \A d \in Calls :
            /\ Carries(call'[d].access)
            /\ call'[d].step = "idle" => call'[d].access.kind = "absent"
            /\ call'[d].step = "ready" => MayEnter(call'[d].access)
    <3> HIDE DEF Inv, to
    <3>1. call' = [call EXCEPT ![c] = to]
      BY <2>1 DEF to
    <3> QED
      BY <2>1, <2>2, <3>1, CallMoves
  <2>4. UNCHANGED <<account, member, role, holds, invite, cache, cleared>>
        /\ begun' \in 0..MaxCalls
    BY <1>2, StaffAssumption DEF Hit, Load, TypeOK
  <2> QED
    BY <2>3, <2>4 DEF TypeOK, NeverTwoOwners, Entered
<1>3. ASSUME NEW c \in Calls, Remember(c) PROVE Inv'
  <2>1. /\ call[c] \in Call /\ call[c].access \in Access /\ Carries(call[c].access)
        /\ call[c].at \in Instances /\ call[c].actor \in Users
    BY DEF TypeOK, Call, Entered
  <2>2. /\ cache' \in [Instances -> [Users -> Access]]
        /\ \A i \in Instances, u \in Users : Carries(cache'[i][u])
    BY <1>3, <2>1 DEF Remember, TypeOK, Entered
  <2> DEFINE to == IF MayEnter(call[c].access) THEN [call[c] EXCEPT !.step = "ready"] ELSE NoCall
  <2>3. /\ to \in Call /\ Carries(to.access)
        /\ to.step = "idle" => to.access.kind = "absent"
        /\ to.step = "ready" => MayEnter(to.access)
    <3>1. CASE MayEnter(call[c].access)
      BY <2>1, <3>1 DEF Call
    <3>2. CASE ~MayEnter(call[c].access)
      <4>1. to = NoCall
        BY <3>2
      <4> QED
        BY <4>1, Blanks DEF NoCall, Absent
    <3> QED
      BY <3>1, <3>2
  <2>4. call' \in [Calls -> Call] /\ \A d \in Calls :
            /\ Carries(call'[d].access)
            /\ call'[d].step = "idle" => call'[d].access.kind = "absent"
            /\ call'[d].step = "ready" => MayEnter(call'[d].access)
    <3>1. call' = [call EXCEPT ![c] = to]
      BY <1>3 DEF Remember
    <3> HIDE DEF Inv, to
    <3> QED
      BY <2>3, <3>1, CallMoves
  <2> QED
    BY <1>3, <2>2, <2>4 DEF Remember, TypeOK, NeverTwoOwners, Entered
<1> QED
  BY <1>1, <1>2, <1>3 DEF Resolve

----------------------------------------------------------------------------
(* Checks *)

\* A call hands on only what its snapshot holds.
Modest(access, order) == access.kind = "OWNER" \/ order.perms \subseteq access.perms

LEMMA CheckFinds ==
    ASSUME Inv, NEW c \in Calls, Check(c)
    PROVE  \/ \E order \in Order : Found(c, order) /\ Modest(call[c].access, order)
           \/ \E n \in Invites, i \in Instances, u \in Users : CheckAcceptInvitation(c, i, u, n)
<1>0. (\A r \in Roles : {r} \in SUBSET Roles) /\ (\A n \in Invites : {n} \in SUBSET Invites)
  OBVIOUS
<1> USE <1>0, Blanks DEF Modest, Order, Ops
<1>1. ASSUME NEW perms \in SUBSET Perms, NEW rank \in Ranks, CheckCreateRole(c, rank, perms)
      PROVE  \E order \in Order : Found(c, order) /\ Modest(call[c].access, order)
  <2> WITNESS [No EXCEPT !.op = "createRole", !.rank = rank, !.perms = perms] \in Order
  <2> QED
    BY <1>1 DEF CheckCreateRole, Grantable
<1>2. ASSUME NEW r \in Roles, NEW rank \in Ranks, CheckUpdateRole(c, r, rank)
      PROVE  \E order \in Order : Found(c, order) /\ Modest(call[c].access, order)
  <2> WITNESS [No EXCEPT !.op = "updateRole", !.roles = {r}, !.rank = rank] \in Order
  <2> QED
    BY <1>2 DEF CheckUpdateRole
<1>3. ASSUME NEW r \in Roles, NEW perms \in SUBSET Perms, CheckSetRolePermissions(c, r, perms)
      PROVE  \E order \in Order : Found(c, order) /\ Modest(call[c].access, order)
  <2> WITNESS [No EXCEPT !.op = "setRolePermissions", !.roles = {r}, !.perms = perms] \in Order
  <2> QED
    BY <1>3 DEF CheckSetRolePermissions, Grantable
<1>4. ASSUME NEW r \in Roles, CheckDeleteRole(c, r)
      PROVE  \E order \in Order : Found(c, order) /\ Modest(call[c].access, order)
  <2> WITNESS [No EXCEPT !.op = "deleteRole", !.roles = {r}] \in Order
  <2> QED
    BY <1>4 DEF CheckDeleteRole
<1>5. ASSUME NEW r \in Roles, NEW op \in Ops, NEW u \in Users, CheckOneRole(c, op, u, r)
      PROVE  \E order \in Order : Found(c, order) /\ Modest(call[c].access, order)
  <2> WITNESS [No EXCEPT !.op = op, !.user = u, !.roles = {r}] \in Order
  <2> QED
    BY <1>5 DEF CheckOneRole
<1>6. ASSUME NEW u \in Users, NEW rs \in SUBSET Roles, NEW op \in Ops,
             Found(c, [No EXCEPT !.op = op, !.user = u, !.roles = rs])
      PROVE  \E order \in Order : Found(c, order) /\ Modest(call[c].access, order)
  <2> WITNESS [No EXCEPT !.op = op, !.user = u, !.roles = rs] \in Order
  <2> QED
    BY <1>6
<1>7. ASSUME NEW op \in Ops, NEW u \in Users, CheckMember(c, op, u)
      PROVE  \E order \in Order : Found(c, order) /\ Modest(call[c].access, order)
  <2> WITNESS [No EXCEPT !.op = op, !.user = u] \in Order
  <2> QED
    BY <1>7 DEF CheckMember
<1>8. ASSUME NEW n \in Invites, CheckRevokeInvitation(c, n)
      PROVE  \E order \in Order : Found(c, order) /\ Modest(call[c].access, order)
  <2> WITNESS [No EXCEPT !.op = "revokeInvitation", !.invites = {n}] \in Order
  <2> QED
    BY <1>8 DEF CheckRevokeInvitation
<1> HIDE DEF Modest, Order
<1>9. ASSUME NEW u \in Users, NEW rs \in SUBSET Roles \ {{}},
             \/ CheckCreateStaffMember(c, u, rs) \/ CheckSetStaffRoles(c, u, rs)
             \/ CheckCreateInvitation(c, u, rs) \/ CheckTransferOwnership(c, u, rs)
      PROVE  \E order \in Order : Found(c, order) /\ Modest(call[c].access, order)
  <2>1. PICK op \in {"createStaffMember", "setStaffRoles", "createInvitation", "transferOwnership"} :
          Found(c, [No EXCEPT !.op = op, !.user = u, !.roles = rs])
    BY <1>9 DEF CheckCreateStaffMember, CheckSetStaffRoles, CheckCreateInvitation,
                CheckTransferOwnership
  <2> QED
    BY <1>6, <2>1
<1> QED
  BY <1>1, <1>2, <1>3, <1>4, <1>5, <1>7, <1>8, <1>9 DEF Check

LEMMA CheckInv == ASSUME Inv, NEW c \in Calls, Check(c) PROVE Inv'
<1>1. PICK to \in Call :
        /\ call' = [call EXCEPT ![c] = to] /\ to.step = "checked" /\ Carries(to.access)
        /\ UNCHANGED <<rows, cache, cleared>> /\ begun' \in 0..MaxCalls
  <2>1. ASSUME NEW order \in Order, Found(c, order)
        PROVE  [call[c] EXCEPT !.step = "checked", !.order = order] \in Call
    BY <2>1 DEF Inv, TypeOK, Call
  <2>2. ASSUME NEW order \in Order, Found(c, order)
        PROVE  \E to \in Call :
                 /\ call' = [call EXCEPT ![c] = to] /\ to.step = "checked" /\ Carries(to.access)
                 /\ UNCHANGED <<rows, cache, cleared>> /\ begun' \in 0..MaxCalls
    <3> DEFINE to == [call[c] EXCEPT !.step = "checked", !.order = order]
    <3>1. to \in Call /\ to.step = "checked" /\ to.access = call[c].access
      BY <2>1, <2>2 DEF Inv, TypeOK, Call
    <3>2. /\ call' = [call EXCEPT ![c] = to] /\ UNCHANGED <<rows, cache, cleared>>
          /\ begun' \in 0..MaxCalls
      BY <2>2 DEF Found, Inv, TypeOK
    <3>3. Carries(call[c].access)
      BY DEF Inv, Entered
    <3> HIDE DEF to
    <3> QED
      BY <3>1, <3>2, <3>3
  <2>3. ASSUME NEW n \in Invites, NEW i \in Instances, NEW u \in Users,
               CheckAcceptInvitation(c, i, u, n)
        PROVE  \E to \in Call :
                 /\ call' = [call EXCEPT ![c] = to] /\ to.step = "checked" /\ Carries(to.access)
                 /\ UNCHANGED <<rows, cache, cleared>> /\ begun' \in 0..MaxCalls
    <3> DEFINE order == [No EXCEPT !.op = "acceptInvitation", !.user = u, !.invites = {n}]
    <3>1. order \in Order
      <4>1. {n} \in SUBSET Invites
        OBVIOUS
      <4> QED
        BY <4>1, Blanks DEF Order, Ops
    <3> HIDE DEF order
    <3> DEFINE to == [NoCall EXCEPT !.step = "checked", !.at = i, !.actor = u, !.order = order]
    <3>2. to \in Call /\ to.step = "checked" /\ to.access = Absent
      BY <3>1, Blanks DEF NoCall, Call
    <3>3. /\ call' = [call EXCEPT ![c] = to] /\ UNCHANGED <<rows, cache, cleared>>
          /\ begun' \in 0..MaxCalls
      BY <2>3, StaffAssumption DEF CheckAcceptInvitation, order, Inv, TypeOK
    <3> HIDE DEF to
    <3> QED
      BY <3>2, <3>3, Blanks
  <2> QED
    BY <2>2, <2>3, CheckFinds
<1>2. call' \in [Calls -> Call] /\ \A d \in Calls :
        /\ Carries(call'[d].access)
        /\ call'[d].step = "idle" => call'[d].access.kind = "absent"
        /\ call'[d].step = "ready" => MayEnter(call'[d].access)
  BY <1>1, CallMoves
<1> QED
  BY <1>1, <1>2 DEF Inv, TypeOK, NeverTwoOwners, Entered, rows

----------------------------------------------------------------------------
(* Transactions *)

\* Committing moves the call on and leaves the caches alone.
LEMMA CommittingMoves ==
    ASSUME Inv, NEW c \in Calls, NEW op \in Ops, Committing(c, op)
    PROVE  /\ call' \in [Calls -> Call] /\ Entered' /\ UNCHANGED <<cache, begun>>
           /\ call' = [call EXCEPT ![c].step = "committed"] /\ call[c].step = "checked"
           /\ call[c].order \in Order /\ call[c].actor \in Users
           /\ Passes(call[c].actor, call[c].order) /\ call[c].order.op = op
<1> DEFINE to == [call[c] EXCEPT !.step = "committed"]
<1>1. to \in Call /\ to.step = "committed" /\ to.access = call[c].access
  BY DEF Inv, TypeOK, Call
<1>2. /\ call' = [call EXCEPT ![c].step = "committed"] /\ UNCHANGED <<cache, begun>>
      /\ call[c].step = "checked"
      /\ Passes(call[c].actor, call[c].order) /\ call[c].order.op = op
  BY DEF Committing
<1>3. call[c].order \in Order /\ call[c].actor \in Users /\ Carries(call[c].access)
  BY DEF Inv, TypeOK, Call, Entered
<1>4. call' = [call EXCEPT ![c] = to]
  BY <1>2
<1> HIDE DEF to
<1>5. call' \in [Calls -> Call] /\ \A d \in Calls :
        /\ Carries(call'[d].access)
        /\ call'[d].step = "idle" => call'[d].access.kind = "absent"
        /\ call'[d].step = "ready" => MayEnter(call'[d].access)
  BY <1>1, <1>3, <1>4, CallMoves
<1>6. Entered'
  BY <1>2, <1>5 DEF Inv, Entered
<1> QED
  BY <1>2, <1>3, <1>5, <1>6

\* Transactions on roles and invitations.
LEMMA RoleCommitInv ==
    ASSUME Inv, NEW c \in Calls,
           \/ CreateRole(c) \/ UpdateRole(c) \/ SetRolePermissions(c) \/ DeleteRole(c)
    PROVE  Inv'
<1>1. \A r \in Roles : role[r] \in Role
  BY DEF Inv, TypeOK
<1>2. CASE CreateRole(c)
  <2>1. call' \in [Calls -> Call] /\ Entered' /\ UNCHANGED <<cache, begun>> /\ call[c].order \in Order
    BY <1>2, CommittingMoves DEF CreateRole, Ops
  <2>2. [exists |-> TRUE, rank |-> call[c].order.rank, perms |-> call[c].order.perms] \in Role
    BY <2>1 DEF Order, Role
  <2>3. role' \in [Roles -> Role]
    BY <1>2, <2>2 DEF CreateRole, Inv, TypeOK
  <2> QED
    BY <1>2, <2>1, <2>3 DEF CreateRole, Inv, TypeOK, NeverTwoOwners
<1>3. CASE UpdateRole(c)
  <2>1. call' \in [Calls -> Call] /\ Entered' /\ UNCHANGED <<cache, begun>> /\ call[c].order \in Order
    BY <1>3, CommittingMoves DEF UpdateRole, Ops
  <2>2. \A r \in Roles : [role[r] EXCEPT !.rank = call[c].order.rank] \in Role
    BY <1>1, <2>1 DEF Order, Role
  <2>3. role' \in [Roles -> Role]
    BY <1>1, <1>3, <2>2 DEF UpdateRole
  <2> QED
    BY <1>3, <2>1, <2>3 DEF UpdateRole, Inv, TypeOK, NeverTwoOwners
<1>4. CASE SetRolePermissions(c)
  <2>1. call' \in [Calls -> Call] /\ Entered' /\ UNCHANGED <<cache, begun>> /\ call[c].order \in Order
    BY <1>4, CommittingMoves DEF SetRolePermissions, Ops
  <2>2. \A r \in Roles : [role[r] EXCEPT !.perms = call[c].order.perms] \in Role
    BY <1>1, <2>1 DEF Order, Role
  <2>3. role' \in [Roles -> Role]
    BY <1>1, <1>4, <2>2 DEF SetRolePermissions
  <2> QED
    BY <1>4, <2>1, <2>3 DEF SetRolePermissions, Inv, TypeOK, NeverTwoOwners
<1>5. CASE DeleteRole(c)
  <2>1. call' \in [Calls -> Call] /\ Entered' /\ UNCHANGED <<cache, begun>> /\ call[c].order \in Order
    BY <1>5, CommittingMoves DEF DeleteRole, Ops
  <2>2. role' \in [Roles -> Role]
    BY <1>1, <1>5, Blanks DEF DeleteRole
  <2>3. holds' \in [Users -> SUBSET Roles]
    BY <1>5 DEF DeleteRole, Inv, TypeOK
  <2>4. \A n \in Invites : [invite[n] EXCEPT !.roles = @ \ call[c].order.roles] \in Invite
    BY DEF Inv, TypeOK, Invite
  <2>5. invite' \in [Invites -> Invite]
    BY <1>5, <2>4 DEF DeleteRole
  <2> QED
    BY <1>5, <2>1, <2>2, <2>3, <2>5 DEF DeleteRole, Inv, TypeOK, NeverTwoOwners
<1> QED
  BY <1>2, <1>3, <1>4, <1>5

LEMMA InvitationCommitInv ==
    ASSUME Inv, NEW c \in Calls, CreateInvitation(c) \/ RevokeInvitation(c)
    PROVE  Inv'
<1>1. \A n \in Invites : /\ invite[n] \in Invite
                         /\ [invite[n] EXCEPT !.status = "REVOKED"] \in Invite
  BY DEF Inv, TypeOK, Invite
<1>2. /\ call' \in [Calls -> Call] /\ Entered' /\ UNCHANGED <<cache, begun>>
      /\ call[c].order \in Order
  BY CommittingMoves DEF CreateInvitation, RevokeInvitation, Ops
<1>3. [status |-> "PENDING", to |-> call[c].order.user, roles |-> call[c].order.roles] \in Invite
  BY <1>2 DEF Order, Invite
<1>4. invite' \in [Invites -> Invite]
  BY <1>1, <1>3 DEF CreateInvitation, RevokeInvitation
<1> QED
  BY <1>2, <1>4 DEF CreateInvitation, RevokeInvitation, Inv, TypeOK, NeverTwoOwners

\* Transactions on members: all but the transfer set roles other than OWNER.
LEMMA MemberCommitInv ==
    ASSUME Inv, NEW c \in Calls,
           \/ CreateStaffMember(c) \/ AssignRole(c) \/ RemoveRole(c) \/ SetStaffRoles(c)
           \/ SetStaffStatus(c) \/ RevokeStaffMember(c) \/ AcceptInvitation(c)
    PROVE  Inv'
<1>1. /\ call' \in [Calls -> Call] /\ Entered' /\ UNCHANGED <<cache, begun>>
      /\ call[c].order \in Order /\ call[c].actor \in Users
  BY CommittingMoves DEF CreateStaffMember, AssignRole, RemoveRole, SetStaffRoles,
                         SetStaffStatus, RevokeStaffMember, AcceptInvitation, Ops
<1>2. /\ call[c].order.user \in Users /\ call[c].order.roles \in SUBSET Roles
      /\ call[c].order.invites \in SUBSET Invites
  BY <1>1 DEF Order
<1>3. /\ account' \in [Users -> {"USER", "STAFF", "OWNER"}]
      /\ \A u \in Users : account'[u] = "OWNER" => account[u] = "OWNER"
  BY <1>1, <1>2 DEF CreateStaffMember, AssignRole, RemoveRole, SetStaffRoles, SetStaffStatus,
                    RevokeStaffMember, AcceptInvitation, Inv, TypeOK
<1>4. member' \in [Users -> {"NONE", "ACTIVE", "SUSPENDED", "REVOKED"}]
  BY <1>1, <1>2 DEF CreateStaffMember, AssignRole, RemoveRole, SetStaffRoles, SetStaffStatus,
                    RevokeStaffMember, AcceptInvitation, Inv, TypeOK
<1>5. holds' \in [Users -> SUBSET Roles]
  <2>1. \A ns \in SUBSET Invites : UNION {invite[n].roles : n \in ns} \in SUBSET Roles
    BY DEF Inv, TypeOK, Invite
  <2>2. CASE AcceptInvitation(c)
    BY <1>1, <1>2, <2>1, <2>2 DEF AcceptInvitation, Inv, TypeOK
  <2>3. CASE ~AcceptInvitation(c)
    BY <1>1, <1>2, <2>3 DEF CreateStaffMember, AssignRole, RemoveRole, SetStaffRoles,
                            SetStaffStatus, RevokeStaffMember, Inv, TypeOK
  <2> QED
    BY <2>2, <2>3
<1>6. invite' \in [Invites -> Invite]
  <2>1. \A n \in Invites : invite[n] \in Invite /\ [invite[n] EXCEPT !.status = "ACCEPTED"] \in Invite
    BY DEF Inv, TypeOK, Invite
  <2>2. CASE AcceptInvitation(c)
    BY <2>1, <2>2 DEF AcceptInvitation
  <2>3. CASE ~AcceptInvitation(c)
    BY <2>3 DEF CreateStaffMember, AssignRole, RemoveRole, SetStaffRoles, SetStaffStatus,
                RevokeStaffMember, Inv, TypeOK
  <2> QED
    BY <2>2, <2>3
<1>7. UNCHANGED role /\ cleared' \subseteq cleared
  BY DEF CreateStaffMember, AssignRole, RemoveRole, SetStaffRoles, SetStaffStatus,
         RevokeStaffMember, AcceptInvitation
<1>8. NeverTwoOwners'
  BY <1>3 DEF Inv, NeverTwoOwners
<1> QED
  BY <1>1, <1>3, <1>4, <1>5, <1>6, <1>7, <1>8 DEF Inv, TypeOK

\* The transfer finds its caller the only owner, whatever his snapshot says.
LEMMA TransferInv == ASSUME Inv, NEW c \in Calls, TransferOwnership(c) PROVE Inv'
<1> DEFINE old == call[c].actor  new == call[c].order.user
<1>1. /\ call' \in [Calls -> Call] /\ Entered' /\ UNCHANGED <<cache, begun>>
      /\ call[c].order \in Order /\ old \in Users
      /\ Passes(old, call[c].order) /\ call[c].order.op = "transferOwnership"
  BY CommittingMoves DEF TransferOwnership, Ops
<1>2. new \in Users /\ call[c].order.roles \in SUBSET Roles
  BY <1>1 DEF Order
<1>3. CurrentOwner(old) /\ account[new] = "STAFF"
  BY <1>1 DEF Passes
<1>4. old # new /\ \A u \in Users : account[u] = "OWNER" => u = old
  BY <1>1, <1>3 DEF CurrentOwner
<1>5. /\ account' = [account EXCEPT ![old] = "STAFF", ![new] = "OWNER"]
      /\ member' = [member EXCEPT ![old] = "ACTIVE", ![new] = "REVOKED"]
      /\ holds' = [holds EXCEPT ![old] = call[c].order.roles, ![new] = {}]
      /\ UNCHANGED <<role, invite>> /\ cleared' \subseteq cleared
  BY DEF TransferOwnership
<1> HIDE DEF old, new
<1>6. NeverTwoOwners'
  BY <1>1, <1>2, <1>4, <1>5 DEF Inv, TypeOK, NeverTwoOwners
<1>7. TypeOK'
  BY <1>1, <1>2, <1>5 DEF Inv, TypeOK
<1> QED
  BY <1>1, <1>6, <1>7 DEF Inv

\* A call ends, refused or with its invalidation done.
LEMMA EndInv ==
    ASSUME Inv, NEW c \in Calls, Refuse(c) \/ Invalidate(c)
    PROVE  Inv'
<1>1. call' = [call EXCEPT ![c] = NoCall] /\ UNCHANGED <<rows, begun>>
  BY DEF Refuse, Invalidate
<1>2. call' \in [Calls -> Call] /\ \A d \in Calls :
        /\ Carries(call'[d].access)
        /\ call'[d].step = "idle" => call'[d].access.kind = "absent"
        /\ call'[d].step = "ready" => MayEnter(call'[d].access)
  <2>1. NoCall \in Call /\ NoCall.access = Absent /\ NoCall.step = "idle" /\ Absent.kind = "absent"
    BY Blanks DEF NoCall, Absent
  <2> QED
    BY <1>1, <2>1, Blanks, CallMoves
<1>3. /\ cache' \in [Instances -> [Users -> Access]]
      /\ \A i \in Instances, u \in Users : cache'[i][u] \in {cache[i][u], Absent}
      /\ cleared' \subseteq Instances \X Users
  <2>1. CASE Refuse(c)
    BY <2>1 DEF Refuse, Inv, TypeOK
  <2>2. CASE Invalidate(c)
    <3>1. call[c].at \in Instances /\ call[c].order.user \in Users
      BY DEF Inv, TypeOK, Call, Order
    <3>2. cleared' \subseteq Instances \X Users
      BY <2>2, <3>1 DEF Invalidate, Inv, TypeOK
    <3> DEFINE gone == Stale(call[c].actor, call[c].order)
    <3> HIDE DEF gone
    <3>3. cache' = [cache EXCEPT ![call[c].at] =
                      [u \in Users |-> IF u \in gone THEN Absent ELSE cache[call[c].at][u]]]
      BY <2>2 DEF Invalidate, gone
    <3>4. [u \in Users |-> IF u \in gone THEN Absent ELSE cache[call[c].at][u]] \in [Users -> Access]
      BY <3>1, Blanks DEF Inv, TypeOK
    <3> QED
      BY <3>1, <3>2, <3>3, <3>4 DEF Inv, TypeOK
  <2> QED
    BY <2>1, <2>2
<1> QED
  BY <1>1, <1>2, <1>3, Blanks DEF Inv, TypeOK, NeverTwoOwners, Entered, rows

LEMMA ExpiryInv == ASSUME Inv, NEW n \in Invites, ExpireInvitation(n) PROVE Inv'
<1>1. [invite[n] EXCEPT !.status = "EXPIRED"] \in Invite
  BY DEF Inv, TypeOK, Invite
<1>2. invite' \in [Invites -> Invite]
  BY <1>1 DEF ExpireInvitation, Inv, TypeOK
<1> QED
  BY <1>2 DEF ExpireInvitation, Inv, TypeOK, NeverTwoOwners, Entered

LEMMA StepInv == Inv /\ [Next]_vars => Inv'
<1> SUFFICES ASSUME Inv, [Next]_vars PROVE Inv'
  OBVIOUS
<1>1. CASE UNCHANGED vars
  BY <1>1 DEF vars, Inv, TypeOK, NeverTwoOwners, Entered
<1>2. ASSUME NEW c \in Calls, Commit(c) PROVE Inv'
  BY <1>2, RoleCommitInv, InvitationCommitInv, MemberCommitInv, TransferInv DEF Commit
<1>3. CASE Next
  BY <1>2, <1>3, ResolveInv, CheckInv, EndInv, ExpiryInv DEF Next
<1> QED
  BY <1>1, <1>3

----------------------------------------------------------------------------
(* What is in reach *)

LEMMA InReach ==
    /\ \A r \in Roles : role[r].perms \subseteq Reach
    /\ \A c \in Calls : call[c].order.perms \subseteq Reach
    /\ \A i \in Instances, u \in Users :
        cache[i][u].kind = "STAFF" => cache[i][u].perms \subseteq Reach
    /\ \A c \in Calls : call[c].access.kind = "STAFF" => call[c].access.perms \subseteq Reach
<1>1. /\ \A c \in Calls : call[c].order \in Orders /\ call[c].access \in Snapshots
      /\ \A i \in Instances, u \in Users : cache[i][u] \in Snapshots
  BY DEF Orders, Snapshots
<1> QED
  BY <1>1 DEF Reach

LEMMA ReachWithin ==
    ASSUME NEW S,
           \A r \in Roles : role'[r].perms \subseteq S,
           \A c \in Calls : call'[c].order.perms \subseteq S,
           \A i \in Instances, u \in Users :
               cache'[i][u].kind = "STAFF" => cache'[i][u].perms \subseteq S,
           \A c \in Calls : call'[c].access.kind = "STAFF" => call'[c].access.perms \subseteq S
    PROVE  Reach' \subseteq S
<1>1. \A a \in Snapshots' : a.kind = "STAFF" => a.perms \subseteq S
  BY DEF Snapshots
<1>2. \A o \in Orders' : o.perms \subseteq S
  BY DEF Orders
<1> QED
  BY <1>1, <1>2 DEF Reach

\* A snapshot is loaded, used, remembered or forgotten.
LEMMA ResolveReach == ASSUME Inv, Resolve PROVE Reach' \subseteq Reach
<1> USE InReach DEF Inv
<1>1. UNCHANGED role
  BY DEF Resolve, Expire, Hit, Load, Remember
<1>2. \A u \in Users : Loaded(u).kind = "STAFF" => Loaded(u).perms \subseteq Reach
  <2>1. ASSUME NEW u \in Users PROVE PermsOf(u) \subseteq Reach
    BY DEF PermsOf, TypeOK
  <2> QED
    BY <2>1, LoadedType
<1>3. NoCall.order.perms = {} /\ NoCall.access.kind = "absent" /\ Absent.kind = "absent"
  BY Blanks DEF NoCall, Absent
<1>4. \A i \in Instances, u \in Users :
        cache'[i][u].kind = "STAFF" => cache'[i][u].perms \subseteq Reach
  <2>1. CASE \E i \in Instances, u \in Users : Expire(i, u)
    BY <1>3, <2>1 DEF Expire, TypeOK
  <2>2. CASE \E c \in Calls : Remember(c)
    BY <2>2 DEF Remember, TypeOK
  <2>3. CASE UNCHANGED cache
    BY <2>3
  <2> QED
    BY <2>1, <2>2, <2>3 DEF Resolve, Hit, Load
<1> DEFINE CallsWithin ==
      \A d \in Calls : /\ call'[d].order.perms \subseteq Reach
                       /\ call'[d].access.kind = "STAFF" => call'[d].access.perms \subseteq Reach
<1>5. CallsWithin
  <2>1. ASSUME NEW i \in Instances, NEW u \in Users, NEW c \in Calls, Hit(c, i, u) \/ Load(c, i, u)
        PROVE  \E access \in {cache[i][u], Loaded(u)}, step \in {"loaded", "ready"} :
                 call' = [call EXCEPT ![c] = [NoCall EXCEPT !.step = step, !.at = i, !.actor = u,
                                                            !.access = access]]
    BY <2>1 DEF Hit, Load
  <2>2. ASSUME NEW i \in Instances, NEW u \in Users, NEW c \in Calls, Hit(c, i, u) \/ Load(c, i, u)
        PROVE  CallsWithin
    <3>1. PICK access \in {cache[i][u], Loaded(u)}, step \in {"loaded", "ready"} :
             call' = [call EXCEPT ![c] = [NoCall EXCEPT !.step = step, !.at = i, !.actor = u,
                                                        !.access = access]]
      BY <2>1, <2>2
    <3> DEFINE to == [NoCall EXCEPT !.step = step, !.at = i, !.actor = u, !.access = access]
    <3>2. to.order = NoCall.order /\ to.access = access
      BY DEF NoCall
    <3>3. access.kind = "STAFF" => access.perms \subseteq Reach
      BY <1>2
    <3>4. call' = [call EXCEPT ![c] = to]
      BY <3>1
    <3> HIDE DEF to
    <3> QED
      BY <1>3, <3>2, <3>3, <3>4 DEF TypeOK
  <2>3. ASSUME NEW c \in Calls, Remember(c) PROVE CallsWithin
    <3>1. /\ call[c] \in Call
          /\ \/ call' = [call EXCEPT ![c] = [call[c] EXCEPT !.step = "ready"]]
             \/ call' = [call EXCEPT ![c] = NoCall]
      BY <2>3 DEF Remember, TypeOK
    <3>2. /\ [call[c] EXCEPT !.step = "ready"].order = call[c].order
          /\ [call[c] EXCEPT !.step = "ready"].access = call[c].access
      BY <3>1 DEF Call
    <3> QED
      BY <1>3, <3>1, <3>2 DEF TypeOK
  <2>4. CASE UNCHANGED call
    BY <2>4
  <2> QED
    BY <2>2, <2>3, <2>4 DEF Resolve, Expire
<1> QED
  BY <1>1, <1>4, <1>5, ReachWithin

\* Who is not the owner hands on at most what his snapshot holds.
LEMMA CheckReach ==
    ASSUME Inv, NEW c \in Calls, Check(c)
    PROVE  OwnerActs \/ Reach' \subseteq Reach
<1> USE InReach DEF Inv
<1>1. ASSUME NEW order \in Order, Found(c, order), Modest(call[c].access, order)
      PROVE  OwnerActs \/ Reach' \subseteq Reach
  <2> DEFINE to == [call[c] EXCEPT !.step = "checked", !.order = order]
  <2>1. /\ call' = [call EXCEPT ![c] = to] /\ UNCHANGED <<role, cache>>
        /\ call[c].step = "ready" /\ MayEnter(call[c].access) /\ call[c] \in Call
    BY <1>1 DEF Found, TypeOK, Entered, rows
  <2>2. to.access = call[c].access /\ to.order = order /\ to.step = "checked"
    BY <2>1 DEF Call
  <2> HIDE DEF to
  <2>3. CASE call[c].access.kind = "OWNER"
    <3>1. call'[c] # call[c]
      BY <2>1, <2>2 DEF TypeOK
    <3> QED
      BY <2>3, <3>1 DEF OwnerActs
  <2>4. CASE call[c].access.kind # "OWNER"
    <3>1. order.perms \subseteq Reach
      BY <1>1, <2>1, <2>4 DEF Modest, MayEnter
    <3>2. \A d \in Calls :
            /\ call'[d].order.perms \subseteq Reach
            /\ call'[d].access.kind = "STAFF" => call'[d].access.perms \subseteq Reach
      BY <2>1, <2>2, <3>1 DEF TypeOK
    <3> QED
      BY <2>1, <3>2, ReachWithin
  <2> QED
    BY <2>3, <2>4
<1>2. ASSUME NEW n \in Invites, NEW i \in Instances, NEW u \in Users,
             CheckAcceptInvitation(c, i, u, n)
      PROVE  Reach' \subseteq Reach
  <2> DEFINE order == [No EXCEPT !.op = "acceptInvitation", !.user = u, !.invites = {n}]
  <2> DEFINE to == [NoCall EXCEPT !.step = "checked", !.at = i, !.actor = u, !.order = order]
  <2>1. order.perms = {} /\ to.order = order /\ to.access = Absent /\ Absent.kind = "absent"
    BY Blanks DEF No, NoCall, Absent
  <2>2. call' = [call EXCEPT ![c] = to] /\ UNCHANGED <<role, cache>>
    BY <1>2 DEF CheckAcceptInvitation, rows
  <2> HIDE DEF order, to
  <2>3. \A d \in Calls :
          /\ call'[d].order.perms \subseteq Reach
          /\ call'[d].access.kind = "STAFF" => call'[d].access.perms \subseteq Reach
    BY <2>1, <2>2 DEF TypeOK
  <2> QED
    BY <2>2, <2>3, ReachWithin
<1> QED
  BY <1>1, <1>2, CheckFinds

\* A transaction writes into roles what its order says, and the others nothing.
LEMMA CommitReach ==
    ASSUME Inv, NEW c \in Calls, Commit(c)
    PROVE  Reach' \subseteq Reach
<1> USE InReach DEF Inv
<1>1. PICK op \in Ops : Committing(c, op)
  BY DEF Commit, CreateRole, UpdateRole, SetRolePermissions, DeleteRole, CreateStaffMember,
         AssignRole, RemoveRole, SetStaffRoles, SetStaffStatus, RevokeStaffMember,
         CreateInvitation, RevokeInvitation, AcceptInvitation, TransferOwnership, Ops
<1>2. /\ call' = [call EXCEPT ![c].step = "committed"] /\ UNCHANGED cache
      /\ call[c] \in Call /\ call[c].order \in Order
  BY <1>1, CommittingMoves DEF TypeOK
<1>3. \A d \in Calls : /\ call'[d].order.perms \subseteq Reach
                       /\ call'[d].access.kind = "STAFF" => call'[d].access.perms \subseteq Reach
  <2> DEFINE to == [call[c] EXCEPT !.step = "committed"]
  <2>1. to.order = call[c].order /\ to.access = call[c].access /\ call' = [call EXCEPT ![c] = to]
    BY <1>2 DEF Call
  <2> HIDE DEF to
  <2> QED
    BY <2>1 DEF TypeOK
<1>4. \A r \in Roles : role'[r].perms \subseteq Reach
  <2>1. CASE CreateRole(c)
    <3>1. PICK new \in Roles :
            role' = [role EXCEPT ![new] = [exists |-> TRUE, rank |-> call[c].order.rank,
                                           perms |-> call[c].order.perms]]
      BY <2>1 DEF CreateRole
    <3> QED
      BY <3>1 DEF TypeOK
  <2>2. CASE UpdateRole(c)
    <3>1. \A r \in Roles : [role[r] EXCEPT !.rank = call[c].order.rank].perms = role[r].perms
      BY DEF TypeOK, Role
    <3> QED
      BY <2>2, <3>1 DEF UpdateRole
  <2>3. CASE SetRolePermissions(c)
    <3>1. \A r \in Roles :
            [role[r] EXCEPT !.perms = call[c].order.perms].perms = call[c].order.perms
      BY DEF TypeOK, Role
    <3> QED
      BY <2>3, <3>1 DEF SetRolePermissions
  <2>4. CASE DeleteRole(c)
    <3>1. NoRole.perms = {}
      BY DEF NoRole
    <3> QED
      BY <2>4, <3>1 DEF DeleteRole
  <2>5. CASE UNCHANGED role
    BY <2>5
  <2> QED
    BY <2>1, <2>2, <2>3, <2>4, <2>5
    DEF Commit, CreateStaffMember, AssignRole, RemoveRole, SetStaffRoles, SetStaffStatus,
        RevokeStaffMember, CreateInvitation, RevokeInvitation, AcceptInvitation, TransferOwnership
<1> QED
  BY <1>2, <1>3, <1>4, ReachWithin

\* The end of a call, or of an invitation, takes out of reach only.
LEMMA EndReach ==
    ASSUME Inv, (\E c \in Calls : Refuse(c) \/ Invalidate(c)) \/ (\E n \in Invites : ExpireInvitation(n))
    PROVE  Reach' \subseteq Reach
<1> USE InReach DEF Inv
<1>1. NoCall.order.perms = {} /\ NoCall.access.kind = "absent" /\ Absent.kind = "absent"
  BY Blanks DEF NoCall, Absent
<1>2. UNCHANGED role /\ \A d \in Calls : call'[d] \in {call[d], NoCall}
  BY DEF Refuse, Invalidate, ExpireInvitation, rows, TypeOK
<1> DEFINE Dropped == \A i \in Instances, u \in Users : cache'[i][u] \in {cache[i][u], Absent}
<1>3. Dropped
  <2>1. ASSUME NEW c \in Calls, Invalidate(c) PROVE Dropped
    <3> DEFINE gone == Stale(call[c].actor, call[c].order)
    <3> HIDE DEF gone
    <3>1. cache' = [cache EXCEPT ![call[c].at] =
                      [u \in Users |-> IF u \in gone THEN Absent ELSE cache[call[c].at][u]]]
      BY <2>1 DEF Invalidate, gone
    <3> QED
      BY <3>1 DEF TypeOK
  <2>2. CASE UNCHANGED cache
    BY <2>2
  <2> QED
    BY <2>1, <2>2 DEF Refuse, ExpireInvitation
<1> QED
  BY <1>1, <1>2, <1>3, ReachWithin

LEMMA StepWidens == Inv /\ [Next]_vars => [OwnerActs \/ Reach' \subseteq Reach]_vars
<1> SUFFICES ASSUME Inv, Next PROVE OwnerActs \/ Reach' \subseteq Reach
  OBVIOUS
<1> QED
  BY ResolveReach, CheckReach, CommitReach, EndReach DEF Next

LEMMA AlwaysInv == Spec => []Inv
BY InitInv, StepInv, PTL DEF Spec

(***************************************************************************)
(* Every variable keeps its type; ranks stay ranks because a member with   *)
(* roles has a highest one.                                                *)
(***************************************************************************)
THEOREM TypeCorrect == Spec => []TypeOK
<1>1. Inv => TypeOK
  BY DEF Inv
<1> QED
  BY <1>1, AlwaysInv, PTL

(***************************************************************************)
(* No transfer, however stale the snapshot it was allowed by, leaves two   *)
(* owners, and no other call makes one (platform-governance.service.ts).   *)
(***************************************************************************)
THEOREM OneOwner == Spec => []NeverTwoOwners
<1>1. Inv => NeverTwoOwners
  BY DEF Inv
<1> QED
  BY <1>1, AlwaysInv, PTL

(***************************************************************************)
(* No chain of calls by members of staff brings a permission into reach    *)
(* that no role, snapshot or order had: only a call with the snapshot of   *)
(* the owner does (staff-rbac.service.ts:792-834).                         *)
(***************************************************************************)
THEOREM WideningCorrect == Spec => OnlyOwnerWidens
BY AlwaysInv, StepWidens, PTL DEF Spec, OnlyOwnerWidens

----------------------------------------------------------------------------
(* Invitations *)

OnePending ==
    \A m, n \in Invites :
        /\ invite[m].status = "PENDING" /\ invite[n].status = "PENDING"
        /\ invite[m].to = invite[n].to
        => m = n

\* All that is ever done to an invitation that is not new.
LEMMA InvitationSteps ==
    ASSUME Inv, Next
    PROVE  \/ \E c \in Calls : CreateInvitation(c) \/ AcceptInvitation(c)
           \/ \A n \in Invites : /\ invite'[n].to = invite[n].to
                                 /\ invite'[n].status \in {invite[n].status, "REVOKED", "EXPIRED"}
<1> DEFINE Kept == \A n \in Invites :
        /\ invite'[n].to = invite[n].to
        /\ invite'[n].status \in {invite[n].status, "REVOKED", "EXPIRED"}
<1>1. \A n \in Invites : invite[n] \in Invite
  BY DEF Inv, TypeOK
<1>2. ASSUME NEW c \in Calls, DeleteRole(c) PROVE Kept
  BY <1>1, <1>2 DEF DeleteRole, Invite
<1>3. ASSUME NEW c \in Calls, RevokeInvitation(c) PROVE Kept
  BY <1>1, <1>3 DEF RevokeInvitation, Invite
<1>4. ASSUME NEW n \in Invites, ExpireInvitation(n) PROVE Kept
  BY <1>1, <1>4 DEF ExpireInvitation, Invite, Inv, TypeOK
<1>5. CASE UNCHANGED invite
  BY <1>5
<1>6. ASSUME NEW c \in Calls, Commit(c)
      PROVE  \/ CreateInvitation(c) \/ AcceptInvitation(c) \/ DeleteRole(c)
             \/ RevokeInvitation(c) \/ UNCHANGED invite
  BY <1>6 DEF Commit, CreateRole, UpdateRole, SetRolePermissions, CreateStaffMember,
              AssignRole, RemoveRole, SetStaffRoles, SetStaffStatus, RevokeStaffMember,
              TransferOwnership
<1>7. ASSUME NEW c \in Calls, Check(c) PROVE UNCHANGED invite
  BY <1>7, CheckFinds DEF Found, CheckAcceptInvitation, rows
<1>8. CASE Resolve \/ \E c \in Calls : Refuse(c) \/ Invalidate(c)
  BY <1>5, <1>8 DEF Resolve, Expire, Hit, Load, Remember, Refuse, Invalidate, rows
<1> QED
  BY <1>2, <1>3, <1>4, <1>5, <1>6, <1>7, <1>8 DEF Next

\* What is written by an acceptance, and what was found before it.
LEMMA Acceptance ==
    ASSUME Inv, NEW c \in Calls, AcceptInvitation(c)
    PROVE  \A n \in Invites :
             \/ invite'[n] = invite[n]
             \/ /\ invite'[n].status = "ACCEPTED" /\ invite[n].status = "PENDING"
                /\ account[invite[n].to] = "USER"
<1>1. /\ Passes(call[c].actor, call[c].order) /\ call[c].order.op = "acceptInvitation"
      /\ call[c].order \in Order
  BY CommittingMoves DEF AcceptInvitation, Ops
<1>2. \A n \in call[c].order.invites : Acceptable(call[c].actor, n)
  BY <1>1 DEF Passes
<1>3. \A n \in Invites : [invite[n] EXCEPT !.status = "ACCEPTED"].status = "ACCEPTED"
  BY DEF Inv, TypeOK, Invite
<1> QED
  BY <1>2, <1>3 DEF AcceptInvitation, Acceptable

\* Of a new invitation, and of those that it replaces.
LEMMA Invitation ==
    ASSUME Inv, NEW c \in Calls, CreateInvitation(c)
    PROVE  \E new \in Invites :
             /\ invite'[new].status = "PENDING"
             /\ \A n \in Invites \ {new} :
                  /\ invite'[n].to = invite[n].to
                  /\ invite'[n].status \in {invite[n].status, "REVOKED"}
                  /\ invite'[n].status = "PENDING" => invite'[n].to # invite'[new].to
<1> DEFINE u == call[c].order.user
<1>1. PICK new \in Invites :
        invite' = [n \in Invites |->
                IF n = new
                THEN [status |-> "PENDING", to |-> u, roles |-> call[c].order.roles]
                ELSE IF invite[n].to = u /\ invite[n].status = "PENDING"
                     THEN [invite[n] EXCEPT !.status = "REVOKED"] ELSE invite[n]]
  BY DEF CreateInvitation
<1>2. \A n \in Invites : /\ [invite[n] EXCEPT !.status = "REVOKED"].status = "REVOKED"
                         /\ [invite[n] EXCEPT !.status = "REVOKED"].to = invite[n].to
  BY DEF Inv, TypeOK, Invite
<1> QED
  BY <1>1, <1>2

LEMMA OnePendingStep == Inv /\ OnePending /\ [Next]_vars => OnePending'
<1> SUFFICES ASSUME Inv, OnePending, [Next]_vars PROVE OnePending'
  OBVIOUS
<1>1. CASE UNCHANGED vars
  BY <1>1 DEF vars, OnePending
<1>2. ASSUME NEW c \in Calls, CreateInvitation(c) PROVE OnePending'
  BY <1>2, Invitation DEF OnePending
<1>3. ASSUME NEW c \in Calls, AcceptInvitation(c) PROVE OnePending'
  BY <1>3, Acceptance DEF OnePending
<1>4. CASE \A n \in Invites : /\ invite'[n].to = invite[n].to
                              /\ invite'[n].status \in {invite[n].status, "REVOKED", "EXPIRED"}
  BY <1>4 DEF OnePending
<1> QED
  BY <1>1, <1>2, <1>3, <1>4, InvitationSteps

AcceptedOnce ==
    \A n \in Invites :
        (invite[n].status # "ACCEPTED" /\ invite'[n].status = "ACCEPTED") =>
            /\ invite[n].status = "PENDING" /\ account[invite[n].to] = "USER"
            /\ \A m \in Invites \ {n} :
                ~(invite[m].status = "PENDING" /\ invite[m].to = invite[n].to)

LEMMA AcceptedStep == Inv /\ OnePending /\ [Next]_vars => [AcceptedOnce]_vars
<1> SUFFICES ASSUME Inv, OnePending, Next PROVE AcceptedOnce
  OBVIOUS
<1>1. ASSUME NEW c \in Calls, CreateInvitation(c) PROVE AcceptedOnce
  BY <1>1, Invitation DEF AcceptedOnce
<1>2. ASSUME NEW c \in Calls, AcceptInvitation(c) PROVE AcceptedOnce
  BY <1>2, Acceptance DEF AcceptedOnce, OnePending
<1>3. CASE \A n \in Invites : /\ invite'[n].to = invite[n].to
                              /\ invite'[n].status \in {invite[n].status, "REVOKED", "EXPIRED"}
  BY <1>3 DEF AcceptedOnce
<1> QED
  BY <1>1, <1>2, <1>3, InvitationSteps

(***************************************************************************)
(* An invitation lets in its addressee, once, while pending and a          *)
(* customer, and he has no other pending one, whatever creates, revokes,   *)
(* accepts and expires it meanwhile (platform-governance.service.ts:280).  *)
(***************************************************************************)
THEOREM OneWayInCorrect == Spec => OneWayIn
<1>1. Init => OnePending
  BY DEF Init, OnePending
<1>2. Spec => []OnePending
  BY <1>1, AlwaysInv, OnePendingStep, PTL DEF Spec
<1>3. Spec => [][AcceptedOnce]_vars
  BY <1>2, AlwaysInv, AcceptedStep, PTL DEF Spec
<1> QED
  BY <1>3 DEF OneWayIn, AcceptedOnce

=============================================================================
