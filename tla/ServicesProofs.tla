--------------------------- MODULE ServicesProofs ---------------------------
(***************************************************************************)
(* Four components that share nothing.                                     *)
(*                                                                         *)
(* The members of an organization, for any users, roles and requests:      *)
(* nothing outlives the organization, a request that takes the role from   *)
(* an owner has counted two, and the last owner goes only by assign_role   *)
(* or by a request whose reads another one has outdated.                   *)
(*                                                                         *)
(* A feature flag, for any users, organizations, overrides, percentages    *)
(* and requests: a user has one override at most, overrides are those of   *)
(* the flag that is there, and a rollout that is raised only adds users.   *)
(*                                                                         *)
(* The circuit breaker of a peer, for any number of calls, thresholds,     *)
(* slots, attempts and cards: a half-open breaker counts as its slots the  *)
(* calls it has admitted and that go on or have leaked, and no others.     *)
(* And the threads, for any number of them, of users, of tasks and of      *)
(* requests: what a deletion, a copy and a sweep leave behind.             *)
(***************************************************************************)
EXTENDS Organizations, FeatureFlags, Threads, Federation, FiniteSetTheorems, TLAPS

---------------------------------------------------------------------------
(* Organizations *)

\* An operation on a member's row while it is under way.
MemberOps ==
    [at : {"target", "count", "write"}, kind : MemberKinds, by : Users,
     asker : Roles \cup {NoRole}, target : Users, role : Roles,
     was : Roles \cup {NoRole}, owners : Nat]

OpPlaces == {"idle", "done", "owner", "target", "count", "write",
             "delete", "drop", "dropRole", "revoke", "used"}

\* Who may take the role from an owner: an owner, or who leaves.
Entitled(o) == o.asker = "owner" \/ (o.kind = "remove" /\ o.by = o.target)

\* What a request has found out when it is about to write.
Checked(o) ==
    /\ o.kind = "add" => o.was # "owner"
    /\ o.kind \in {"change", "remove"} /\ o.was = "owner" =>
          \/ o.kind = "change" /\ o.role = "owner"
          \/ o.owners >= 2 /\ Entitled(o)

OpSound(o) ==
    /\ o.at \in OpPlaces
    /\ o.at \in {"target", "count", "write"} => o \in MemberOps
    /\ o.at = "count" => o.kind \in {"change", "remove"} /\ Entitled(o)
    /\ o.at = "write" => Checked(o)

RowsSound ==
    /\ org \in {"absent", "bare", "live", "deleted"}
    /\ member \in [Users -> Roles \cup {NoRole}]
    /\ roleDef \in [CustomRoles -> RolePerms \cup {NotDefined}]
    /\ custom \in [Users -> CustomPerms \cup {NotGiven}]
    /\ key \in [ApiKeys -> {"none", "valid", "expired", "revoked"}]
    /\ orgFaults \in 0..MaxOrgFaults

Entry(left, perms) == [left |-> left, perms |-> perms]

CacheSound ==
    /\ permCache = [u \in Users |-> permCache[u]]
    /\ \A u \in Users : /\ permCache[u].left \in 0..PermTtl
                        /\ permCache[u] = Entry(permCache[u].left, permCache[u].perms)

OpsSound ==
    /\ op = [r \in Requests |-> op[r]]
    /\ \A r \in Requests : OpSound(op[r])

ReadersSound ==
    /\ reader = [q \in Readers |-> reader[q]]
    /\ \A q \in Readers : reader[q].at \in {"idle", "role", "perms", "custom", "store"}

OrgIInv == RowsSound /\ NothingOutlives /\ CacheSound /\ OpsSound /\ ReadersSound

---------------------------------------------------------------------------
LEMMA InvariantGivesOrgInv == OrgIInv => OrgInv
<1> SUFFICES ASSUME OrgIInv PROVE OrgInv
  OBVIOUS
<1>1. OrgTypeOK
  BY DEF OrgIInv, OrgTypeOK, RowsSound, CacheSound, OpsSound, ReadersSound, OpSound, OpPlaces
<1>2. OwnersCounted
  BY DEF OrgIInv, OwnersCounted, OpsSound, OpSound, Checked, Entitled
<1> QED BY <1>1, <1>2 DEF OrgIInv, OrgInv

LEMMA InitSound == InitOrg => OrgIInv
<1> SUFFICES ASSUME InitOrg PROVE OrgIInv
  OBVIOUS
<1>1. RowsSound
  BY OrgConstants, RoleConstants DEF InitOrg, RowsSound
<1>2. NothingOutlives
  BY DEF InitOrg, NothingOutlives
<1>3. CacheSound
  BY OrgConstants DEF InitOrg, CacheSound, Miss, Entry
<1>4. OpsSound
  BY DEF InitOrg, OpsSound, OpSound, OpPlaces, Waiting
<1>5. ReadersSound
  BY DEF InitOrg, ReadersSound, Waiting
<1> QED BY <1>1, <1>2, <1>3, <1>4, <1>5 DEF OrgIInv

---------------------------------------------------------------------------
(* What a step does to each part.                                          *)

LEMMA OpMoves ==
    ASSUME OpsSound, NEW r \in Requests, NEW state, SetOp(r, state), OpSound(state)
    PROVE  OpsSound'
BY DEF OpsSound, SetOp

\* States of a request that say nothing of a member's row.
LEMMA PlainStates ==
    ASSUME NEW o, o.at \in OpPlaces \ {"target", "count", "write"}
    PROVE  OpSound(o)
BY DEF OpSound, OpPlaces

LEMMA CacheDrops ==
    ASSUME CacheSound, NEW u, permCache' = [permCache EXCEPT ![u] = Miss]
    PROVE  CacheSound'
<1>1. permCache' = [v \in Users |-> permCache'[v]]
  BY DEF CacheSound
<1>2. ASSUME NEW v \in Users
      PROVE  /\ permCache'[v].left \in 0..PermTtl
             /\ permCache'[v] = Entry(permCache'[v].left, permCache'[v].perms)
  <2>1. Miss.left \in 0..PermTtl /\ Miss = Entry(Miss.left, Miss.perms)
    BY OrgConstants DEF Miss, Entry
  <2>2. permCache'[v] = Miss \/ permCache'[v] = permCache[v]
    BY DEF CacheSound
  <2> QED BY <2>1, <2>2 DEF CacheSound
<1> QED BY <1>1, <1>2 DEF CacheSound

\* A request that only notes what it has found.
LEMMA NotingPreserves ==
    ASSUME OrgIInv, NEW r \in Requests, NEW state, SetOp(r, state), OpSound(state),
           UNCHANGED <<rowVars, permCache, reader, orgFaults>>
    PROVE  OrgIInv'
<1>1. OpsSound'
  BY OpMoves DEF OrgIInv
<1> QED
  BY <1>1
  DEF OrgIInv, rowVars, RowsSound, NothingOutlives, CacheSound, ReadersSound

\* A request that writes rows: what is left to show of the rest.
LEMMA WritingPreserves ==
    ASSUME OrgIInv, NEW r \in Requests, NEW state, SetOp(r, state), OpSound(state),
           UNCHANGED <<permCache, reader>>, RowsSound', NothingOutlives'
    PROVE  OrgIInv'
<1>1. OpsSound'
  BY OpMoves DEF OrgIInv
<1> QED BY <1>1 DEF OrgIInv, CacheSound, ReadersSound

---------------------------------------------------------------------------
LEMMA AuthorizeSound ==
    ASSUME OrgIInv, NEW r \in Requests, Authorize(r)
    PROVE  OrgIInv'
<1>1. PICK u \in Users, v \in Users, kind \in MemberKinds, role \in GivenRoles :
          SetOp(r, [at |-> "target", kind |-> kind, by |-> u, asker |-> member[u],
                    target |-> v, role |-> role, was |-> NoRole, owners |-> 0])
  BY DEF Authorize
<1> DEFINE o == [at |-> "target", kind |-> kind, by |-> u, asker |-> member[u],
                 target |-> v, role |-> role, was |-> NoRole, owners |-> 0]
<1>2. o \in MemberOps /\ o.at = "target"
  BY RoleConstants DEF MemberOps, OrgIInv, RowsSound
<1>3. OpSound(o)
  <2> HIDE DEF o
  <2> QED BY <1>2 DEF OpSound, OpPlaces
<1> QED BY <1>1, <1>3, NotingPreserves DEF Authorize

LEMMA ReadTargetSound ==
    ASSUME OrgIInv, NEW r \in Requests, ReadTarget(r)
    PROVE  OrgIInv'
<1> DEFINE o    == op[r]
           now  == member[o.target]
           next == AfterReading(o, now)
           s    == [o EXCEPT !.at = next, !.was = now]
<1>1. o \in MemberOps /\ o.at = "target"
  BY DEF ReadTarget, OrgIInv, OpsSound, OpSound
<1>2. now \in Roles \cup {NoRole}
  BY <1>1 DEF MemberOps, OrgIInv, RowsSound
<1>3. CASE next = "done"
  <2>1. OpSound(Done)
    BY PlainStates DEF Done, OpPlaces
  <2> QED BY <1>3, <2>1, NotingPreserves DEF ReadTarget
<1>4. CASE next # "done"
  <2>1. next \in {"count", "write"}
    <3> HIDE DEF now, o
    <3> QED BY <1>1, <1>4 DEF AfterReading, MemberOps, MemberKinds
  <2>2. [o EXCEPT !.at = next] \in MemberOps
    <3> HIDE DEF now, o, next
    <3> QED BY <1>1, <2>1 DEF MemberOps
  <2>3. s \in MemberOps
    <3> DEFINE moved == [o EXCEPT !.at = next]
    <3>1. [moved EXCEPT !.was = now] \in MemberOps
      <4> HIDE DEF moved, now
      <4>1. moved \in MemberOps
        BY <2>2 DEF moved
      <4> QED BY <4>1, <1>2 DEF MemberOps
    <3>2. s = [moved EXCEPT !.was = now]
      BY Zenon
    <3> QED BY <3>1, <3>2
  <2>4. /\ s.at = next /\ s.kind = o.kind /\ s.by = o.by /\ s.asker = o.asker
        /\ s.target = o.target /\ s.role = o.role /\ s.was = now
    <3> HIDE DEF now, o, next
    <3> QED BY <1>1 DEF MemberOps
  <2>5. next = "count" => o.kind \in {"change", "remove"} /\ Entitled(o)
    <3> HIDE DEF now, o
    <3>1. CASE o.kind = "add"
      BY <3>1 DEF AfterReading
    <3>2. CASE o.kind = "change"
      <4>1. next = IF now \notin OrganizationRole THEN "done"
                   ELSE IF "owner" \in {now, o.role} /\ o.asker # "owner" THEN "done"
                   ELSE IF now = "owner" /\ o.role # "owner" THEN "count" ELSE "write"
        BY <3>2 DEF AfterReading
      <4> QED BY <3>2, <4>1 DEF Entitled
    <3>3. CASE o.kind = "remove"
      <4>1. next = IF now = NoRole THEN "done"
                   ELSE IF now # "owner" THEN "write"
                   ELSE IF o.asker = "owner" \/ o.by = o.target THEN "count" ELSE "done"
        BY <3>3 DEF AfterReading
      <4> QED BY <3>3, <4>1 DEF Entitled
    <3>4. CASE o.kind = "assign"
      BY <3>4 DEF AfterReading
    <3> QED BY <3>1, <3>2, <3>3, <3>4, <1>1 DEF MemberOps, MemberKinds
  <2>6. next = "write" =>
           /\ o.kind = "add" => now # "owner"
           /\ o.kind = "change" /\ now = "owner" => o.role = "owner"
           /\ o.kind = "remove" => now # "owner"
    <3> HIDE DEF now, o
    <3> QED BY <1>1, <1>4 DEF AfterReading, MemberOps, MemberKinds, NoRole
  <2>7. OpSound(s)
    <3> HIDE DEF now, o, next, s
    <3> QED BY <2>1, <2>3, <2>4, <2>5, <2>6 DEF OpSound, OpPlaces, Checked, Entitled
  <2>8. SetOp(r, s)
    BY <1>4 DEF ReadTarget
  <2> QED BY <2>7, <2>8, NotingPreserves DEF ReadTarget
<1> QED BY <1>3, <1>4

LEMMA OwnersCountable == RowsSound => IsFiniteSet(Owners) /\ Cardinality(Owners) \in Nat
BY OrgConstants, FS_Subset, FS_CardinalityType DEF Owners

LEMMA CountOwnersSound ==
    ASSUME OrgIInv, NEW r \in Requests, CountOwners(r)
    PROVE  OrgIInv'
<1> DEFINE o == op[r]
           n == Cardinality(Owners)
           s == [o EXCEPT !.at = "write", !.owners = n]
<1>1. o \in MemberOps /\ o.at = "count" /\ o.kind \in {"change", "remove"} /\ Entitled(o)
  BY DEF CountOwners, OrgIInv, OpsSound, OpSound
<1>2. n \in Nat
  BY OwnersCountable DEF OrgIInv
<1>3. CASE n >= 2
  <2>1. s \in MemberOps
    <3> DEFINE moved == [o EXCEPT !.at = "write"]
    <3>1. moved \in MemberOps
      <4> HIDE DEF o
      <4> QED BY <1>1 DEF MemberOps
    <3>2. [moved EXCEPT !.owners = n] \in MemberOps
      <4> HIDE DEF moved, n
      <4> QED BY <3>1, <1>2 DEF MemberOps
    <3>3. s = [moved EXCEPT !.owners = n]
      BY Zenon
    <3> QED BY <3>2, <3>3
  <2>2. /\ s.at = "write" /\ s.kind = o.kind /\ s.by = o.by /\ s.asker = o.asker
        /\ s.target = o.target /\ s.owners = n
    <3> HIDE DEF o, n
    <3> QED BY <1>1 DEF MemberOps
  <2>3. OpSound(s)
    <3> HIDE DEF o, n, s
    <3> QED BY <1>1, <1>3, <2>1, <2>2 DEF OpSound, OpPlaces, Checked, Entitled
  <2> QED BY <1>3, <2>3, NotingPreserves DEF CountOwners, Enough
<1>4. CASE ~(n >= 2)
  <2>1. OpSound(Done)
    BY PlainStates DEF Done, OpPlaces
  <2> QED BY <1>4, <2>1, NotingPreserves DEF CountOwners, Enough
<1> QED BY <1>3, <1>4

LEMMA WriteMemberSound ==
    ASSUME OrgIInv, NEW r \in Requests, WriteMember(r)
    PROVE  OrgIInv'
<1> DEFINE o == op[r]
<1>1. o \in MemberOps
  BY DEF WriteMember, OrgIInv, OpsSound, OpSound
<1>2. /\ UNCHANGED <<org, roleDef, custom, key, permCache, reader, orgFaults>>
      /\ \/ member' = member
         \/ /\ org = "live" \/ member[o.target] # NoRole
            /\ member' = [member EXCEPT ![o.target] = o.role]
         \/ member' = [member EXCEPT ![o.target] = NoRole]
  <2> HIDE DEF o
  <2>1. o.kind \in MemberKinds
    BY <1>1 DEF MemberOps
  <2> QED BY <2>1 DEF WriteMember, MemberKinds, o
<1>3. RowsSound'
  <2>1. o.target \in Users /\ o.role \in Roles
    BY <1>1 DEF MemberOps
  <2> HIDE DEF o
  <2> QED BY <1>2, <2>1 DEF OrgIInv, RowsSound
<1>4. NothingOutlives'
  <2> SUFFICES ASSUME org # "live" PROVE NothingOutlives'
    BY <1>2 DEF NothingOutlives
  <2>1. o.target \in Users
    BY <1>1 DEF MemberOps
  <2>2. \A u \in Users : member'[u] = NoRole
    <3> HIDE DEF o
    <3> QED BY <1>2, <2>1 DEF OrgIInv, NothingOutlives, RowsSound
  <2> QED BY <1>2, <2>2 DEF OrgIInv, NothingOutlives
<1>5. PICK state : SetOp(r, state) /\ OpSound(state)
  <2>1. OpSound(Done) /\ OpSound([at |-> "drop", users |-> {o.target}])
    BY PlainStates DEF Done, OpPlaces
  <2> QED BY <2>1 DEF WriteMember
<1> QED BY <1>2, <1>3, <1>4, <1>5, WritingPreserves

---------------------------------------------------------------------------
LEMMA StartsSound ==
    ASSUME OrgIInv, NEW r \in Requests, OpStart(r)
    PROVE  OrgIInv'
<1>d. OpSound(Done)
  BY PlainStates DEF Done, OpPlaces
<1>1. CASE CreateOrganization(r)
  <2>1. PICK u \in Users : SetOp(r, [at |-> "owner", by |-> u])
    BY <1>1 DEF CreateOrganization
  <2>2. OpSound([at |-> "owner", by |-> u])
    BY PlainStates DEF OpPlaces
  <2>3. RowsSound' /\ NothingOutlives'
    BY <1>1 DEF CreateOrganization, OrgIInv, RowsSound, NothingOutlives
  <2> QED BY <1>1, <2>1, <2>2, <2>3, WritingPreserves DEF CreateOrganization
<1>2. CASE DeleteOrganization(r)
  <2>1. RowsSound'
    BY <1>2 DEF DeleteOrganization, OrgIInv, RowsSound
  <2>2. NothingOutlives'
    BY <1>2 DEF DeleteOrganization, NothingOutlives
  <2> QED BY <1>2, <1>d, <2>1, <2>2, WritingPreserves DEF DeleteOrganization
<1>3. CASE Authorize(r)
  BY <1>3, AuthorizeSound
<1>4. CASE CreateApiKey(r)
  <2>1. RowsSound' /\ NothingOutlives'
    BY <1>4 DEF CreateApiKey, OrgIInv, RowsSound, NothingOutlives
  <2> QED BY <1>4, <1>d, <2>1, WritingPreserves DEF CreateApiKey
<1>5. CASE ReadKey(r)
  <2>1. PICK k : SetOp(r, [at |-> "revoke", key |-> k])
    BY <1>5 DEF ReadKey
  <2>2. OpSound([at |-> "revoke", key |-> k])
    BY PlainStates DEF OpPlaces
  <2> QED BY <1>5, <2>1, <2>2, NotingPreserves DEF ReadKey
<1>6. CASE VerifyKey(r)
  <2>1. PICK k : SetOp(r, [at |-> "used", key |-> k])
    BY <1>6 DEF VerifyKey
  <2>2. OpSound([at |-> "used", key |-> k])
    BY PlainStates DEF OpPlaces
  <2> QED BY <1>6, <2>1, <2>2, NotingPreserves DEF VerifyKey
<1>7. CASE DefineRole(r)
  <2>1. PICK n \in CustomRoles, ps \in RolePerms :
            /\ roleDef' = [roleDef EXCEPT ![n] = ps]
            /\ \/ SetOp(r, Done) \/ SetOp(r, [at |-> "dropRole", role |-> n])
    BY <1>7 DEF DefineRole
  <2>2. OpSound([at |-> "dropRole", role |-> n])
    BY PlainStates DEF OpPlaces
  <2>3. RowsSound' /\ NothingOutlives'
    BY <1>7, <2>1 DEF DefineRole, OrgIInv, RowsSound, NothingOutlives
  <2> QED BY <1>7, <1>d, <2>1, <2>2, <2>3, WritingPreserves DEF DefineRole
<1>8. CASE FindRoleMembers(r)
  <2>1. PICK n : SetOp(r, [at |-> "delete", role |-> n])
    BY <1>8 DEF FindRoleMembers
  <2>2. OpSound([at |-> "delete", role |-> n])
    BY PlainStates DEF OpPlaces
  <2> QED BY <1>8, <2>1, <2>2, NotingPreserves DEF FindRoleMembers
<1>9. CASE SetCustomPermissions(r)
  <2>1. PICK u \in Users, c \in CustomPerms \cup {NotGiven} :
            /\ custom' = [custom EXCEPT ![u] = c]
            /\ SetOp(r, [at |-> "drop", users |-> {u}])
    BY <1>9 DEF SetCustomPermissions
  <2>2. OpSound([at |-> "drop", users |-> {u}])
    BY PlainStates DEF OpPlaces
  <2>3. RowsSound' /\ NothingOutlives'
    BY <1>9, <2>1 DEF SetCustomPermissions, OrgIInv, RowsSound, NothingOutlives
  <2> QED BY <1>9, <2>1, <2>2, <2>3, WritingPreserves DEF SetCustomPermissions
<1> QED BY <1>1, <1>2, <1>3, <1>4, <1>5, <1>6, <1>7, <1>8, <1>9 DEF OpStart

LEMMA DropSound ==
    ASSUME OrgIInv, NEW r \in Requests, DropPermissions(r)
    PROVE  OrgIInv'
<1>1. CASE op[r].users = {}
  <2>1. OpSound(Done)
    BY PlainStates DEF Done, OpPlaces
  <2> QED BY <1>1, <2>1, NotingPreserves DEF DropPermissions
<1>2. CASE op[r].users # {}
  <2>1. PICK u \in op[r].users :
            /\ \/ permCache' = [permCache EXCEPT ![u] = Miss] /\ UNCHANGED orgFaults
               \/ OrgFault /\ UNCHANGED permCache
            /\ SetOp(r, [op[r] EXCEPT !.users = @ \ {u}])
    BY <1>2 DEF DropPermissions
  <2>2. CacheSound'
    <3>1. CASE permCache' = [permCache EXCEPT ![u] = Miss]
      BY <3>1, CacheDrops DEF OrgIInv
    <3>2. CASE UNCHANGED permCache
      BY <3>2 DEF OrgIInv, CacheSound
    <3> QED BY <2>1, <3>1, <3>2
  <2>3. RowsSound'
    BY <2>1, OrgConstants DEF DropPermissions, OrgFault, rowVars, OrgIInv, RowsSound
  <2>4. OpSound([op[r] EXCEPT !.users = op[r].users \ {u}])
    <3>1. [op[r] EXCEPT !.users = op[r].users \ {u}].at = "drop"
      BY DEF DropPermissions
    <3> QED BY <3>1, PlainStates DEF OpPlaces
  <2>5. OpsSound'
    BY <2>1, <2>4, OpMoves DEF OrgIInv
  <2> QED
    BY <2>2, <2>3, <2>5 DEF DropPermissions, rowVars, OrgIInv, NothingOutlives, ReadersSound
<1> QED BY <1>1, <1>2

LEMMA StepsSound ==
    ASSUME OrgIInv, NEW r \in Requests, OpStep(r)
    PROVE  OrgIInv'
<1>d. OpSound(Done)
  BY PlainStates DEF Done, OpPlaces
<1>1. CASE AddFirstOwner(r)
  <2>1. RowsSound' /\ NothingOutlives'
    BY <1>1, OrgConstants
    DEF AddFirstOwner, OrgFault, OrgIInv, RowsSound, NothingOutlives, Roles, OrganizationRole
  <2> QED BY <1>1, <1>d, <2>1, WritingPreserves DEF AddFirstOwner
<1>2. CASE ReadTarget(r)
  BY <1>2, ReadTargetSound
<1>3. CASE CountOwners(r)
  BY <1>3, CountOwnersSound
<1>4. CASE WriteMember(r)
  BY <1>4, WriteMemberSound
<1>5. CASE RevokeKey(r)
  <2>1. RowsSound' /\ NothingOutlives'
    BY <1>5 DEF RevokeKey, OrgIInv, RowsSound, NothingOutlives
  <2> QED BY <1>5, <1>d, <2>1, WritingPreserves DEF RevokeKey
<1>6. CASE NoteUse(r)
  BY <1>6, <1>d, NotingPreserves DEF NoteUse
<1>7. CASE DeleteRole(r)
  <2>1. OpSound([at |-> "dropRole", role |-> op[r].role])
    BY PlainStates DEF OpPlaces
  <2>2. RowsSound' /\ NothingOutlives'
    BY <1>7 DEF DeleteRole, OrgIInv, RowsSound, NothingOutlives
  <2> QED BY <1>7, <2>1, <2>2, WritingPreserves DEF DeleteRole
<1>8. CASE FindUsersOfRole(r)
  <2>1. OpSound([at |-> "drop", users |-> {u \in Users : member[u] = op[r].role}])
    BY PlainStates DEF OpPlaces
  <2> QED BY <1>8, <2>1, NotingPreserves DEF FindUsersOfRole
<1>9. CASE DropPermissions(r)
  BY <1>9, DropSound
<1> QED BY <1>1, <1>2, <1>3, <1>4, <1>5, <1>6, <1>7, <1>8, <1>9 DEF OpStep

LEMMA ReadersStepSound ==
    ASSUME OrgIInv, NEW q \in Readers, AskPermissions(q) \/ ReaderStep(q)
    PROVE  OrgIInv'
<1>1. ReadersSound'
  BY DEF AskPermissions, ReaderStep, ReadRole, ReadPerms, ReadCustom, StorePermissions,
         SetReader, Waiting, OrgIInv, ReadersSound
<1>2. CacheSound'
  BY OrgConstants
  DEF AskPermissions, ReaderStep, ReadRole, ReadPerms, ReadCustom, StorePermissions,
      OrgIInv, CacheSound, Entry
<1>3. UNCHANGED <<rowVars, op, orgFaults>>
  BY DEF AskPermissions, ReaderStep, ReadRole, ReadPerms, ReadCustom, StorePermissions
<1> QED
  BY <1>1, <1>2, <1>3 DEF rowVars, OrgIInv, RowsSound, NothingOutlives, OpsSound

LEMMA NextSound == OrgIInv /\ [NextOrg]_orgVars => OrgIInv'
<1> SUFFICES ASSUME OrgIInv, [NextOrg]_orgVars PROVE OrgIInv'
  OBVIOUS
<1>1. CASE PermClock
  <2>1. CacheSound'
    <3>1. permCache' = [u \in Users |-> permCache'[u]]
      BY <1>1 DEF PermClock
    <3>2. ASSUME NEW u \in Users
          PROVE  /\ permCache'[u].left \in 0..PermTtl
                 /\ permCache'[u] = Entry(permCache'[u].left, permCache'[u].perms)
      <4> DEFINE entry == permCache[u]
      <4>1. entry.left \in 0..PermTtl /\ entry = Entry(entry.left, entry.perms)
        BY DEF OrgIInv, CacheSound
      <4>2. permCache'[u] = Kept(entry)
        BY <1>1 DEF PermClock
      <4> HIDE DEF entry
      <4>3. CASE entry.left <= 1
        BY <4>2, <4>3, OrgConstants DEF Kept, Miss, Entry
      <4>4. CASE ~(entry.left <= 1)
        <5>1. permCache'[u] = [entry EXCEPT !.left = entry.left - 1]
          BY <4>2, <4>4 DEF Kept
        <5>2. permCache'[u] = Entry(entry.left - 1, entry.perms)
          BY <5>1, <4>1 DEF Entry
        <5> QED BY <5>2, <4>1, <4>4, OrgConstants DEF Entry
      <4> QED BY <4>3, <4>4
    <3> QED BY <3>1, <3>2 DEF CacheSound
  <2> QED
    BY <1>1, <2>1
    DEF PermClock, rowVars, OrgIInv, RowsSound, NothingOutlives, OpsSound, ReadersSound
<1>2. ASSUME NEW u \in Users, CustomExpires(u) PROVE OrgIInv'
  BY <1>2
  DEF CustomExpires, OrgIInv, RowsSound, NothingOutlives, CacheSound, OpsSound, ReadersSound
<1>3. ASSUME NEW k \in ApiKeys, KeyExpires(k) PROVE OrgIInv'
  BY <1>3
  DEF KeyExpires, OrgIInv, RowsSound, NothingOutlives, CacheSound, OpsSound, ReadersSound
<1>4. ASSUME NEW r \in Requests, OpStart(r) \/ OpStep(r) PROVE OrgIInv'
  BY <1>4, StartsSound, StepsSound
<1>5. ASSUME NEW q \in Readers, AskPermissions(q) \/ ReaderStep(q) PROVE OrgIInv'
  BY <1>5, ReadersStepSound
<1>6. CASE UNCHANGED orgVars
  BY <1>6
  DEF orgVars, OrgIInv, RowsSound, NothingOutlives, CacheSound, OpsSound, ReadersSound
<1> QED BY <1>1, <1>2, <1>3, <1>4, <1>5, <1>6 DEF NextOrg

(***************************************************************************)
(* OrganizationService: nothing outlives the organization, whatever is in  *)
(* progress when it is deleted, and who takes the role from an owner has   *)
(* counted two of them (_ensure_not_last_owner before the write).          *)
(***************************************************************************)
THEOREM OrganizationSound == OrgSpec => []OrgInv
<1> QED BY InitSound, NextSound, InvariantGivesOrgInv, PTL DEF OrgSpec

---------------------------------------------------------------------------
(* The last owner.                                                         *)

\* If no owner is left after a write, the one it was written to was the only one.
LEMMA OnlyOwner ==
    ASSUME RowsSound, NEW u \in Users, Owners # {}, Owners' = {},
           \A v \in Users \ {u} : member'[v] = member[v]
    PROVE  Owners = {u} /\ Cardinality(Owners) = 1
<1>1. Owners = {u}
  BY DEF Owners
<1> QED BY <1>1, FS_Singleton

\* The step in which the last owner goes, for the request that takes it.
LEMMA LastOwnerStep ==
    ASSUME OrgIInv, NextOrg, NEW r \in Requests, org = "live", org' = "live",
           Owners # {}, Owners' = {}, op[r].at = "write", op'[r].at # "write"
    PROVE  \/ op[r].kind = "assign"
           \/ op[r].was # "owner"
           \/ op[r].owners > Cardinality(Owners)
<1> DEFINE o == op[r]
<1>1. WriteMember(r)
  <2>1. op' # op
    OBVIOUS
  <2>2. PICK s \in Requests : OpStart(s) \/ OpStep(s)
    BY <2>1
    DEF NextOrg, PermClock, CustomExpires, KeyExpires, AskPermissions, ReaderStep, ReadRole,
        ReadPerms, ReadCustom, StorePermissions
  <2>3. \E state : SetOp(s, state)
    BY <2>2
    DEF OpStart, OpStep, CreateOrganization, DeleteOrganization, Authorize, CreateApiKey,
        ReadKey, VerifyKey, DefineRole, FindRoleMembers, SetCustomPermissions, AddFirstOwner,
        ReadTarget, CountOwners, WriteMember, RevokeKey, NoteUse, DeleteRole,
        FindUsersOfRole, DropPermissions
  <2>4. s = r
    BY <2>3 DEF SetOp, OrgIInv, OpsSound
  <2> QED
    BY <2>2, <2>4
    DEF OpStart, OpStep, CreateOrganization, DeleteOrganization, Authorize, CreateApiKey,
        ReadKey, VerifyKey, DefineRole, FindRoleMembers, SetCustomPermissions, AddFirstOwner,
        ReadTarget, CountOwners, RevokeKey, NoteUse, DeleteRole, FindUsersOfRole,
        DropPermissions, Waiting
<1>2. o \in MemberOps /\ Checked(o)
  BY DEF OrgIInv, OpsSound, OpSound
<1>3. o.target \in Users /\ o.kind \in MemberKinds /\ o.owners \in Nat
  BY <1>2 DEF MemberOps
<1>4. \A v \in Users \ {o.target} : member'[v] = member[v]
  <2> HIDE DEF o
  <2> QED BY <1>1, <1>3 DEF WriteMember, MemberKinds, o, OrgIInv, RowsSound
<1>5. Owners = {o.target} /\ Cardinality(Owners) = 1
  BY <1>3, <1>4, OnlyOwner DEF OrgIInv
<1>6. CASE o.kind = "add"
  BY <1>2, <1>6 DEF Checked
<1>7. CASE o.kind \in {"change", "remove"} /\ o.was = "owner"
  <2>1. ~(o.kind = "change" /\ o.role = "owner")
    <3> SUFFICES ASSUME o.kind = "change", o.role = "owner" PROVE FALSE
      OBVIOUS
    <3>1. member[o.target] # NoRole
      BY <1>5 DEF Owners, NoRole
    <3>2. member'[o.target] = "owner"
      BY <1>1, <1>3, <3>1 DEF WriteMember, OrgIInv, RowsSound
    <3> QED BY <3>2, <1>3 DEF Owners
  <2> QED BY <1>2, <1>3, <1>5, <1>7, <2>1 DEF Checked
<1>8. CASE o.kind = "assign"
  BY <1>8
<1> QED BY <1>3, <1>6, <1>7, <1>8 DEF MemberKinds

(***************************************************************************)
(* remove_member and update_member_role (_ensure_not_last_owner): when the *)
(* last owner goes, assign_role did it, or a request whose count or whose  *)
(* reading of the row another request has outdated.                        *)
(***************************************************************************)
THEOREM LastOwnerKept == OrgSpec => LastOwnerLostByRace
<1>1. OrgIInv /\ [NextOrg]_orgVars =>
        [\A r \in Requests :
            org = "live" /\ org' = "live" /\ Owners # {} /\ Owners' = {}
            /\ op[r].at = "write" /\ op'[r].at # "write" =>
               \/ op[r].kind = "assign"
               \/ op[r].was # "owner"
               \/ op[r].owners > Cardinality(Owners)]_orgVars
  BY LastOwnerStep
<1> QED BY <1>1, InitSound, NextSound, PTL DEF OrgSpec, LastOwnerLostByRace

---------------------------------------------------------------------------
(* Feature flags *)

FlagValues == {"on", "off"} \cup OverrideValues

FlagSound ==
    /\ flag \in Flags \cup {NoFlag}
    /\ created \in Nat /\ changes \in 0..MaxChanges /\ created <= changes

OverridesSound ==
    /\ overrides \subseteq Override
    /\ OneOverridePerUser

FlagCacheSound == flagCache \in [FlagUsers -> [left : 0..FlagTtl, value : FlagValues]]

EvaluationsSound ==
    /\ evaluation = [e \in Evaluators |-> evaluation[e]]
    /\ \A e \in Evaluators :
          /\ evaluation[e].at \in {"idle", "cache", "user", "org", "store"}
          /\ evaluation[e].at = "store" => evaluation[e].value \in FlagValues

AddersSound ==
    /\ adding = [a \in Adders |-> adding[a]]
    /\ \A a \in Adders :
          /\ adding[a].at \in {"idle", "insert"}
          /\ adding[a].at = "insert" =>
                adding[a].flag \in 1..MaxChanges /\ adding[a].target \in FlagUsers \cup {"org"}

FlagIInv == FlagSound /\ OverridesSound /\ FlagCacheSound /\ EvaluationsSound /\ AddersSound

---------------------------------------------------------------------------
LEMMA InvariantGivesFlagInv == FlagIInv => FlagInv
BY DEF FlagIInv, FlagInv, FlagTypeOK, FlagSound, OverridesSound, FlagCacheSound, FlagValues,
       EvaluationsSound, AddersSound

LEMMA FlagsBegin == InitFlags => FlagIInv
<1> SUFFICES ASSUME InitFlags PROVE FlagIInv
  OBVIOUS
<1>1. FlagSound
  BY FlagConstants DEF InitFlags, FlagSound
<1>2. OverridesSound
  BY DEF InitFlags, OverridesSound, OneOverridePerUser
<1>3. FlagCacheSound
  BY FlagConstants DEF InitFlags, FlagCacheSound, FlagValues, NotCached
<1>4. EvaluationsSound /\ AddersSound
  BY DEF InitFlags, EvaluationsSound, AddersSound, Inactive
<1> QED BY <1>1, <1>2, <1>3, <1>4 DEF FlagIInv

---------------------------------------------------------------------------
(* A flag whose fields change keeps its type and its id.                   *)
LEMMA ChangedFlags ==
    ASSUME NEW f \in Flags
    PROVE  /\ f # NoFlag /\ f.id \in 1..MaxChanges
           /\ \A b \in BOOLEAN :
                /\ [f EXCEPT !.enabled = b] \in Flags /\ [f EXCEPT !.enabled = b].id = f.id
                /\ [f EXCEPT !.expired = b] \in Flags /\ [f EXCEPT !.expired = b].id = f.id
           /\ \A s \in FlagStatus :
                [f EXCEPT !.status = s] \in Flags /\ [f EXCEPT !.status = s].id = f.id
           /\ \A r \in Rollouts :
                [f EXCEPT !.rollout = r] \in Flags /\ [f EXCEPT !.rollout = r].id = f.id
<1>1. f # NoFlag /\ f.id \in 1..MaxChanges
  <2>1. NoFlag.id = 0
    BY DEF NoFlag
  <2> QED BY <2>1, FlagConstants DEF Flags
<1>2. ASSUME NEW b \in BOOLEAN
      PROVE  [f EXCEPT !.enabled = b] \in Flags /\ [f EXCEPT !.enabled = b].id = f.id
  BY FlagConstants DEF Flags
<1>3. ASSUME NEW b \in BOOLEAN
      PROVE  [f EXCEPT !.expired = b] \in Flags /\ [f EXCEPT !.expired = b].id = f.id
  BY FlagConstants DEF Flags
<1>4. ASSUME NEW s \in FlagStatus
      PROVE  [f EXCEPT !.status = s] \in Flags /\ [f EXCEPT !.status = s].id = f.id
  BY FlagConstants DEF Flags
<1>5. ASSUME NEW r \in Rollouts
      PROVE  [f EXCEPT !.rollout = r] \in Flags /\ [f EXCEPT !.rollout = r].id = f.id
  BY FlagConstants DEF Flags
<1> QED BY <1>1, <1>2, <1>3, <1>4, <1>5

\* Without a flag there are no overrides.
LEMMA NoFlagNoOverrides == OverridesSound /\ flag = NoFlag => overrides = {}
<1> SUFFICES ASSUME OverridesSound, flag = NoFlag, NEW v \in overrides PROVE FALSE
  OBVIOUS
<1>1. v.flag = 0
  BY DEF OverridesSound, OneOverridePerUser, NoFlag
<1>2. v.flag \in 1..MaxChanges
  BY DEF OverridesSound, Override
<1> QED BY <1>1, <1>2, FlagConstants

\* A change of the row that keeps its id keeps the overrides.
LEMMA RowChangePreserves ==
    ASSUME FlagIInv, flag # NoFlag, flag' \in Flags, flag'.id = flag.id, CountChange,
           UNCHANGED <<overrides, flagCache, evaluation, adding, created>>
    PROVE  FlagIInv'
<1>1. FlagSound'
  BY FlagConstants DEF FlagIInv, FlagSound, CountChange
<1>2. OverridesSound'
  BY DEF FlagIInv, OverridesSound, OneOverridePerUser
<1> QED BY <1>1, <1>2 DEF FlagIInv, FlagCacheSound, EvaluationsSound, AddersSound

\* A change of the overrides keeps the rest.
LEMMA OverrideChangePreserves ==
    ASSUME FlagIInv, OverridesSound', AddersSound', CountChange,
           UNCHANGED <<flag, flagCache, evaluation, created>>
    PROVE  FlagIInv'
<1>1. FlagSound'
  BY FlagConstants DEF FlagIInv, FlagSound, CountChange
<1> QED BY <1>1 DEF FlagIInv, FlagCacheSound, EvaluationsSound

\* A step of an evaluation that keeps nothing.
LEMMA EvaluationPreserves ==
    ASSUME FlagIInv, NEW e \in Evaluators, NEW state, SetEvaluation(e, state),
           state.at \in {"idle", "cache", "user", "org", "store"},
           state.at = "store" => state.value \in FlagValues,
           UNCHANGED <<flag, overrides, adding, created, changes>>, FlagCacheSound'
    PROVE  FlagIInv'
<1>1. EvaluationsSound'
  BY DEF FlagIInv, EvaluationsSound, SetEvaluation
<1> QED
  BY <1>1 DEF FlagIInv, FlagSound, OverridesSound, OneOverridePerUser, AddersSound

---------------------------------------------------------------------------
LEMMA ChangesSound ==
    ASSUME FlagIInv, CreateFlag \/ UpdateFlag \/ FlagExpires \/ DeleteFlag
    PROVE  FlagIInv'
<1>0. flag \in Flags \/ flag = NoFlag
  BY DEF FlagIInv, FlagSound
<1>1. CASE CreateFlag
  <2>1. PICK enabled \in BOOLEAN, rollout \in Rollouts :
            flag' = [id |-> created + 1, status |-> "active", enabled |-> enabled,
                     rollout |-> rollout, expired |-> FALSE]
    BY <1>1 DEF CreateFlag
  <2>2. ASSUME NEW b \in BOOLEAN
        PROVE  [id |-> created + 1, status |-> "active", enabled |-> enabled,
                rollout |-> rollout, expired |-> b] \in Flags
    BY <1>1, FlagConstants
    DEF CreateFlag, CountChange, FlagIInv, FlagSound, Flags, FlagStatus
  <2>3. flag' \in Flags
    BY <2>1, <2>2, Zenon
  <2>4. FlagSound'
    BY <1>1, <2>3, FlagConstants DEF CreateFlag, CountChange, FlagIInv, FlagSound
  <2>5. OverridesSound'
    BY <1>1, NoFlagNoOverrides DEF CreateFlag, FlagIInv, OverridesSound, OneOverridePerUser
  <2> QED
    BY <1>1, <2>4, <2>5
    DEF CreateFlag, FlagChanged, LogSucceeds, FlagIInv, FlagCacheSound, EvaluationsSound,
        AddersSound
<1>2. CASE UpdateFlag
  <2>1. flag \in Flags
    BY <1>0, <1>2 DEF UpdateFlag
  <2>2. flag' \in Flags /\ flag'.id = flag.id
    <3>1. CASE \E b \in BOOLEAN : flag' = [flag EXCEPT !.enabled = b]
      BY <2>1, <3>1, ChangedFlags, ZenonT(60)
    <3>2. CASE \E s \in FlagStatus : flag' = [flag EXCEPT !.status = s]
      <4>1. PICK s \in FlagStatus : flag' = [flag EXCEPT !.status = s]
        BY <3>2
      <4>2. [flag EXCEPT !.status = s] \in Flags /\ [flag EXCEPT !.status = s].id = flag.id
        BY <2>1, ChangedFlags
      <4> QED BY <4>1, <4>2
    <3>3. CASE \E r \in Rollouts : flag' = [flag EXCEPT !.rollout = r]
      <4>1. PICK r \in Rollouts : flag' = [flag EXCEPT !.rollout = r]
        BY <3>3
      <4>2. [flag EXCEPT !.rollout = r] \in Flags /\ [flag EXCEPT !.rollout = r].id = flag.id
        BY <2>1, ChangedFlags
      <4> QED BY <4>1, <4>2
    <3>4. CASE flag' = [flag EXCEPT !.expired = FALSE]
      <4>1. FALSE \in BOOLEAN
        OBVIOUS
      <4> QED BY <2>1, <3>4, <4>1, ChangedFlags, Zenon
    <3> QED BY <1>2, <3>1, <3>2, <3>3, <3>4, Zenon DEF UpdateFlag
  <2> QED
    BY <1>2, <2>2, RowChangePreserves DEF UpdateFlag, FlagChanged, LogSucceeds
<1>3. CASE FlagExpires
  <2>1. flag \in Flags
    BY <1>0, <1>3 DEF FlagExpires
  <2>2. flag' \in Flags /\ flag'.id = flag.id
    BY <1>3, <2>1, ChangedFlags, Zenon DEF FlagExpires
  <2> QED BY <1>3, <2>2, RowChangePreserves DEF FlagExpires
<1>4. CASE DeleteFlag
  <2>1. overrides' = {}
    BY <1>4 DEF DeleteFlag, FlagIInv, OverridesSound, OneOverridePerUser
  <2>2. OverridesSound'
    BY <2>1 DEF OverridesSound, OneOverridePerUser
  <2>3. FlagSound'
    BY <1>4, FlagConstants DEF DeleteFlag, CountChange, FlagIInv, FlagSound
  <2> QED
    BY <1>4, <2>2, <2>3
    DEF DeleteFlag, FlagChanged, LogSucceeds, FlagIInv, FlagCacheSound, EvaluationsSound,
        AddersSound
<1> QED BY <1>1, <1>2, <1>3, <1>4

LEMMA CheckOverrideSound ==
    ASSUME FlagIInv, NEW a \in Adders, CheckOverride(a)
    PROVE  FlagIInv'
<1>1. PICK target \in (FlagUsers \ {"anon"}) \cup {"org"} :
          adding' = [adding EXCEPT ![a] = [at |-> "insert", flag |-> flag.id, target |-> target]]
  BY DEF CheckOverride
<1>2. flag.id \in 1..MaxChanges
  BY ChangedFlags DEF CheckOverride, FlagIInv, FlagSound
<1>3. AddersSound'
  BY <1>1, <1>2 DEF FlagIInv, AddersSound
<1> QED
  BY <1>3
  DEF CheckOverride, FlagIInv, FlagSound, OverridesSound, OneOverridePerUser, FlagCacheSound,
      EvaluationsSound

LEMMA InsertOverrideSound ==
    ASSUME FlagIInv, NEW a \in Adders, InsertOverride(a)
    PROVE  FlagIInv'
<1> DEFINE x == adding[a]
<1>1. x.flag \in 1..MaxChanges /\ x.target \in FlagUsers \cup {"org"}
  BY DEF InsertOverride, FlagIInv, AddersSound
<1>2. AddersSound'
  BY DEF InsertOverride, FlagIInv, AddersSound, Inactive
<1>3. CASE UNCHANGED <<overrides, flagCache, evaluation, changes>>
  BY <1>2, <1>3
  DEF InsertOverride, FlagIInv, FlagSound, OverridesSound, OneOverridePerUser,
      FlagCacheSound, EvaluationsSound
<1>4. CASE flag.id = x.flag /\ Unique(x) /\ CountChange /\ NewIds # {} /\ FlagChanged
           /\ \E value \in OverrideValues :
                overrides' = overrides \cup {[id |-> CHOOSE id \in NewIds : TRUE, flag |-> x.flag,
                                              target |-> x.target, value |-> value, live |-> TRUE]}
  <2>0. PICK value \in OverrideValues :
            overrides' = overrides \cup {[id |-> CHOOSE id \in NewIds : TRUE, flag |-> x.flag,
                                          target |-> x.target, value |-> value, live |-> TRUE]}
    BY <1>4, Zenon
  <2>1. PICK new :
            /\ new = [id |-> CHOOSE id \in NewIds : TRUE, flag |-> x.flag,
                      target |-> x.target, value |-> value, live |-> TRUE]
            /\ overrides' = overrides \cup {new}
    BY <2>0, Zenon
  <2>2. (CHOOSE id \in NewIds : TRUE) \in OverrideIds
    BY <1>4 DEF NewIds
  <2>3. ASSUME NEW b \in BOOLEAN
        PROVE  [id |-> CHOOSE id \in NewIds : TRUE, flag |-> x.flag, target |-> x.target,
                value |-> value, live |-> b] \in Override
    <3> HIDE DEF x
    <3> QED BY <1>1, <2>2 DEF Override
  <2>4. new \in Override
    BY <2>1, <2>3, Zenon
  <2>5. new.flag = flag.id /\ new.target = x.target
    BY <1>4, <2>1
  <2>6. \A v \in overrides : v.target # "org" => v.target # new.target
    BY <1>4, <2>5 DEF Unique, FlagIInv, OverridesSound, OneOverridePerUser
  <2>7. OverridesSound'
    <3>1. overrides' = overrides \cup {new} /\ flag' = flag
      BY <2>1 DEF InsertOverride
    <3>2. /\ overrides \subseteq Override
          /\ \A v, w \in overrides :
                /\ v.flag = flag.id
                /\ v.target # "org" /\ v.target = w.target => v = w
      BY DEF FlagIInv, OverridesSound, OneOverridePerUser
    <3> HIDE DEF x
    <3> QED BY <3>1, <3>2, <2>4, <2>5, <2>6 DEF OverridesSound, OneOverridePerUser
  <2> QED
    BY <1>2, <1>4, <2>7, OverrideChangePreserves DEF InsertOverride, FlagChanged, LogSucceeds
<1> QED BY <1>3, <1>4 DEF InsertOverride

LEMMA OverrideEditsSound ==
    ASSUME FlagIInv, UpdateOverride \/ DeleteOverride
    PROVE  FlagIInv'
<1>1. AddersSound'
  BY DEF UpdateOverride, DeleteOverride, FlagIInv, AddersSound
<1>2. CASE DeleteOverride
  <2>1. OverridesSound'
    BY <1>2 DEF DeleteOverride, FlagIInv, OverridesSound, OneOverridePerUser
  <2> QED
    BY <1>1, <1>2, <2>1, OverrideChangePreserves DEF DeleteOverride, FlagChanged, LogSucceeds
<1>3. CASE UpdateOverride
  <2>1. PICK v \in overrides, b \in BOOLEAN, value \in OverrideValues :
            overrides' = (overrides \ {v}) \cup {[v EXCEPT !.live = b, !.value = value]}
    BY <1>3 DEF UpdateOverride
  <2> DEFINE new == [v EXCEPT !.live = b, !.value = value]
  <2>2. v \in Override
    BY DEF FlagIInv, OverridesSound
  <2>3. new \in Override
    <3> DEFINE moved == [v EXCEPT !.live = b]
    <3>1. moved \in Override
      BY <2>2 DEF Override
    <3>2. [moved EXCEPT !.value = value] \in Override
      <4> HIDE DEF moved
      <4> QED BY <3>1 DEF Override
    <3>3. new = [moved EXCEPT !.value = value]
      BY Zenon
    <3> QED BY <3>2, <3>3
  <2>4. new.flag = v.flag /\ new.target = v.target
    BY <2>2 DEF Override
  <2>5. OverridesSound'
    <3> HIDE DEF new
    <3>1. overrides' = (overrides \ {v}) \cup {new} /\ flag' = flag
      BY <1>3, <2>1 DEF new, UpdateOverride
    <3> QED BY <2>3, <2>4, <3>1 DEF FlagIInv, OverridesSound, OneOverridePerUser
  <2> QED
    BY <1>1, <1>3, <2>5, OverrideChangePreserves DEF UpdateOverride, FlagChanged, LogSucceeds
<1> QED BY <1>2, <1>3

---------------------------------------------------------------------------
LEMMA EvaluationsStepSound ==
    ASSUME FlagIInv, NEW e \in Evaluators, EvaluationStep(e)
    PROVE  FlagIInv'
<1> DEFINE x == evaluation[e]
<1>i. Inactive.at = "idle"
  BY DEF Inactive
<1>k. \A value : Keep(x, value).at = "store" /\ Keep(x, value).value = value
  BY DEF Keep
<1>v. \A v \in overrides : v.value \in FlagValues
  BY DEF FlagIInv, OverridesSound, Override, FlagValues
<1>1. CASE ReadFlagCache(e)
  <2>1. /\ flagCache' = flagCache
        /\ UNCHANGED <<flag, overrides, adding, created, changes>>
        /\ \/ SetEvaluation(e, Inactive)
           \/ SetEvaluation(e, [x EXCEPT !.at = IF x.user = "anon" THEN "org" ELSE "user"])
    BY <1>1 DEF ReadFlagCache
  <2>2. [x EXCEPT !.at = IF x.user = "anon" THEN "org" ELSE "user"].at \in {"org", "user"}
    BY <1>1 DEF ReadFlagCache
  <2>3. FlagCacheSound'
    BY <2>1 DEF FlagIInv, FlagCacheSound
  <2> HIDE DEF x
  <2> QED BY <1>i, <2>1, <2>2, <2>3, EvaluationPreserves
<1>2. CASE ReadUserOverride(e)
  <2>1. /\ flagCache' = flagCache
        /\ UNCHANGED <<flag, overrides, adding, created, changes>>
        /\ \/ SetEvaluation(e, Inactive)
           \/ SetEvaluation(e, [x EXCEPT !.at = "org"])
           \/ \E v \in Active(x.flag, x.user) : SetEvaluation(e, Keep(x, v.value))
    BY <1>2 DEF ReadUserOverride
  <2>2. [x EXCEPT !.at = "org"].at = "org"
    BY <1>2 DEF ReadUserOverride
  <2>3. FlagCacheSound'
    BY <2>1 DEF FlagIInv, FlagCacheSound
  <2>4. \A v \in Active(x.flag, x.user) : v.value \in FlagValues
    BY <1>v DEF Active
  <2> HIDE DEF x
  <2> QED BY <1>i, <1>k, <2>1, <2>2, <2>3, <2>4, EvaluationPreserves
<1>3. CASE ReadOrgOverride(e)
  <2>1. /\ flagCache' = flagCache
        /\ UNCHANGED <<flag, overrides, adding, created, changes>>
        /\ \/ SetEvaluation(e, Inactive)
           \/ \E value \in ByFlag(x.flag, x.user, x.org) : SetEvaluation(e, Keep(x, value))
           \/ \E v \in Active(x.flag, "org") : SetEvaluation(e, Keep(x, v.value))
    BY <1>3 DEF ReadOrgOverride
  <2>2. FlagCacheSound'
    BY <2>1 DEF FlagIInv, FlagCacheSound
  <2>3. \A v \in Active(x.flag, "org") : v.value \in FlagValues
    BY <1>v DEF Active
  <2>4. \A value \in ByFlag(x.flag, x.user, x.org) : value \in FlagValues
    BY DEF ByFlag, FlagValues
  <2> HIDE DEF x
  <2> QED BY <1>i, <1>k, <2>1, <2>2, <2>3, <2>4, EvaluationPreserves
<1>4. CASE KeepResult(e)
  <2>1. /\ UNCHANGED <<flag, overrides, adding, created, changes>>
        /\ SetEvaluation(e, Inactive)
        /\ \/ flagCache' = [flagCache EXCEPT ![x.user] = [left |-> FlagTtl, value |-> x.value]]
           \/ UNCHANGED flagCache
        /\ x.value \in FlagValues
    BY <1>4 DEF KeepResult, FlagIInv, EvaluationsSound
  <2>2. FlagCacheSound'
    <3> HIDE DEF x
    <3> QED BY <2>1, FlagConstants DEF FlagIInv, FlagCacheSound
  <2> QED BY <1>i, <2>1, <2>2, EvaluationPreserves
<1> QED BY <1>1, <1>2, <1>3, <1>4 DEF EvaluationStep

LEMMA FlagsStep == FlagIInv /\ [NextFlags]_flagVars => FlagIInv'
<1> SUFFICES ASSUME FlagIInv, [NextFlags]_flagVars PROVE FlagIInv'
  OBVIOUS
<1>1. CASE FlagClock
  <2>1. FlagCacheSound'
    <3>1. ASSUME NEW entry \in [left : 0..FlagTtl, value : FlagValues]
          PROVE  EntryAged(entry) \in [left : 0..FlagTtl, value : FlagValues]
      BY FlagConstants DEF EntryAged, NotCached, FlagValues
    <3> QED BY <1>1, <3>1 DEF FlagClock, FlagIInv, FlagCacheSound
  <2> QED
    BY <1>1, <2>1
    DEF FlagClock, FlagIInv, FlagSound, OverridesSound, OneOverridePerUser,
        EvaluationsSound, AddersSound
<1>2. CASE CreateFlag \/ UpdateFlag \/ FlagExpires \/ DeleteFlag
  BY <1>2, ChangesSound
<1>3. CASE UpdateOverride \/ DeleteOverride
  BY <1>3, OverrideEditsSound
<1>4. ASSUME NEW a \in Adders, CheckOverride(a) \/ InsertOverride(a) PROVE FlagIInv'
  BY <1>4, CheckOverrideSound, InsertOverrideSound
<1>5. ASSUME NEW e \in Evaluators, EvaluationStep(e) PROVE FlagIInv'
  BY <1>5, EvaluationsStepSound
<1>6. ASSUME NEW e \in Evaluators, NEW u \in FlagUsers, NEW o \in FlagOrgs, ReadFlag(e, u, o)
      PROVE  FlagIInv'
  <2>1. FlagCacheSound'
    BY <1>6 DEF ReadFlag, FlagIInv, FlagCacheSound
  <2> QED BY <1>6, <2>1, EvaluationPreserves DEF ReadFlag
<1>7. CASE UNCHANGED flagVars
  BY <1>7
  DEF flagVars, FlagIInv, FlagSound, OverridesSound, OneOverridePerUser, FlagCacheSound,
      EvaluationsSound, AddersSound
<1> QED BY <1>1, <1>2, <1>3, <1>4, <1>5, <1>6, <1>7 DEF NextFlags

(***************************************************************************)
(* create_override under its unique constraint: a user has one override of *)
(* the flag at most, however many requests add one at once, and overrides  *)
(* belong to the flag that is there.                                       *)
(***************************************************************************)
THEOREM FlagsSound == FlagSpec => []FlagInv
<1> QED BY FlagsBegin, FlagsStep, InvariantGivesFlagInv, PTL DEF FlagSpec

---------------------------------------------------------------------------
(* Rollouts.                                                               *)

LEMMA RolloutTyped ==
    ASSUME NEW r \in Rollouts
    PROVE  /\ r.percent \in Int /\ r.strategy \in Strategies
           /\ \A n : /\ [r EXCEPT !.percent = n].percent = n
                    /\ [r EXCEPT !.percent = n].strategy = r.strategy
                    /\ [r EXCEPT !.percent = n].enabled = r.enabled
<1>1. CASE r \in [enabled : {TRUE}, strategy : Strategies, percent : Percents]
  <2>1. r.percent \in Percents /\ r.strategy \in Strategies
    BY <1>1
  <2>2. \A p \in Percents : p \in Int
    BY FlagConstants
  <2> QED BY <1>1, <2>1, <2>2
<1>2. CASE r = [enabled |-> FALSE, strategy |-> "user_hash", percent |-> 0]
  BY <1>2 DEF Strategies
<1> QED BY <1>1, <1>2 DEF Rollouts

LEMMA PercentTyped ==
    ASSUME NEW f \in Flags
    PROVE  f.rollout \in Rollouts /\ f.rollout.percent \in Int /\ f.rollout.strategy \in Strategies
<1>1. f.rollout \in Rollouts
  BY DEF Flags
<1> QED BY <1>1, RolloutTyped

\* _check_rollout: who is surely in a rollout is surely in a larger one.
LEMMA LargerRollout ==
    ASSUME NEW f \in Flags, NEW g \in Flags, Raises(f, g), NEW u \in FlagUsers, NEW o \in FlagOrgs,
           CheckRollout(f.rollout, u, o) = {TRUE}
    PROVE  CheckRollout(g.rollout, u, o) = {TRUE}
<1> DEFINE p == f.rollout.percent
           q == g.rollout.percent
<1>1. p \in Int /\ q \in Int /\ p < q
  BY PercentTyped DEF Raises
<1>2. g.rollout.strategy = f.rollout.strategy
  <2>1. g = [f EXCEPT !.rollout.percent = q]
    BY DEF Raises
  <2>2. g.rollout = [f.rollout EXCEPT !.percent = q]
    BY <2>1 DEF Flags
  <2> HIDE DEF q
  <2> QED BY <2>2, PercentTyped, RolloutTyped
<1>h. Hundred \in Nat
  BY FlagConstants
<1>3. CASE q >= Hundred
  BY <1>3 DEF CheckRollout
<1>4. CASE q < Hundred
  <2>1. p < Hundred /\ ~(p >= Hundred) /\ ~(q >= Hundred)
    BY <1>1, <1>4, <1>h
  <2>2. p > 0
    <3> SUFFICES ASSUME p <= 0 PROVE FALSE
      BY <1>1
    <3>1. CheckRollout(f.rollout, u, o) = {FALSE}
      BY <2>1 DEF CheckRollout
    <3> QED BY <3>1
  <2>3. ~(p <= 0) /\ ~(q <= 0)
    BY <1>1, <2>2
  <2> DEFINE By(n) == CASE f.rollout.strategy = "random"    -> BOOLEAN
                        [] f.rollout.strategy = "user_hash" ->
                              {u # "anon" /\ InBuckets(Bucket[u], n)}
                        [] f.rollout.strategy = "org_hash"  -> {InBuckets(Bucket[o], n)}
  <2>4. CheckRollout(f.rollout, u, o) = By(p) /\ CheckRollout(g.rollout, u, o) = By(q)
    BY <1>2, <2>1, <2>3, Zenon DEF CheckRollout
  <2>5. f.rollout.strategy \in Strategies
    BY PercentTyped
  <2>6. Bucket[u] \in Int /\ Bucket[o] \in Int
    BY FlagConstants
  <2>7. CASE f.rollout.strategy = "random"
    <3>1. By(p) = BOOLEAN
      BY <2>7
    <3> QED BY <3>1, <2>4
  <2>8. CASE f.rollout.strategy = "user_hash"
    <3>1. By(p) = {u # "anon" /\ InBuckets(Bucket[u], p)} /\ By(q) = {u # "anon" /\ InBuckets(Bucket[u], q)}
      BY <2>8
    <3>2. InBuckets(Bucket[u], p) => InBuckets(Bucket[u], q)
      BY <1>1, <2>6 DEF InBuckets
    <3> QED BY <3>1, <3>2, <2>4
  <2>9. CASE f.rollout.strategy = "org_hash"
    <3>1. By(p) = {InBuckets(Bucket[o], p)} /\ By(q) = {InBuckets(Bucket[o], q)}
      BY <2>9
    <3>2. InBuckets(Bucket[o], p) => InBuckets(Bucket[o], q)
      BY <1>1, <2>6 DEF InBuckets
    <3> QED BY <3>1, <3>2, <2>4
  <2> QED BY <2>5, <2>7, <2>8, <2>9 DEF Strategies
<1>5. q >= Hundred \/ q < Hundred
  <2> HIDE DEF p, q
  <2> QED BY <1>1, <1>h
<1> QED BY <1>3, <1>4, <1>5

LEMMA LargerEvaluated ==
    ASSUME NEW f \in Flags, NEW g \in Flags, Raises(f, g), NEW u \in FlagUsers, NEW o \in FlagOrgs,
           Evaluated(f, u, o) = {"on"}
    PROVE  Evaluated(g, u, o) = {"on"}
<1>1. f # NoFlag /\ g # NoFlag
  BY DEF Raises
<1>2. /\ g.id = f.id /\ g.enabled = f.enabled /\ g.rollout.enabled = f.rollout.enabled
      /\ f.rollout.enabled
  <2>1. g = [f EXCEPT !.rollout.percent = g.rollout.percent] /\ f.rollout.enabled
    BY DEF Raises
  <2>2. /\ g.rollout = [f.rollout EXCEPT !.percent = g.rollout.percent]
        /\ g.id = f.id /\ g.enabled = f.enabled
    BY <2>1 DEF Flags
  <2> QED BY <2>1, <2>2, PercentTyped, RolloutTyped, ZenonT(60)
<1>3. Overriding(g, u) = Overriding(f, u)
  BY <1>2 DEF Overriding, Active
<1>4. CASE Overriding(f, u) # {}
  BY <1>1, <1>3, <1>4 DEF Evaluated
<1>5. CASE Overriding(f, u) = {}
  <2>1. ByFlag(f, u, o) = {"on"}
    BY <1>5 DEF Evaluated
  <2>2. f.enabled
    BY <2>1 DEF ByFlag
  <2>3. CheckRollout(f.rollout, u, o) = {TRUE}
    <3>1. {IF in THEN "on" ELSE "off" : in \in CheckRollout(f.rollout, u, o)} = {"on"}
      BY <1>2, <2>1, <2>2 DEF ByFlag
    <3>2. CheckRollout(f.rollout, u, o) \subseteq BOOLEAN
      <4> DEFINE r == f.rollout
      <4>1. r.strategy \in Strategies
        BY PercentTyped
      <4>2. CASE r.percent >= Hundred \/ r.percent <= 0
        BY <4>2 DEF CheckRollout
      <4>3. CASE ~(r.percent >= Hundred) /\ ~(r.percent <= 0) /\ r.strategy = "random"
        <5>1. CheckRollout(r, u, o) = BOOLEAN
          BY <4>3 DEF CheckRollout
        <5> QED BY <5>1
      <4>4. CASE ~(r.percent >= Hundred) /\ ~(r.percent <= 0) /\ r.strategy = "user_hash"
        <5>1. CheckRollout(r, u, o) = {u # "anon" /\ InBuckets(Bucket[u], r.percent)}
          BY <4>4 DEF CheckRollout
        <5> QED BY <5>1 DEF InBuckets
      <4>5. CASE ~(r.percent >= Hundred) /\ ~(r.percent <= 0) /\ r.strategy = "org_hash"
        <5>1. CheckRollout(r, u, o) = {InBuckets(Bucket[o], r.percent)}
          BY <4>5 DEF CheckRollout
        <5> QED BY <5>1 DEF InBuckets
      <4> QED BY <4>1, <4>2, <4>3, <4>4, <4>5 DEF Strategies
    <3> QED BY <3>1, <3>2, ZenonT(60)
  <2>4. CheckRollout(g.rollout, u, o) = {TRUE}
    BY <2>3, LargerRollout
  <2>5. ByFlag(g, u, o) = {"on"}
    BY <1>2, <2>2, <2>4 DEF ByFlag
  <2> QED BY <1>3, <1>5, <2>5 DEF Evaluated
<1> QED BY <1>4, <1>5

(***************************************************************************)
(* _check_rollout: raising the percentage of a rollout takes the flag from *)
(* nobody who has it, whatever the strategy, the buckets and the overrides.*)
(***************************************************************************)
THEOREM RolloutsGrow == FlagSpec => RolloutOnlyGrows
<1>1. FlagIInv /\ FlagIInv' /\ [NextFlags]_flagVars =>
        [Raises(flag, flag') =>
            \A u \in FlagUsers, o \in FlagOrgs :
                Evaluated(flag, u, o) = {"on"} => Evaluated(flag', u, o) = {"on"}]_flagVars
  <2> SUFFICES ASSUME FlagIInv, FlagIInv', Raises(flag, flag'), NEW u \in FlagUsers, NEW o \in FlagOrgs,
                      Evaluated(flag, u, o) = {"on"}
               PROVE  Evaluated(flag', u, o) = {"on"}
    OBVIOUS
  <2>1. flag \in Flags /\ flag' \in Flags
    BY DEF Raises, FlagIInv, FlagSound
  <2> QED BY <2>1, LargerEvaluated
<1> QED BY <1>1, FlagsBegin, FlagsStep, PTL DEF FlagSpec, RolloutOnlyGrows

---------------------------------------------------------------------------
(* The breaker of a peer                                                   *)

\* What leaks in one half-open period is part of all that leaks.
LeakedAreLeaks == leaked <= leaks

FedIInv == FedInv /\ LeakedAreLeaks

---------------------------------------------------------------------------
(* The breaker by itself.                                                  *)

\* core/resilience.py record_success: a breaker that has recorded an answer is
\* closed, with its count of failures reset.
LEMMA SuccessCloses ==
    ASSUME NEW b \in Breakers
    PROVE  /\ Succeeded(b) \in Breakers
           /\ Succeeded(b).state = "closed" /\ Succeeded(b).failures = 0
BY FederationConstants DEF Succeeded, Breakers, Closed

\* An opened breaker is a breaker.
LEMMA OpenedTyped ==
    ASSUME NEW b \in Breakers
    PROVE  LET opened == [b EXCEPT !.state = "open", !.waited = FALSE,
                                   !.failures = FailureThreshold]
           IN  opened \in Breakers /\ opened.state = "open"
<1> DEFINE inState  == [b EXCEPT !.state = "open"]
           waiting  == [inState EXCEPT !.waited = FALSE]
           opened   == [waiting EXCEPT !.failures = FailureThreshold]
<1>1. inState \in Breakers /\ inState.state = "open"
  BY FederationConstants DEF Breakers
<1>2. ASSUME NEW w \in BOOLEAN
      PROVE  /\ [inState EXCEPT !.waited = w] \in Breakers
             /\ [inState EXCEPT !.waited = w].state = "open"
  <2> HIDE DEF inState
  <2> QED BY <1>1, FederationConstants DEF Breakers
<1>3. waiting \in Breakers /\ waiting.state = "open"
  BY <1>2, Zenon
<1>4. opened \in Breakers /\ opened.state = "open"
  <2> HIDE DEF waiting
  <2> QED BY <1>3, FederationConstants DEF Breakers
<1>5. opened = [b EXCEPT !.state = "open", !.waited = FALSE,
                         !.failures = FailureThreshold]
  BY Zenon
<1> QED BY <1>4, <1>5, Zenon

\* core/resilience.py record_failure: a breaker that has recorded a failure is not
\* half open, and if it is still closed it is below the threshold.
LEMMA FailureDecides ==
    ASSUME NEW b \in Breakers
    PROVE  /\ Failed(b) \in Breakers
           /\ Failed(b).state # "half_open"
           /\ Failed(b).state = "closed" => Failed(b).failures < FailureThreshold
<1>1. OneMore(b.failures) \in 0..FailureThreshold
  BY FederationConstants DEF OneMore, Breakers
<1> DEFINE opened == [b EXCEPT !.state = "open", !.waited = FALSE,
                           !.failures = FailureThreshold]
<1>5. opened \in Breakers /\ opened.state = "open"
  BY OpenedTyped
<1>2. CASE b.state = "half_open"
  <2>1. Failed(b) = opened
    BY <1>2 DEF Failed
  <2> QED BY <2>1, <1>5
<1>3. CASE b.state # "half_open" /\ OneMore(b.failures) = FailureThreshold
  <2>1. Failed(b) = opened
    BY <1>3 DEF Failed
  <2> QED BY <2>1, <1>5
<1>4. CASE b.state # "half_open" /\ OneMore(b.failures) # FailureThreshold
  BY <1>1, <1>4, FederationConstants DEF Failed, Breakers
<1> QED BY <1>2, <1>3, <1>4

\* Where a call goes after a list or a card.
LEMMA NextCardTyped ==
    ASSUME NEW n \in 0..MaxCards
    PROVE  NextCard(n) \in PeerCallStates
BY FederationConstants DEF NextCard, Calling, PeerCallStates, NoPeerCall

---------------------------------------------------------------------------
LEMMA InitEstablishes == InitFed => FedIInv
<1> SUFFICES ASSUME InitFed PROVE FedIInv
  OBVIOUS
<1>1. breaker \in Breakers /\ breaker.state = "closed" /\ breaker.failures = 0
  BY FederationConstants DEF InitFed, Closed, Breakers
<1> QED
  BY <1>1, FederationConstants
  DEF InitFed, FedIInv, FedInv, FedTypeOK, SlotsAccounted, ClosedBelowThreshold,
      LeakedAreLeaks, PeerCallStates

\* Recording an outcome leaves a breaker that is closed below the threshold or open,
\* with no half-open period going on.
LEMMA RecordingPreserves ==
    ASSUME FedIInv, NEW c \in PeerCalls, NEW state \in PeerCallStates, To(c, state),
           \/ Recorded(Succeeded(breaker))
           \/ Recorded(Failed(breaker))
    PROVE  FedIInv'
<1>1. /\ breaker' \in Breakers /\ breaker'.state # "half_open"
      /\ breaker'.state = "closed" => breaker'.failures < FailureThreshold
  BY SuccessCloses, FailureDecides, FederationConstants
  DEF Recorded, FedIInv, FedInv, FedTypeOK
<1>2. probes' = {} /\ leaked' = 0 /\ leaks' = leaks
  BY DEF Recorded
<1>3. peerCall' \in [PeerCalls -> PeerCallStates]
  BY DEF To, FedIInv, FedInv, FedTypeOK
<1> QED
  BY <1>1, <1>2, <1>3, FederationConstants
  DEF FedIInv, FedInv, FedTypeOK, SlotsAccounted, ClosedBelowThreshold, LeakedAreLeaks

LEMMA AskPreserves ==
    ASSUME FedIInv, NEW c \in PeerCalls, Ask(c)
    PROVE  FedIInv'
<1> DEFINE b == Entered(breaker)
<1>1. /\ FedTypeOK /\ SlotsAccounted /\ ClosedBelowThreshold /\ leaked <= leaks
      /\ peerCall[c].at = "asking" /\ leaks' = leaks
  BY DEF FedIInv, FedInv, LeakedAreLeaks, Ask
<1>2. c \notin probes \/ breaker.state # "half_open"
  BY <1>1 DEF SlotsAccounted
<1>3. IsFiniteSet(probes) /\ Cardinality(probes) \in Nat
  BY <1>1, FederationConstants, FS_Subset, FS_CardinalityType DEF FedTypeOK
<1>4. peerCall[c] \in [kind : {"list", "card", "send"}, at : {"asking", "flying"},
                       attempt : 1..MaxAttempts, cards : 0..MaxCards]
  BY <1>1 DEF FedTypeOK, PeerCallStates, NoPeerCall, Calling
<1>5. leaked' \in 0..MaxLeaks /\ leaks' \in 0..MaxLeaks /\ leaked' <= leaks'
  BY <1>1, FederationConstants DEF Ask, FedTypeOK
<1>6. CASE Allows(b)
  <2>1. /\ breaker' = Counted(b)
        /\ peerCall' = [peerCall EXCEPT ![c] = [peerCall[c] EXCEPT !.at = "flying"]]
        /\ probes' = IF b.state # "half_open" THEN {}
                     ELSE IF breaker.state # b.state THEN {c} ELSE probes \cup {c}
        /\ leaked' = IF breaker.state # b.state THEN 0 ELSE leaked
    BY <1>6 DEF Ask, To
  <2>2. peerCall' \in [PeerCalls -> PeerCallStates] /\ peerCall'[c].at = "flying"
    BY <2>1, <1>1, <1>4 DEF FedTypeOK, PeerCallStates
  <2>3. probes' \subseteq PeerCalls
    BY <2>1, <1>1 DEF FedTypeOK
  <2>4. CASE breaker.state = "half_open"
    <3>1. b = breaker /\ breaker.halfOpenCalls < HalfOpenMaxCalls /\ breaker \in Breakers
      BY <2>4, <1>1, <1>6 DEF Entered, Allows, FedTypeOK
    <3>2. /\ breaker' = [breaker EXCEPT !.halfOpenCalls = breaker.halfOpenCalls + 1]
          /\ probes' = probes \cup {c} /\ leaked' = leaked
      BY <2>1, <2>4, <3>1 DEF Counted
    <3>3. /\ breaker' \in Breakers /\ breaker'.state = "half_open"
          /\ breaker'.halfOpenCalls = breaker.halfOpenCalls + 1
      BY <3>1, <3>2, <2>4, FederationConstants DEF Breakers
    <3>4. Cardinality(probes') = Cardinality(probes) + 1
      BY <3>2, <1>2, <2>4, <1>3, FS_AddElement
    <3>5. /\ breaker.halfOpenCalls = Cardinality(probes) + leaked
          /\ breaker.halfOpenCalls > 0
          /\ \A p \in probes : peerCall[p].at = "flying"
      BY <1>1, <2>4 DEF SlotsAccounted
    <3>6. \A p \in probes' : peerCall'[p].at = "flying"
      BY <3>2, <3>5, <2>1, <2>2, <1>1 DEF FedTypeOK
    <3>7. SlotsAccounted'
      <4>1. leaked \in Nat
        BY <1>1 DEF FedTypeOK
      <4> QED BY <4>1, <3>2, <3>3, <3>4, <3>5, <3>6, <1>3 DEF SlotsAccounted
    <3> QED
      BY <3>3, <3>7, <2>2, <2>3, <1>5
      DEF FedIInv, FedInv, FedTypeOK, ClosedBelowThreshold, LeakedAreLeaks
  <2>5. CASE breaker.state = "open"
    <3>1. /\ b = [breaker EXCEPT !.state = "half_open", !.halfOpenCalls = 0]
          /\ breaker \in Breakers
      BY <2>5, <1>1, <1>6 DEF Entered, Allows, FedTypeOK
    <3>2. b.state = "half_open" /\ b.halfOpenCalls = 0 /\ b \in Breakers
      <4>1. b = [state |-> "half_open", failures |-> breaker.failures,
                 halfOpenCalls |-> 0, waited |-> breaker.waited]
        BY <3>1 DEF Breakers
      <4> HIDE DEF b
      <4> QED BY <4>1, <3>1, FederationConstants DEF Breakers
    <3>3. breaker' = [b EXCEPT !.halfOpenCalls = 1] /\ probes' = {c} /\ leaked' = 0
      BY <2>1, <2>5, <3>2 DEF Counted
    <3>4. /\ breaker' \in Breakers /\ breaker'.state = "half_open"
          /\ breaker'.halfOpenCalls = 1
      BY <3>2, <3>3, FederationConstants DEF Breakers
    <3>5. SlotsAccounted'
      BY <3>3, <3>4, <2>2, FS_Singleton DEF SlotsAccounted
    <3> QED
      BY <3>4, <3>5, <2>2, <2>3, <1>5
      DEF FedIInv, FedInv, FedTypeOK, ClosedBelowThreshold, LeakedAreLeaks
  <2>6. CASE breaker.state = "closed"
    <3>1. breaker' = breaker
      BY <2>1, <2>6 DEF Entered, Counted
    <3> QED
      BY <3>1, <2>2, <2>3, <2>6, <1>1, <1>5
      DEF FedIInv, FedInv, FedTypeOK, SlotsAccounted, ClosedBelowThreshold, LeakedAreLeaks
  <2> QED BY <2>4, <2>5, <2>6, <1>1 DEF FedTypeOK, Breakers
<1>7. CASE ~Allows(b)
  <2>1. b = breaker
    <3> SUFFICES ASSUME breaker.state = "open" /\ breaker.waited PROVE FALSE
      BY DEF Entered
    <3>1. b.state = "half_open" /\ b.halfOpenCalls = 0
      BY <1>1 DEF Entered, FedTypeOK, Breakers
    <3> QED BY <3>1, <1>7, FederationConstants DEF Allows
  <2>2. breaker' = breaker /\ probes' = probes /\ leaked' = leaked
    BY <1>7, <2>1 DEF Ask
  <2>3. PICK state \in PeerCallStates : peerCall' = [peerCall EXCEPT ![c] = state]
    <3>1. NextCard(peerCall[c].cards) \in PeerCallStates /\ NoPeerCall \in PeerCallStates
      BY <1>4, NextCardTyped DEF PeerCallStates
    <3> QED BY <3>1, <1>7 DEF Ask, To
  <2>4. breaker.state = "half_open" => \A p \in probes : peerCall'[p] = peerCall[p]
    BY <1>1, <1>2, <2>3 DEF FedTypeOK
  <2> QED
    BY <2>2, <2>3, <2>4, <1>1, <1>5
    DEF FedIInv, FedInv, FedTypeOK, SlotsAccounted, ClosedBelowThreshold, LeakedAreLeaks
<1> QED BY <1>6, <1>7

LEMMA LeakPreserves ==
    ASSUME FedIInv, NEW c \in PeerCalls, Leak(c)
    PROVE  FedIInv'
<1>1. /\ FedTypeOK /\ SlotsAccounted /\ ClosedBelowThreshold /\ leaked <= leaks
      /\ breaker' = breaker /\ leaks < MaxLeaks /\ leaks' = leaks + 1
      /\ probes' = probes \ {c}
      /\ leaked' = IF c \in probes THEN leaked + 1 ELSE leaked
      /\ peerCall' = [peerCall EXCEPT ![c] = NoPeerCall]
  BY DEF FedIInv, FedInv, LeakedAreLeaks, Leak, To
<1>2. FedTypeOK' /\ leaked' <= leaks'
  BY <1>1, FederationConstants DEF FedTypeOK, PeerCallStates
<1>3. SlotsAccounted'
  <2> SUFFICES ASSUME breaker.state = "half_open" PROVE SlotsAccounted'
    BY <1>1 DEF SlotsAccounted
  <2>1. IsFiniteSet(probes) /\ Cardinality(probes) \in Nat /\ leaked \in Nat
    BY <1>1, FederationConstants, FS_Subset, FS_CardinalityType DEF FedTypeOK
  <2>2. Cardinality(probes') + leaked' = Cardinality(probes) + leaked
    <3>1. CASE c \in probes
      <4>1. Cardinality(probes \ {c}) = Cardinality(probes) - 1
        BY <3>1, <2>1, FS_RemoveElement
      <4> QED BY <4>1, <3>1, <2>1, <1>1
    <3>2. CASE c \notin probes
      <4>1. probes' = probes
        BY <3>2, <1>1
      <4> QED BY <4>1, <3>2, <1>1
    <3> QED BY <3>1, <3>2
  <2>3. \A p \in probes' : peerCall'[p].at = "flying"
    BY <1>1 DEF SlotsAccounted, FedTypeOK
  <2> QED BY <2>2, <2>3, <1>1 DEF SlotsAccounted
<1> QED
  BY <1>1, <1>2, <1>3 DEF FedIInv, FedInv, ClosedBelowThreshold, LeakedAreLeaks

LEMMA NextPreserves == FedIInv /\ [NextFed]_fedVars => FedIInv'
<1> SUFFICES ASSUME FedIInv, [NextFed]_fedVars PROVE FedIInv'
  OBVIOUS
<1>1. CASE ResetTimeout
  <2>1. breaker' \in Breakers /\ breaker'.state = "open"
    BY <1>1 DEF ResetTimeout, FedIInv, FedInv, FedTypeOK, Breakers
  <2> QED
    BY <2>1, <1>1
    DEF ResetTimeout, FedIInv, FedInv, FedTypeOK, SlotsAccounted, ClosedBelowThreshold,
        LeakedAreLeaks
<1>2. ASSUME NEW c \in PeerCalls, Begin(c) PROVE FedIInv'
  <2>1. PICK kind \in {"list", "send"} :
            peerCall' = [peerCall EXCEPT ![c] = Calling(kind, "asking", 1, 0)]
    BY <1>2 DEF Begin, To
  <2>2. Calling(kind, "asking", 1, 0) \in PeerCallStates
    BY FederationConstants DEF Calling, PeerCallStates
  <2>3. breaker.state = "half_open" => c \notin probes
    BY <1>2 DEF Begin, NoPeerCall, Calling, FedIInv, FedInv, SlotsAccounted
  <2> QED
    BY <2>1, <2>2, <2>3, <1>2
    DEF Begin, FedIInv, FedInv, FedTypeOK, SlotsAccounted, ClosedBelowThreshold,
        LeakedAreLeaks
<1>3. ASSUME NEW c \in PeerCalls, Ask(c) PROVE FedIInv'
  BY <1>3, AskPreserves
<1>4. ASSUME NEW c \in PeerCalls, Answer(c) PROVE FedIInv'
  <2>1. peerCall[c].cards \in 0..MaxCards
    BY <1>4 DEF Answer, FedIInv, FedInv, FedTypeOK, PeerCallStates, NoPeerCall, Calling
  <2>2. PICK state \in PeerCallStates : To(c, state)
    <3>1. NoPeerCall \in PeerCallStates
      BY DEF PeerCallStates
    <3> QED BY <3>1, <2>1, <1>4, NextCardTyped DEF Answer
  <2> QED BY <2>2, <1>4, RecordingPreserves DEF Answer
<1>5. ASSUME NEW c \in PeerCalls, GiveUp(c) PROVE FedIInv'
  <2>1. peerCall[c].cards \in 0..MaxCards
    BY <1>5 DEF GiveUp, FedIInv, FedInv, FedTypeOK, PeerCallStates, NoPeerCall, Calling
  <2>2. PICK state \in PeerCallStates : To(c, state)
    <3>1. NoPeerCall \in PeerCallStates
      BY DEF PeerCallStates
    <3> QED BY <3>1, <2>1, <1>5, NextCardTyped DEF GiveUp
  <2> QED BY <2>2, <1>5, RecordingPreserves DEF GiveUp
<1>6. ASSUME NEW c \in PeerCalls, Retry(c) PROVE FedIInv'
  <2> DEFINE x == [peerCall[c] EXCEPT !.attempt = @ + 1]
  <2>1. peerCall[c] \in [kind : {"list", "card", "send"}, at : {"asking", "flying"},
                         attempt : 1..MaxAttempts, cards : 0..MaxCards]
    BY <1>6 DEF Retry, FedIInv, FedInv, FedTypeOK, PeerCallStates, NoPeerCall, Calling
  <2>2. /\ x \in PeerCallStates /\ x.at = "flying"
        /\ [x EXCEPT !.at = "asking"] \in PeerCallStates
    <3>1. x = [kind |-> peerCall[c].kind, at |-> "flying",
               attempt |-> peerCall[c].attempt + 1, cards |-> peerCall[c].cards]
      BY <2>1, <1>6 DEF Retry
    <3>2. peerCall[c].attempt + 1 \in 1..MaxAttempts
      BY <2>1, <1>6, FederationConstants DEF Retry
    <3> HIDE DEF x
    <3> QED BY <3>1, <3>2, <2>1 DEF PeerCallStates
  <2>3. CASE To(c, x) /\ UNCHANGED <<breaker, probes, leaked, leaks>>
    <3>1. \A p \in PeerCalls : peerCall[p].at = "flying" => peerCall'[p].at = "flying"
      BY <2>2, <2>3 DEF To, FedIInv, FedInv, FedTypeOK
    <3> QED
      BY <3>1, <2>2, <2>3
      DEF To, FedIInv, FedInv, FedTypeOK, SlotsAccounted, ClosedBelowThreshold,
          LeakedAreLeaks
  <2>4. CASE To(c, [x EXCEPT !.at = "asking"]) /\ Recorded(Failed(breaker))
    BY <2>2, <2>4, RecordingPreserves
  <2> QED BY <2>3, <2>4, <1>6 DEF Retry
<1>7. ASSUME NEW c \in PeerCalls, Leak(c) PROVE FedIInv'
  BY <1>7, LeakPreserves
<1>8. CASE UNCHANGED fedVars
  BY <1>8
  DEF fedVars, FedIInv, FedInv, FedTypeOK, SlotsAccounted, ClosedBelowThreshold,
      LeakedAreLeaks
<1> QED BY <1>1, <1>2, <1>3, <1>4, <1>5, <1>6, <1>7, <1>8 DEF NextFed

(***************************************************************************)
(* CircuitBreaker: slots of a half-open breaker are those of calls of this *)
(* period that go on or ended without a record, and a closed breaker is    *)
(* below its threshold, whatever answers come late.                        *)
(***************************************************************************)
THEOREM BreakerAccounts == FedSpec => []FedInv
<1>1. FedIInv => FedInv
  BY DEF FedIInv
<1> QED BY <1>1, InitEstablishes, NextPreserves, PTL DEF FedSpec

---------------------------------------------------------------------------
(* Threads                                                                 *)

Orgs == {OrgOfUser[u] : u \in ThreadUsers} \cup {"none"}
Rows == [user : ThreadUsers, org : Orgs, metadata : {"made", "patched"},
         ttl : {"none", "running", "expired"}, stateful : BOOLEAN]
Tasks == [thread : ThreadIds, user : ThreadUsers, owner : ThreadUsers, closed : BOOLEAN]
RequestStates ==
    {NoRequest} \cup [at : {"stop"}, thread : ThreadIds, runs : SUBSET RunTasks]
                \cup [at : {"state"}, user : ThreadUsers, source : ThreadIds]
                \cup [at : {"copy"}, user : ThreadUsers, stateful : BOOLEAN]
                \cup [at : {"put", "undo"}, thread : ThreadIds]

\* ThreadTypeOK says what the runs check; the fields of rows, tasks and requests
\* say more.
ThreadTypes ==
    /\ thread \in [ThreadIds -> {UnusedThread, DeletedThread} \cup Rows]
    /\ checkpoint \in [ThreadIds -> BOOLEAN]
    /\ task \in [RunTasks -> {NoTask} \cup Tasks]
    /\ threadRequest \in [ThreadRequests -> RequestStates]
    /\ sweep.at \in {"asleep", "selected"} /\ sweep.expired \subseteq ThreadIds
    /\ threadFaults \in 0..MaxThreadFaults

\* A request that is stopping the runs of a thread knows all that the owner began
\* before it looked.
Stopping(q, r) ==
    threadRequest[q].at = "stop" /\ threadRequest[q].thread = task[r].thread
        => r \in threadRequest[q].runs \cup missed

(***************************************************************************)
(* A task is on a thread that has been made, of the owner it was begun     *)
(* with; one that the owner began is known to every request that deletes   *)
(* the thread, or has come too late for it, and outlives the thread only   *)
(* for a reason.                                                           *)
(***************************************************************************)
TaskSound(r) ==
    Goes(r) =>
        /\ thread[task[r].thread] # UnusedThread
        /\ HasRow(task[r].thread) => thread[task[r].thread].user = task[r].owner
        /\ task[r].user = task[r].owner =>
              /\ \A q \in ThreadRequests : Stopping(q, r)
              /\ thread[task[r].thread] = DeletedThread =>
                    r \in abandoned \/ r \in missed

CopySound(t) ==
    HasRow(t) /\ thread[t].stateful /\ ~checkpoint[t] /\ t \notin halves =>
        \E q \in ThreadRequests :
            threadRequest[q].at \in {"put", "undo"} /\ threadRequest[q].thread = t

ThreadIInv ==
    /\ ThreadTypes
    /\ \A r \in RunTasks : TaskSound(r)
    /\ \A t \in ThreadIds : CopySound(t)

---------------------------------------------------------------------------
LEMMA RowsDiffer ==
    /\ UnusedThread # DeletedThread
    /\ \A x \in Rows : x # UnusedThread /\ x # DeletedThread
    /\ \A x \in Tasks : x # NoTask
<1>1. UnusedThread.user # DeletedThread.user
  BY DEF UnusedThread, DeletedThread
<1>2. \A x \in Rows : "ttl" \in DOMAIN x
  BY DEF Rows
<1>3. "ttl" \notin DOMAIN UnusedThread /\ "ttl" \notin DOMAIN DeletedThread
  BY DEF UnusedThread, DeletedThread
<1>4. \A x \in Tasks : "thread" \in DOMAIN x
  BY DEF Tasks
<1>5. "thread" \notin DOMAIN NoTask
  BY DEF NoTask
<1> QED BY <1>1, <1>2, <1>3, <1>4, <1>5

LEMMA ThreadInvariantGives == ThreadIInv => ThreadInv
<1> SUFFICES ASSUME ThreadIInv PROVE ThreadInv
  OBVIOUS
<1>1. ThreadTypeOK
  <2>1. \A t \in ThreadIds : HasRow(t) => thread[t] \in Rows
    BY DEF ThreadIInv, ThreadTypes, HasRow
  <2>2. \A r \in RunTasks : Goes(r) => task[r] \in Tasks
    BY DEF ThreadIInv, ThreadTypes, Goes
  <2>3. \A q \in ThreadRequests :
          threadRequest[q].at \in {"idle", "stop", "state", "copy", "put", "undo"}
    <3>1. \A x \in RequestStates :
            x.at \in {"idle", "stop", "state", "copy", "put", "undo"}
      BY DEF RequestStates, NoRequest
    <3> QED BY <3>1 DEF ThreadIInv, ThreadTypes
  <2> QED BY <2>1, <2>2, <2>3 DEF ThreadIInv, ThreadTypes, ThreadTypeOK, Rows, Tasks
<1>2. CopyIsWhole
  BY DEF ThreadIInv, CopySound, CopyIsWhole
<1>3. OrphansExplained
  BY DEF ThreadIInv, TaskSound, OrphansExplained
<1> QED BY <1>1, <1>2, <1>3 DEF ThreadInv

LEMMA ThreadsBegin == InitThreads => ThreadIInv
<1> SUFFICES ASSUME InitThreads PROVE ThreadIInv
  OBVIOUS
<1>1. ThreadTypes
  BY ThreadConstants DEF InitThreads, ThreadTypes, RequestStates, Sleeping
<1>2. \A r \in RunTasks : TaskSound(r)
  BY DEF InitThreads, TaskSound, Goes
<1>3. \A t \in ThreadIds : CopySound(t)
  BY DEF InitThreads, CopySound, HasRow
<1> QED BY <1>1, <1>2, <1>3 DEF ThreadIInv

\* The fields of requests.
LEMMA RequestFields ==
    ASSUME ThreadTypes, NEW q \in ThreadRequests
    PROVE  /\ threadRequest[q].at = "stop" =>
                 threadRequest[q] \in [at : {"stop"}, thread : ThreadIds, runs : SUBSET RunTasks]
           /\ threadRequest[q].at = "state" =>
                 threadRequest[q] \in [at : {"state"}, user : ThreadUsers, source : ThreadIds]
           /\ threadRequest[q].at = "copy" =>
                 threadRequest[q] \in [at : {"copy"}, user : ThreadUsers, stateful : BOOLEAN]
           /\ threadRequest[q].at \in {"put", "undo"} =>
                 threadRequest[q] \in [at : {"put", "undo"}, thread : ThreadIds]
BY DEF ThreadTypes, RequestStates, NoRequest

LEMMA FaultCounted ==
    ASSUME ThreadTypes, ThreadFault \/ UNCHANGED threadFaults
    PROVE  threadFaults' \in 0..MaxThreadFaults
BY ThreadConstants DEF ThreadTypes, ThreadFault

\* A row that comes to an unused id: no task knows the id.
LEMMA NewRowSound ==
    ASSUME ThreadIInv, NEW t \in ThreadIds, thread[t] = UnusedThread,
           NEW row \in Rows, SetThread(t, row),
           UNCHANGED <<checkpoint, task, sweep, threadFaults, abandoned, missed, halves>>,
           threadRequest' \in [ThreadRequests -> RequestStates],
           \A q \in ThreadRequests :
              \/ UNCHANGED threadRequest[q]
              \/ threadRequest[q].at \notin {"stop", "put", "undo"} /\ threadRequest'[q].at # "stop",
           row.stateful => \E q \in ThreadRequests :
              threadRequest'[q].at \in {"put", "undo"} /\ threadRequest'[q].thread = t
    PROVE  ThreadIInv'
<1>1. /\ ThreadTypes
      /\ thread' = [thread EXCEPT ![t] = row]
      /\ thread'[t] = row
      /\ \A s \in ThreadIds : s # t => thread'[s] = thread[s]
  BY DEF ThreadIInv, ThreadTypes, SetThread
<1>2. ThreadTypes'
  BY <1>1 DEF ThreadTypes
<1>3. ASSUME NEW r \in RunTasks PROVE TaskSound(r)'
  <2>1. SUFFICES ASSUME Goes(r) PROVE TaskSound(r)'
    BY DEF TaskSound, Goes
  <2>2. TaskSound(r) /\ task[r].thread \in ThreadIds
    BY <1>1, <2>1 DEF ThreadIInv, ThreadTypes, Goes, Tasks
  <2>3. task[r].thread # t
    BY <2>1, <2>2 DEF TaskSound
  <2>4. thread'[task[r].thread] = thread[task[r].thread]
    BY <1>1, <2>2, <2>3
  <2>5. \A q \in ThreadRequests : Stopping(q, r) => Stopping(q, r)'
    BY DEF Stopping
  <2> QED BY <2>1, <2>2, <2>4, <2>5 DEF TaskSound, HasRow, Goes
<1>4. ASSUME NEW s \in ThreadIds PROVE CopySound(s)'
  <2>1. CASE s = t
    BY <1>1, <2>1 DEF CopySound
  <2>2. CASE s # t
    <3>1. CopySound(s) /\ thread'[s] = thread[s]
      BY <1>1, <2>2 DEF ThreadIInv
    <3> QED BY <3>1 DEF CopySound, HasRow
  <2> QED BY <2>1, <2>2
<1> QED BY <1>2, <1>3, <1>4 DEF ThreadIInv

LEMMA RowTyped ==
    ASSUME NEW u \in ThreadUsers, NEW of \in Orgs, NEW b \in BOOLEAN
    PROVE  Row(u, of, b) \in Rows /\ Row(u, of, b).stateful = b
BY DEF Row, Rows

LEMMA CreateSound ==
    ASSUME ThreadIInv, NEW u \in Creators, NEW t \in ThreadIds, CreateThread(u, t)
    PROVE  ThreadIInv'
<1>1. u \in ThreadUsers
  BY ThreadConstants
<1> DEFINE of == IF t \in Stateless THEN "none" ELSE OrgOfUser[u]
<1>2. SetThread(t, Row(u, of, FALSE))
  BY DEF CreateThread
<1>3. of \in Orgs
  BY <1>1 DEF Orgs
<1> HIDE DEF of
<1>4. Row(u, of, FALSE) \in Rows /\ Row(u, of, FALSE).stateful = FALSE
  BY <1>1, <1>3, RowTyped
<1>5. /\ thread[t] = UnusedThread /\ threadRequest' = threadRequest
      /\ UNCHANGED <<checkpoint, task, sweep, threadFaults, abandoned, missed, halves>>
  BY DEF CreateThread
<1>6. threadRequest' \in [ThreadRequests -> RequestStates]
  BY <1>5 DEF ThreadIInv, ThreadTypes
<1> DEFINE row == Row(u, of, FALSE)
<1>7. row \in Rows /\ SetThread(t, row) /\ ~row.stateful
  BY <1>2, <1>4
<1> HIDE DEF row
<1> QED BY <1>5, <1>6, <1>7, NewRowSound

\* A row changes, but neither its user nor where it comes from.
LEMMA EditRowSound ==
    ASSUME ThreadIInv, NEW t \in ThreadIds, HasRow(t), NEW row \in Rows, SetThread(t, row),
           row.user = thread[t].user, row.stateful = thread[t].stateful,
           UNCHANGED <<checkpoint, task, threadRequest, sweep, threadFaults,
                       abandoned, missed, halves>>
    PROVE  ThreadIInv'
<1>1. /\ ThreadTypes
      /\ thread' = [thread EXCEPT ![t] = row]
      /\ thread'[t] = row
      /\ \A s \in ThreadIds : s # t => thread'[s] = thread[s]
  BY DEF ThreadIInv, ThreadTypes, SetThread
<1>2. ThreadTypes'
  BY <1>1 DEF ThreadTypes
<1>3. \A s \in ThreadIds :
        /\ HasRow(s)' <=> HasRow(s)
        /\ HasRow(s) => thread'[s].user = thread[s].user
        /\ HasRow(s) => thread'[s].stateful = thread[s].stateful
        /\ thread'[s] = DeletedThread <=> thread[s] = DeletedThread
        /\ thread'[s] = UnusedThread <=> thread[s] = UnusedThread
  BY <1>1, RowsDiffer DEF HasRow
<1>4. ASSUME NEW r \in RunTasks PROVE TaskSound(r)'
  <2>1. SUFFICES ASSUME Goes(r) PROVE TaskSound(r)'
    BY DEF TaskSound, Goes
  <2>2. TaskSound(r) /\ task[r].thread \in ThreadIds
    BY <1>1, <2>1 DEF ThreadIInv, ThreadTypes, Goes, Tasks
  <2>3. \A q \in ThreadRequests : Stopping(q, r)' <=> Stopping(q, r)
    BY DEF Stopping
  <2>4. /\ task'[r] = task[r] /\ abandoned' = abandoned /\ missed' = missed
        /\ (Goes(r)' <=> Goes(r))
    BY DEF Goes
  <2> QED BY <1>3, <2>1, <2>2, <2>3, <2>4 DEF TaskSound
<1>5. ASSUME NEW s \in ThreadIds PROVE CopySound(s)'
  BY <1>3 DEF ThreadIInv, CopySound
<1> QED BY <1>2, <1>4, <1>5 DEF ThreadIInv

LEMMA PatchSound ==
    ASSUME ThreadIInv, NEW u \in Creators, NEW t \in ThreadIds, NEW m \in BOOLEAN,
           PatchThread(u, t, m) \/ Expire(t)
    PROVE  ThreadIInv'
<1>1. HasRow(t) /\ thread[t] \in Rows
  BY DEF PatchThread, Owns, Expire, ThreadIInv, ThreadTypes, HasRow
<1>2. UNCHANGED <<checkpoint, task, threadRequest, sweep, threadFaults,
                  abandoned, missed, halves>>
  BY DEF PatchThread, Expire
<1>3. \A ttl \in {"none", "running", "expired"} :
        LET row == [thread[t] EXCEPT !.ttl = ttl] IN
        row \in Rows /\ row.user = thread[t].user /\ row.stateful = thread[t].stateful
  BY <1>1 DEF Rows
<1>4. \A ttl \in {"none", "running", "expired"} :
        LET row == [thread[t] EXCEPT !.ttl = ttl,
                       !.metadata = IF m THEN Merged(@) ELSE @] IN
        row \in Rows /\ row.user = thread[t].user /\ row.stateful = thread[t].stateful
  <2>1. \A ttl \in {"none", "running", "expired"}, old \in {"made", "patched"} :
          LET row == [thread[t] EXCEPT !.ttl = ttl, !.metadata = old] IN
          row \in Rows /\ row.user = thread[t].user /\ row.stateful = thread[t].stateful
    BY <1>1 DEF Rows
  <2>2. /\ (IF m THEN Merged(thread[t].metadata) ELSE thread[t].metadata) = thread[t].metadata
        /\ thread[t].metadata \in {"made", "patched"}
    BY <1>1 DEF Merged, Rows
  <2> QED BY <2>1, <2>2
<1>5. PICK row \in Rows : /\ SetThread(t, row) /\ row.user = thread[t].user
                          /\ row.stateful = thread[t].stateful
  <2>1. CASE PatchThread(u, t, m)
    BY <1>4, <2>1 DEF PatchThread
  <2>2. CASE Expire(t)
    BY <1>3, <2>2 DEF Expire
  <2> QED BY <2>1, <2>2
<1> QED BY <1>1, <1>2, <1>5, EditRowSound

---------------------------------------------------------------------------
\* What tasks do leaves the rows and the sweep alone.
LEMMA BeginSound ==
    ASSUME ThreadIInv, NEW r \in RunTasks, NEW u \in ThreadUsers, NEW t \in ThreadIds,
           BeginRun(r, u, t)
    PROVE  ThreadIInv'
<1> DEFINE new == [thread |-> t, user |-> u, owner |-> thread[t].user, closed |-> FALSE]
<1>0. ThreadTypes
  BY DEF ThreadIInv
<1>1. /\ HasRow(t) /\ missed \subseteq missed'
      /\ UNCHANGED <<thread, checkpoint, threadRequest, sweep, threadFaults, abandoned, halves>>
      /\ task' = [task EXCEPT ![r] = new]
      /\ \A q \in ThreadRequests :
            threadRequest[q].at = "stop" /\ threadRequest[q].thread = t => r \in missed'
  BY DEF BeginRun
<1>2. thread[t] \in Rows
  BY <1>0, <1>1 DEF ThreadTypes, HasRow
<1>3. new \in Tasks /\ new.thread = t /\ new.user = u /\ new.owner = thread[t].user
  BY <1>2 DEF Tasks, Rows
<1> HIDE DEF new
<1>4. /\ task' \in [RunTasks -> {NoTask} \cup Tasks] /\ task'[r] = new
      /\ \A s \in RunTasks : s # r => task'[s] = task[s]
  BY <1>0, <1>1, <1>3 DEF ThreadTypes
<1>5. TaskSound(r)'
  <2>1. thread'[task'[r].thread] = thread[t] /\ HasRow(task[r].thread)'
    BY <1>1, <1>3, <1>4 DEF HasRow
  <2>2. thread[t] # UnusedThread /\ thread[t] # DeletedThread
    BY <1>1 DEF HasRow
  <2>3. \A q \in ThreadRequests : Stopping(q, r)'
    BY <1>1, <1>3, <1>4 DEF Stopping
  <2> QED BY <1>3, <1>4, <2>1, <2>2, <2>3 DEF TaskSound
<1>6. ASSUME NEW s \in RunTasks, s # r PROVE TaskSound(s)'
  <2>1. TaskSound(s) /\ task'[s] = task[s]
    BY <1>4, <1>6 DEF ThreadIInv
  <2>2. \A q \in ThreadRequests : Stopping(q, s) => Stopping(q, s)'
    BY <1>1, <2>1 DEF Stopping
  <2> QED BY <1>1, <2>1, <2>2 DEF TaskSound, Goes, HasRow
<1>7. \A s \in ThreadIds : CopySound(s)'
  BY <1>1 DEF ThreadIInv, CopySound, HasRow
<1>8. ThreadTypes'
  BY <1>0, <1>1, <1>4 DEF ThreadTypes
<1> QED BY <1>5, <1>6, <1>7, <1>8 DEF ThreadIInv

LEMMA CloseSound ==
    ASSUME ThreadIInv, NEW r \in RunTasks, CloseRun(r)
    PROVE  ThreadIInv'
<1> DEFINE closed == [task[r] EXCEPT !.closed = TRUE]
<1>1. /\ ThreadTypes /\ Goes(r) /\ task' = [task EXCEPT ![r] = closed]
      /\ UNCHANGED <<thread, checkpoint, threadRequest, sweep, threadFaults, abandoned,
                     missed, halves>>
  BY DEF CloseRun, ThreadIInv
<1>2. task[r] \in Tasks
  BY <1>1 DEF ThreadTypes, Goes
<1>3. /\ closed \in Tasks /\ closed.thread = task[r].thread
      /\ closed.user = task[r].user /\ closed.owner = task[r].owner
  BY <1>2 DEF Tasks
<1> HIDE DEF closed
<1>4. /\ task' \in [RunTasks -> {NoTask} \cup Tasks]
      /\ task'[r] = closed
      /\ \A s \in RunTasks : s # r => task'[s] = task[s]
  BY <1>1, <1>3 DEF ThreadTypes
<1>5. ASSUME NEW s \in RunTasks PROVE TaskSound(s)'
  <2>1. /\ task'[s].thread = task[s].thread /\ task'[s].user = task[s].user
        /\ task'[s].owner = task[s].owner /\ (Goes(s)' => Goes(s))
    BY <1>1, <1>3, <1>4 DEF Goes
  <2>2. TaskSound(s) /\ \A q \in ThreadRequests : Stopping(q, s) => Stopping(q, s)'
    BY <1>1, <2>1 DEF Stopping, ThreadIInv
  <2> QED BY <1>1, <2>1, <2>2 DEF TaskSound, HasRow
<1>6. \A s \in ThreadIds : CopySound(s)'
  BY <1>1 DEF ThreadIInv, CopySound, HasRow
<1>7. ThreadTypes'
  BY <1>1, <1>4 DEF ThreadTypes
<1> QED BY <1>5, <1>6, <1>7 DEF ThreadIInv

LEMMA WriteSound ==
    ASSUME ThreadIInv, NEW r \in RunTasks, WriteState(r)
    PROVE  ThreadIInv'
<1>1. /\ ThreadTypes
      /\ UNCHANGED <<thread, task, threadRequest, sweep, threadFaults, abandoned, missed, halves>>
      /\ checkpoint' = [checkpoint EXCEPT ![task[r].thread] = TRUE]
  BY DEF WriteState, ThreadIInv
<1>2. /\ checkpoint' \in [ThreadIds -> BOOLEAN]
      /\ \A t \in ThreadIds : checkpoint[t] => checkpoint'[t]
  BY <1>1 DEF ThreadTypes
<1>3. \A s \in RunTasks : TaskSound(s)'
  BY <1>1 DEF ThreadIInv, TaskSound, Stopping, Goes, HasRow
<1>4. \A t \in ThreadIds : CopySound(t)'
  BY <1>1, <1>2 DEF ThreadIInv, CopySound, HasRow
<1>5. ThreadTypes'
  BY <1>1, <1>2 DEF ThreadTypes
<1> QED BY <1>3, <1>4, <1>5 DEF ThreadIInv

\* A task that has ended, of itself or by a deletion, is struck from what the
\* deletions have left to do.
LEMMA StruckSound ==
    ASSUME ThreadIInv, NEW r \in RunTasks,
           task' = [task EXCEPT ![r] = NoTask], threadRequest' = Struck(r),
           missed' = missed \ {r}, abandoned' = abandoned \ {r},
           UNCHANGED <<thread, checkpoint, sweep, threadFaults, halves>>
    PROVE  ThreadIInv'
<1>0. ThreadTypes
  BY DEF ThreadIInv
<1>1. /\ task' \in [RunTasks -> {NoTask} \cup Tasks] /\ task'[r] = NoTask
      /\ \A s \in RunTasks : s # r => task'[s] = task[s]
  BY <1>0 DEF ThreadTypes
<1>2. ASSUME NEW q \in ThreadRequests
      PROVE  /\ threadRequest'[q] \in RequestStates
             /\ threadRequest[q].at # "stop" => threadRequest'[q] = threadRequest[q]
             /\ threadRequest[q].at = "stop" =>
                   /\ threadRequest'[q].at = "stop"
                   /\ threadRequest'[q].thread = threadRequest[q].thread
                   /\ threadRequest'[q].runs = threadRequest[q].runs \ {r}
  <2>1. CASE threadRequest[q].at # "stop"
    BY <1>0, <2>1 DEF Struck, ThreadTypes
  <2>2. CASE threadRequest[q].at = "stop"
    <3>1. threadRequest[q] \in [at : {"stop"}, thread : ThreadIds, runs : SUBSET RunTasks]
      BY <1>0, <2>2, RequestFields
    <3>2. threadRequest'[q] = [threadRequest[q] EXCEPT !.runs = @ \ {r}]
      BY <2>2 DEF Struck
    <3> QED BY <2>2, <3>1, <3>2 DEF RequestStates
  <2> QED BY <2>1, <2>2
<1>3. ASSUME NEW s \in RunTasks PROVE TaskSound(s)'
  <2>1. CASE s = r
    BY <1>1, <2>1 DEF TaskSound, Goes
  <2>2. CASE s # r
    <3>1. TaskSound(s) /\ task'[s] = task[s]
      BY <1>1, <2>2 DEF ThreadIInv
    <3>2. \A q \in ThreadRequests : Stopping(q, s) => Stopping(q, s)'
      BY <1>2, <2>2, <3>1 DEF Stopping
    <3> QED BY <2>2, <3>1, <3>2 DEF TaskSound, Goes, HasRow
  <2> QED BY <2>1, <2>2
<1>4. ASSUME NEW t \in ThreadIds PROVE CopySound(t)'
  <2>1. CopySound(t)
    BY DEF ThreadIInv
  <2>2. \A q \in ThreadRequests :
          threadRequest[q].at \in {"put", "undo"} => threadRequest'[q] = threadRequest[q]
    BY <1>2
  <2> QED BY <2>1, <2>2 DEF CopySound, HasRow
<1>5. ThreadTypes'
  <2>1. threadRequest' \in [ThreadRequests -> RequestStates]
    BY <1>2 DEF Struck
  <2> QED BY <1>0, <1>1, <2>1 DEF ThreadTypes
<1> QED BY <1>3, <1>4, <1>5 DEF ThreadIInv

LEMMA EndSound ==
    ASSUME ThreadIInv, NEW r \in RunTasks, EndRun(r)
    PROVE  ThreadIInv'
BY StruckSound DEF EndRun

---------------------------------------------------------------------------
\* A deletion begins with all active runs of the owner, and misses the others.
LEMMA ListSound ==
    ASSUME ThreadIInv, NEW q \in Deletions, NEW u \in ThreadUsers, NEW t \in ThreadIds,
           ListRuns(q, u, t)
    PROVE  ThreadIInv'
<1> DEFINE runs == ActiveOf(u, t)
           x == [at |-> "stop", thread |-> t, runs |-> runs]
<1>1. /\ ThreadTypes /\ q \in ThreadRequests /\ threadRequest[q] = NoRequest /\ Owns(u, t)
      /\ UNCHANGED <<thread, checkpoint, task, sweep, threadFaults, abandoned, halves>>
      /\ missed' = missed \cup (TasksOf(u, t) \ ActiveOf(u, t))
      /\ threadRequest' = [threadRequest EXCEPT ![q] = x]
  BY DEF ListRuns, SetRequest, ThreadIInv, ThreadRequests
<1>2. x \in RequestStates /\ x.at = "stop" /\ x.thread = t /\ x.runs = runs
  BY DEF RequestStates, ActiveOf, TasksOf
<1>3. /\ threadRequest' \in [ThreadRequests -> RequestStates] /\ threadRequest'[q] = x
      /\ \A p \in ThreadRequests : p # q => threadRequest'[p] = threadRequest[p]
  <2> HIDE DEF x
  <2> QED BY <1>1, <1>2 DEF ThreadTypes
<1>4. ASSUME NEW r \in RunTasks PROVE TaskSound(r)'
  <2>1. SUFFICES ASSUME Goes(r) PROVE TaskSound(r)'
    BY <1>1 DEF TaskSound, Goes
  <2>2. TaskSound(r)
    BY DEF ThreadIInv
  <2>3. ASSUME task[r].user = task[r].owner, NEW p \in ThreadRequests PROVE Stopping(p, r)'
    <3>1. CASE p # q
      BY <1>1, <1>3, <2>1, <2>2, <2>3, <3>1 DEF TaskSound, Stopping
    <3>2. CASE p = q /\ task[r].thread = t
      <4>1. task[r].user = u
        BY <1>1, <2>1, <2>2, <2>3, <3>2 DEF TaskSound, Owns
      <4>2. r \in runs \cup missed'
        BY <1>1, <2>1, <3>2, <4>1 DEF TasksOf
      <4> QED BY <1>2, <1>3, <3>2, <4>2 DEF Stopping
    <3>3. CASE p = q /\ task[r].thread # t
      BY <1>1, <1>2, <1>3, <3>3 DEF Stopping
    <3> QED BY <3>1, <3>2, <3>3
  <2>4. task' = task /\ thread' = thread /\ abandoned' = abandoned /\ missed \subseteq missed'
    BY <1>1
  <2> QED BY <2>1, <2>2, <2>3, <2>4 DEF TaskSound, Goes, HasRow
<1>5. ASSUME NEW s \in ThreadIds PROVE CopySound(s)'
  BY <1>1, <1>3 DEF ThreadIInv, CopySound, HasRow, NoRequest
<1>6. ThreadTypes'
  BY <1>1, <1>3 DEF ThreadTypes
<1> QED BY <1>4, <1>5, <1>6 DEF ThreadIInv

LEMMA StopSound ==
    ASSUME ThreadIInv, NEW q \in Deletions, StopRun(q)
    PROVE  ThreadIInv'
<1>1. q \in ThreadRequests /\ threadRequest[q].at = "stop" /\ ThreadTypes
  BY DEF StopRun, ThreadRequests, ThreadIInv
<1>2. threadRequest[q].runs \subseteq RunTasks
  BY <1>1, RequestFields
<1> QED BY <1>2, StruckSound DEF StopRun, Cancelled

\* One request goes to a state that is not about deleting, the rows and tasks stay.
LEMMA RequestMoves ==
    ASSUME ThreadTypes, NEW q \in ThreadRequests, NEW x \in RequestStates,
           SetRequest(q, x), UNCHANGED task, missed \subseteq missed', x.at # "stop"
    PROVE  /\ threadRequest' \in [ThreadRequests -> RequestStates]
           /\ threadRequest'[q] = x
           /\ \A p \in ThreadRequests : p # q => threadRequest'[p] = threadRequest[p]
           /\ \A p \in ThreadRequests, r \in RunTasks : Stopping(p, r) => Stopping(p, r)'
<1>1. /\ threadRequest' \in [ThreadRequests -> RequestStates]
      /\ threadRequest'[q] = x
      /\ \A p \in ThreadRequests : p # q => threadRequest'[p] = threadRequest[p]
  BY DEF ThreadTypes, SetRequest
<1> QED BY <1>1 DEF Stopping

\* Rows go: none of them is of a task that has no reason to outlive it.
LEMMA RowsGoSound ==
    ASSUME ThreadIInv, NEW gone \in SUBSET ThreadIds,
           thread' = [t \in ThreadIds |-> IF t \in gone THEN DeletedThread ELSE thread[t]],
           UNCHANGED <<checkpoint, task, missed>>, abandoned \subseteq abandoned', halves' = halves,
           threadRequest' \in [ThreadRequests -> RequestStates],
           sweep'.at \in {"asleep", "selected"} /\ sweep'.expired \subseteq ThreadIds,
           ThreadFault \/ UNCHANGED threadFaults,
           \A p \in ThreadRequests, r \in RunTasks : Stopping(p, r) => Stopping(p, r)',
           \A p \in ThreadRequests :
              threadRequest[p].at \in {"put", "undo"} /\ threadRequest[p].thread \notin gone
                 => threadRequest'[p] = threadRequest[p],
           \A r \in RunTasks :
              Goes(r) /\ task[r].thread \in gone /\ task[r].user = task[r].owner
                 => r \in abandoned' \/ r \in missed
    PROVE  ThreadIInv'
<1>0. ThreadTypes
  BY DEF ThreadIInv
<1>1. /\ \A t \in gone : thread'[t] = DeletedThread
      /\ \A t \in ThreadIds : t \notin gone => thread'[t] = thread[t]
      /\ UnusedThread # DeletedThread
  BY RowsDiffer
<1>2. ThreadTypes'
  <2>1. threadFaults' \in 0..MaxThreadFaults
    BY <1>0, FaultCounted
  <2>2. thread' \in [ThreadIds -> {UnusedThread, DeletedThread} \cup Rows]
    BY <1>0 DEF ThreadTypes
  <2> QED BY <1>0, <2>1, <2>2 DEF ThreadTypes
<1>3. ASSUME NEW r \in RunTasks PROVE TaskSound(r)'
  <2>1. SUFFICES ASSUME Goes(r) PROVE TaskSound(r)'
    BY DEF TaskSound, Goes
  <2>2. TaskSound(r) /\ task[r].thread \in ThreadIds
    BY <1>0, <2>1 DEF ThreadIInv, ThreadTypes, Goes, Tasks
  <2> QED BY <1>1, <2>1, <2>2 DEF TaskSound, HasRow, Goes
<1>4. ASSUME NEW s \in ThreadIds PROVE CopySound(s)'
  <2>1. CASE s \in gone
    BY <1>1, <2>1 DEF CopySound, HasRow
  <2>2. CASE s \notin gone
    BY <1>1, <2>2 DEF ThreadIInv, CopySound, HasRow
  <2> QED BY <2>1, <2>2
<1> QED BY <1>2, <1>3, <1>4 DEF ThreadIInv

\* What changes is one request, what it puts, and what it has given up.
LEMMA CopyStepSound ==
    ASSUME ThreadIInv, NEW q \in ThreadRequests, NEW x \in RequestStates,
           SetRequest(q, x), x.at # "stop",
           UNCHANGED <<thread, task, sweep, abandoned, missed>>,
           checkpoint' \in [ThreadIds -> BOOLEAN],
           \A t \in ThreadIds : checkpoint[t] => checkpoint'[t],
           halves \subseteq halves', ThreadFault \/ UNCHANGED threadFaults,
           threadRequest[q].at \in {"put", "undo"} =>
              \/ checkpoint'[threadRequest[q].thread]
              \/ threadRequest[q].thread \in halves'
              \/ x.at \in {"put", "undo"} /\ x.thread = threadRequest[q].thread
    PROVE  ThreadIInv'
<1>0. ThreadTypes
  BY DEF ThreadIInv
<1>1. /\ threadRequest' \in [ThreadRequests -> RequestStates]
      /\ threadRequest'[q] = x
      /\ \A p \in ThreadRequests : p # q => threadRequest'[p] = threadRequest[p]
      /\ \A p \in ThreadRequests, r \in RunTasks : Stopping(p, r) => Stopping(p, r)'
  BY <1>0, RequestMoves
<1>2. ThreadTypes'
  <2>1. threadFaults' \in 0..MaxThreadFaults
    BY <1>0, FaultCounted
  <2> QED BY <1>0, <1>1, <2>1 DEF ThreadTypes
<1>3. ASSUME NEW r \in RunTasks PROVE TaskSound(r)'
  <2>1. TaskSound(r)
    BY DEF ThreadIInv
  <2> QED BY <1>1, <2>1 DEF TaskSound, HasRow, Goes
<1>4. ASSUME NEW s \in ThreadIds PROVE CopySound(s)'
  <2>1. SUFFICES ASSUME HasRow(s), thread[s].stateful, ~checkpoint'[s], s \notin halves'
                 PROVE  \E p \in ThreadRequests : /\ threadRequest'[p].at \in {"put", "undo"}
                                                  /\ threadRequest'[p].thread = s
    BY DEF CopySound, HasRow
  <2>2. ~checkpoint[s] /\ s \notin halves /\ CopySound(s)
    BY <1>0, <2>1 DEF ThreadIInv, ThreadTypes
  <2>3. PICK p \in ThreadRequests : /\ threadRequest[p].at \in {"put", "undo"}
                                    /\ threadRequest[p].thread = s
    BY <2>1, <2>2 DEF CopySound
  <2>4. CASE p # q
    BY <1>1, <2>3, <2>4
  <2>5. CASE p = q
    BY <1>1, <2>1, <2>3, <2>5
  <2> QED BY <2>4, <2>5
<1> QED BY <1>2, <1>3, <1>4 DEF ThreadIInv

LEMMA DeletionSound ==
    ASSUME ThreadIInv, NEW q \in Deletions, DeleteRow(q)
    PROVE  ThreadIInv'
<1> DEFINE t == threadRequest[q].thread
<1>0. q \in ThreadRequests /\ ThreadTypes /\ NoRequest \in RequestStates /\ NoRequest.at = "idle"
  BY DEF ThreadRequests, ThreadIInv, RequestStates, NoRequest
<1>1. /\ threadRequest[q].at = "stop" /\ threadRequest[q].runs = {} /\ t \in ThreadIds
      /\ SetRequest(q, NoRequest)
      /\ UNCHANGED <<checkpoint, task, sweep, abandoned, missed, halves>>
  BY <1>0, RequestFields DEF DeleteRow
<1>2. /\ threadRequest' \in [ThreadRequests -> RequestStates]
      /\ threadRequest'[q] = NoRequest
      /\ \A p \in ThreadRequests : p # q => threadRequest'[p] = threadRequest[p]
      /\ \A p \in ThreadRequests, r \in RunTasks : Stopping(p, r) => Stopping(p, r)'
  BY <1>0, <1>1, RequestMoves
<1>3. CASE SetThread(t, DeletedThread) /\ UNCHANGED threadFaults
  <2>1. thread' = [s \in ThreadIds |-> IF s \in {t} THEN DeletedThread ELSE thread[s]]
    BY <1>0, <1>3 DEF SetThread, ThreadTypes
  <2>2. ASSUME NEW r \in RunTasks, Goes(r), task[r].thread \in {t}, task[r].user = task[r].owner
        PROVE  r \in missed
    <3>1. Stopping(q, r)
      BY <1>0, <2>2 DEF ThreadIInv, TaskSound
    <3> QED BY <1>1, <2>2, <3>1 DEF Stopping
  <2>3. {t} \in SUBSET ThreadIds
    BY <1>1
  <2>4. \A p \in ThreadRequests :
          threadRequest[p].at \in {"put", "undo"} => threadRequest'[p] = threadRequest[p]
    BY <1>1, <1>2
  <2>5. sweep'.at \in {"asleep", "selected"} /\ sweep'.expired \subseteq ThreadIds
    BY <1>0, <1>1 DEF ThreadTypes
  <2> HIDE DEF t
  <2> QED BY <1>1, <1>2, <1>3, <2>1, <2>2, <2>3, <2>4, <2>5, RowsGoSound
<1>4. CASE ThreadFault /\ UNCHANGED thread
  <2>1. checkpoint' \in [ThreadIds -> BOOLEAN]
    BY <1>0, <1>1 DEF ThreadTypes
  <2>2. \A s \in ThreadIds : checkpoint[s] => checkpoint'[s]
    BY <1>1
  <2> QED BY <1>0, <1>1, <1>4, <2>1, <2>2, CopyStepSound
<1> QED BY <1>3, <1>4 DEF DeleteRow

---------------------------------------------------------------------------
\* A copy reads the row of its source, and its state.
LEMMA ReadingSound ==
    ASSUME ThreadIInv, NEW q \in Copies,
           (\E u \in ThreadUsers, t \in ThreadIds : ReadSource(q, u, t)) \/ ReadState(q)
    PROVE  ThreadIInv'
<1>0. q \in ThreadRequests /\ ThreadTypes
  BY DEF ThreadRequests, ThreadIInv
<1>1. /\ threadRequest[q].at \notin {"put", "undo"}
      /\ UNCHANGED <<thread, checkpoint, task, sweep, threadFaults, abandoned, missed, halves>>
  <2>1. NoRequest.at = "idle"
    BY DEF NoRequest
  <2>2. CASE \E u \in ThreadUsers, t \in ThreadIds : ReadSource(q, u, t)
    BY <2>1, <2>2 DEF ReadSource
  <2>3. CASE ReadState(q)
    BY <2>3 DEF ReadState
  <2> QED BY <2>2, <2>3
<1>2. \E x \in RequestStates : SetRequest(q, x) /\ x.at # "stop"
  <2>1. ASSUME NEW u \in ThreadUsers, NEW t \in ThreadIds, ReadSource(q, u, t)
        PROVE  \E x \in RequestStates : SetRequest(q, x) /\ x.at # "stop"
    <3> DEFINE x == [at |-> "state", user |-> u, source |-> t]
    <3>1. x \in RequestStates /\ x.at # "stop"
      BY DEF RequestStates
    <3>2. SetRequest(q, x)
      BY <2>1 DEF ReadSource
    <3> HIDE DEF x
    <3> QED BY <3>1, <3>2
  <2>2. ASSUME ReadState(q) PROVE \E x \in RequestStates : SetRequest(q, x) /\ x.at # "stop"
    <3> DEFINE x == [at |-> "copy", user |-> threadRequest[q].user,
                     stateful |-> checkpoint[threadRequest[q].source]]
    <3>1. threadRequest[q] \in [at : {"state"}, user : ThreadUsers, source : ThreadIds]
      BY <1>0, <2>2, RequestFields DEF ReadState
    <3>2. checkpoint[threadRequest[q].source] \in BOOLEAN /\ threadRequest[q].user \in ThreadUsers
      BY <1>0, <3>1 DEF ThreadTypes
    <3>3. x \in RequestStates /\ x.at # "stop"
      BY <3>2 DEF RequestStates
    <3>4. SetRequest(q, x)
      BY <2>2 DEF ReadState
    <3> HIDE DEF x
    <3> QED BY <3>3, <3>4
  <2> QED BY <2>1, <2>2
<1>3. /\ checkpoint' \in [ThreadIds -> BOOLEAN]
      /\ \A t \in ThreadIds : checkpoint[t] => checkpoint'[t]
  BY <1>0, <1>1 DEF ThreadTypes
<1> QED BY <1>0, <1>1, <1>2, <1>3, CopyStepSound

LEMMA InsertSound ==
    ASSUME ThreadIInv, NEW q \in Copies, NEW t \in ThreadIds, InsertCopy(q, t)
    PROVE  ThreadIInv'
<1> DEFINE b == threadRequest[q].stateful
           u == threadRequest[q].user
           row == Row(u, OrgOfUser[u], b)
           x == IF b THEN [at |-> "put", thread |-> t] ELSE NoRequest
<1>0. q \in ThreadRequests /\ ThreadTypes
  BY DEF ThreadRequests, ThreadIInv
<1>1. /\ threadRequest[q].at = "copy" /\ thread[t] = UnusedThread
      /\ SetThread(t, row) /\ SetRequest(q, x)
      /\ UNCHANGED <<checkpoint, task, sweep, threadFaults, abandoned, missed, halves>>
  BY DEF InsertCopy
<1>2. threadRequest[q] \in [at : {"copy"}, user : ThreadUsers, stateful : BOOLEAN]
  BY <1>0, <1>1, RequestFields
<1>3. u \in ThreadUsers /\ b \in BOOLEAN /\ OrgOfUser[u] \in Orgs
  BY <1>2 DEF Orgs
<1>4. row \in Rows /\ row.stateful = b
  <2> HIDE DEF b, u
  <2> QED BY <1>3, RowTyped
<1>5. x \in RequestStates /\ x.at # "stop" /\ (b => x.at = "put" /\ x.thread = t)
  BY DEF RequestStates, NoRequest
<1> HIDE DEF row, x, b
<1>6. /\ threadRequest' \in [ThreadRequests -> RequestStates]
      /\ threadRequest'[q] = x
      /\ \A p \in ThreadRequests : p # q => threadRequest'[p] = threadRequest[p]
  BY <1>0, <1>1, <1>5 DEF ThreadTypes, SetRequest
<1>7. \A p \in ThreadRequests :
        \/ UNCHANGED threadRequest[p]
        \/ threadRequest[p].at \notin {"stop", "put", "undo"} /\ threadRequest'[p].at # "stop"
  BY <1>1, <1>5, <1>6
<1>8. row.stateful => \E p \in ThreadRequests :
        threadRequest'[p].at \in {"put", "undo"} /\ threadRequest'[p].thread = t
  BY <1>0, <1>4, <1>5, <1>6
<1> QED BY <1>1, <1>4, <1>6, <1>7, <1>8, NewRowSound

LEMMA PutStateSound ==
    ASSUME ThreadIInv, NEW q \in Copies, PutState(q)
    PROVE  ThreadIInv'
<1> DEFINE t == threadRequest[q].thread
<1>0. q \in ThreadRequests /\ ThreadTypes /\ NoRequest \in RequestStates /\ NoRequest.at = "idle"
  BY DEF ThreadRequests, ThreadIInv, RequestStates, NoRequest
<1>1. /\ threadRequest[q].at = "put" /\ t \in ThreadIds
      /\ UNCHANGED <<thread, task, sweep, threadFaults, abandoned, missed, halves>>
  BY <1>0, RequestFields DEF PutState
<1>2. UndoCopy(t) \in RequestStates /\ UndoCopy(t).at = "undo" /\ UndoCopy(t).thread = t
  BY <1>1 DEF UndoCopy, RequestStates
<1>3. CASE /\ checkpoint' = [checkpoint EXCEPT ![t] = TRUE]
           /\ SetRequest(q, NoRequest)
  <2>1. /\ checkpoint' \in [ThreadIds -> BOOLEAN] /\ checkpoint'[t]
        /\ \A s \in ThreadIds : checkpoint[s] => checkpoint'[s]
    BY <1>0, <1>1, <1>3 DEF ThreadTypes
  <2> HIDE DEF t
  <2>2. threadRequest[q].thread = t
    BY DEF t
  <2> QED BY <1>0, <1>1, <1>3, <2>1, <2>2, CopyStepSound
<1>4. CASE SetRequest(q, UndoCopy(t)) /\ UNCHANGED checkpoint
  <2>1. /\ checkpoint' \in [ThreadIds -> BOOLEAN]
        /\ \A s \in ThreadIds : checkpoint[s] => checkpoint'[s]
    BY <1>0, <1>4 DEF ThreadTypes
  <2> QED BY <1>0, <1>1, <1>2, <1>4, <2>1, CopyStepSound
<1> QED BY <1>3, <1>4 DEF PutState

LEMMA UndoSound ==
    ASSUME ThreadIInv, NEW q \in Copies, DeleteCopy(q)
    PROVE  ThreadIInv'
<1> DEFINE t == threadRequest[q].thread
<1>0. q \in ThreadRequests /\ ThreadTypes /\ NoRequest \in RequestStates /\ NoRequest.at = "idle"
  BY DEF ThreadRequests, ThreadIInv, RequestStates, NoRequest
<1>1. /\ threadRequest[q].at = "undo" /\ t \in ThreadIds
      /\ SetRequest(q, NoRequest)
      /\ UNCHANGED <<checkpoint, task, sweep, missed>>
  BY <1>0, RequestFields DEF DeleteCopy
<1>2. /\ threadRequest' \in [ThreadRequests -> RequestStates]
      /\ threadRequest'[q] = NoRequest
      /\ \A p \in ThreadRequests : p # q => threadRequest'[p] = threadRequest[p]
      /\ \A p \in ThreadRequests, r \in RunTasks : Stopping(p, r) => Stopping(p, r)'
  BY <1>0, <1>1, RequestMoves
<1>3. CASE /\ SetThread(t, DeletedThread) /\ abandoned' = abandoned \cup On({t})
           /\ UNCHANGED <<threadFaults, halves>>
  <2>1. thread' = [s \in ThreadIds |-> IF s \in {t} THEN DeletedThread ELSE thread[s]]
    BY <1>0, <1>3 DEF SetThread, ThreadTypes
  <2>2. {t} \in SUBSET ThreadIds /\ abandoned \subseteq abandoned' /\ On({t}) \subseteq abandoned'
    BY <1>1, <1>3
  <2>3. \A p \in ThreadRequests :
          threadRequest[p].at \in {"put", "undo"} /\ threadRequest[p].thread \notin {t}
             => threadRequest'[p] = threadRequest[p]
    BY <1>2
  <2>4. sweep'.at \in {"asleep", "selected"} /\ sweep'.expired \subseteq ThreadIds
    BY <1>0, <1>1 DEF ThreadTypes
  <2> HIDE DEF t
  <2>5. \A r \in RunTasks :
          Goes(r) /\ task[r].thread \in {t} /\ task[r].user = task[r].owner
             => r \in abandoned' \/ r \in missed
    BY <2>2 DEF On
  <2> QED BY <1>1, <1>2, <1>3, <2>1, <2>2, <2>3, <2>4, <2>5, RowsGoSound
<1>4. CASE ThreadFault /\ halves' = halves \cup {t} /\ UNCHANGED <<thread, abandoned>>
  <2>1. /\ checkpoint' \in [ThreadIds -> BOOLEAN] /\ t \in halves' /\ halves \subseteq halves'
        /\ \A s \in ThreadIds : checkpoint[s] => checkpoint'[s]
    BY <1>0, <1>1, <1>4 DEF ThreadTypes
  <2>2. threadRequest[q].thread = t
    OBVIOUS
  <2> HIDE DEF t
  <2> QED BY <1>0, <1>1, <1>4, <2>1, <2>2, CopyStepSound
<1> QED BY <1>3, <1>4 DEF DeleteCopy

---------------------------------------------------------------------------
LEMMA SweepSound ==
    ASSUME ThreadIInv, SelectExpired \/ DeleteExpired
    PROVE  ThreadIInv'
<1>0. ThreadTypes
  BY DEF ThreadIInv
<1>1. \A p \in ThreadRequests, r \in RunTasks :
        UNCHANGED <<task, threadRequest, missed>> => (Stopping(p, r) => Stopping(p, r)')
  BY DEF Stopping
<1>2. CASE SelectExpired
  <2>1. /\ UNCHANGED <<thread, checkpoint, task, threadRequest, threadFaults,
                       abandoned, missed, halves>>
        /\ sweep' = [at |-> "selected", expired |-> Selected]
    BY <1>2 DEF SelectExpired
  <2>2. Selected \subseteq ThreadIds
    BY DEF Selected
  <2>3. sweep'.at \in {"asleep", "selected"} /\ sweep'.expired \subseteq ThreadIds
    BY <2>1, <2>2
  <2> DEFINE gone == {}
  <2>4. /\ thread' = [t \in ThreadIds |-> IF t \in gone THEN DeletedThread ELSE thread[t]]
        /\ gone \in SUBSET ThreadIds /\ \A t \in ThreadIds : t \notin gone
        /\ \A r \in RunTasks : task[r].thread \notin gone
    BY <1>0, <2>1 DEF ThreadTypes
  <2>5. threadRequest' \in [ThreadRequests -> RequestStates]
    BY <1>0, <2>1 DEF ThreadTypes
  <2> HIDE DEF gone
  <2> QED BY <1>1, <2>1, <2>3, <2>4, <2>5, RowsGoSound
<1>3. CASE DeleteExpired
  <2>1. /\ UNCHANGED <<checkpoint, task, threadRequest, missed, halves>>
        /\ sweep' = Sleeping /\ sweep.expired \subseteq ThreadIds
    BY <1>0, <1>3 DEF DeleteExpired, ThreadTypes
  <2>2. sweep'.at \in {"asleep", "selected"} /\ sweep'.expired \subseteq ThreadIds
    BY <2>1 DEF Sleeping
  <2>3. threadRequest' \in [ThreadRequests -> RequestStates]
    BY <1>0, <2>1 DEF ThreadTypes
  <2> DEFINE gone == sweep.expired
  <2>4. CASE /\ thread' = [t \in ThreadIds |-> IF t \in gone THEN DeletedThread ELSE thread[t]]
             /\ abandoned' = abandoned \cup On(gone) /\ UNCHANGED threadFaults
    <3>1. gone \in SUBSET ThreadIds
      BY <2>1
    <3> HIDE DEF gone
    <3>2. \A r \in RunTasks : Goes(r) /\ task[r].thread \in gone => r \in abandoned'
      BY <2>4 DEF On
    <3> QED BY <1>1, <2>1, <2>2, <2>3, <2>4, <3>1, <3>2, RowsGoSound
  <2>5. CASE ThreadFault /\ UNCHANGED <<thread, abandoned>>
    <3> DEFINE none == {}
    <3>1. /\ thread' = [t \in ThreadIds |-> IF t \in none THEN DeletedThread ELSE thread[t]]
          /\ none \in SUBSET ThreadIds /\ \A r \in RunTasks : task[r].thread \notin none
      BY <1>0, <2>5 DEF ThreadTypes
    <3> HIDE DEF none
    <3> QED BY <1>1, <2>1, <2>2, <2>3, <2>5, <3>1, RowsGoSound
  <2> QED BY <1>3, <2>4, <2>5 DEF DeleteExpired
<1> QED BY <1>2, <1>3

LEMMA ServerRestartSound ==
    ASSUME ThreadIInv, RestartServer
    PROVE  ThreadIInv'
<1>0. /\ ThreadTypes /\ ThreadFault /\ UNCHANGED <<thread, checkpoint>>
      /\ task' = [r \in RunTasks |-> NoTask]
      /\ threadRequest' = [q \in ThreadRequests |-> NoRequest] /\ sweep' = Sleeping
      /\ halves' = halves \cup {t \in ThreadIds : \E q \in ThreadRequests :
                    threadRequest[q].at \in {"put", "undo"} /\ threadRequest[q].thread = t}
  BY DEF RestartServer, ThreadIInv
<1>1. ThreadTypes'
  <2>1. threadFaults' \in 0..MaxThreadFaults
    BY <1>0, FaultCounted
  <2> QED BY <1>0, <2>1 DEF ThreadTypes, RequestStates, Sleeping
<1>2. \A r \in RunTasks : TaskSound(r)'
  BY <1>0 DEF TaskSound, Goes
<1>3. ASSUME NEW t \in ThreadIds PROVE CopySound(t)'
  BY <1>0 DEF ThreadIInv, CopySound, HasRow
<1> QED BY <1>1, <1>2, <1>3 DEF ThreadIInv

\* One step for each action.
LEMMA ThreadsStep == ThreadIInv /\ [NextThreads]_threadVars => ThreadIInv'
<1> SUFFICES ASSUME ThreadIInv, [NextThreads]_threadVars PROVE ThreadIInv'
  OBVIOUS
<1>1. CASE UNCHANGED threadVars
  BY <1>1 DEF threadVars, ThreadIInv, ThreadTypes, TaskSound, CopySound, Stopping, HasRow, Goes
<1>2. CASE SelectExpired \/ DeleteExpired
  BY <1>2, SweepSound
<1>3. CASE RestartServer
  BY <1>3, ServerRestartSound
<1>4. ASSUME NEW t \in ThreadIds, Expire(t) PROVE ThreadIInv'
  <2>1. HasRow(t) /\ thread[t] \in Rows
    BY <1>4 DEF Expire, ThreadIInv, ThreadTypes, HasRow
  <2>2. PICK row \in Rows : /\ SetThread(t, row) /\ row.user = thread[t].user
                            /\ row.stateful = thread[t].stateful
    BY <1>4, <2>1 DEF Expire, Rows
  <2> QED BY <1>4, <2>1, <2>2, EditRowSound DEF Expire
<1>5. ASSUME NEW t \in ThreadIds, NEW u \in Creators,
             CreateThread(u, t) \/ \E m \in BOOLEAN : PatchThread(u, t, m)
      PROVE  ThreadIInv'
  BY <1>5, CreateSound, PatchSound
<1>6. ASSUME NEW t \in ThreadIds, NEW u \in ThreadUsers,
             \/ \E r \in RunTasks : BeginRun(r, u, t)
             \/ \E q \in Deletions : ListRuns(q, u, t)
             \/ \E q \in Copies : ReadSource(q, u, t)
      PROVE  ThreadIInv'
  BY <1>6, BeginSound, ListSound, ReadingSound
<1>7. ASSUME NEW t \in ThreadIds, NEW q \in Copies, InsertCopy(q, t) PROVE ThreadIInv'
  BY <1>7, InsertSound
<1>8. ASSUME NEW r \in RunTasks, CloseRun(r) \/ WriteState(r) \/ EndRun(r) PROVE ThreadIInv'
  BY <1>8, CloseSound, WriteSound, EndSound
<1>9. ASSUME NEW q \in Deletions, StopRun(q) \/ DeleteRow(q) PROVE ThreadIInv'
  BY <1>9, StopSound, DeletionSound
<1>10. ASSUME NEW q \in Copies, ReadState(q) \/ PutState(q) \/ DeleteCopy(q) PROVE ThreadIInv'
  BY <1>10, ReadingSound, PutStateSound, UndoSound
<1> QED BY <1>1, <1>2, <1>3, <1>4, <1>5, <1>6, <1>7, <1>8, <1>9, <1>10 DEF NextThreads

(***************************************************************************)
(* For any numbers of threads, users, tasks, deletions, copies and faults: *)
(* a copy has the state of its source or a request that is putting it or   *)
(* taking the row away, unless a fault came in the middle; and a task goes *)
(* on without its thread only for one of the reasons OrphansExplained      *)
(* names (api/threads.py delete_thread, copy_thread, the sweep).           *)
(***************************************************************************)
THEOREM ThreadsSound == ThreadSpec => []ThreadInv
<1>1. InitThreads => ThreadIInv
  BY ThreadsBegin
<1>2. ThreadIInv /\ [NextThreads]_threadVars => ThreadIInv'
  BY ThreadsStep
<1>3. ThreadIInv => ThreadInv
  BY ThreadInvariantGives
<1> QED BY <1>1, <1>2, <1>3, PTL DEF ThreadSpec
=============================================================================
