--------------------------- MODULE Organizations ---------------------------
(***************************************************************************)
(* One organization: its members and API keys (OrganizationService), the   *)
(* roles it defines, the permissions given to or withheld from single      *)
(* members (RBACService), and the effective permissions that               *)
(* PermissionService computes and caches.                                  *)
(*                                                                         *)
(* The two services write the same member rows.  A request is an operation *)
(* of either; each of its steps is what runs between two awaits of the     *)
(* database or of Redis, where another request can make a difference: the  *)
(* row that one reads, decides on and writes by itself is one step.        *)
(***************************************************************************)
EXTENDS Integers, FiniteSets

CONSTANTS
    Users,         \* user identities
    CustomRoles,   \* names of roles the organization may define
    GivenRoles,    \* the roles that requests give (any name of a role)
    ApiKeys,       \* key_ids
    RolePerms,     \* what a custom role may permit: sets of permissions
    CustomPerms,   \* what is given to one member: records of granted and denied
    StartMembers,  \* the member rows when the server starts
    Requests,      \* the requests that change something, each made once
    Readers,       \* the requests that ask for permissions
    PermTtl,       \* PermissionService.CACHE_TTL
    MaxOrgFaults   \* bound of the model: failing commits and Redis errors

ASSUME OrgConstants ==
    /\ IsFiniteSet(Users) /\ PermTtl \in Nat \ {0} /\ MaxOrgFaults \in Nat
    /\ {"none", "owner"} \cap CustomRoles = {}

VARIABLES
    org,        \* "absent", "bare" (committed without its owner), "live", "deleted"
    member,     \* the role of each user, or NoRole
    roleDef,    \* the permissions of each custom role, or NotDefined
    custom,     \* the custom permissions of each user, or NotGiven
    key,        \* the state of each API key
    permCache,  \* the cache entries perms:user:{id}:org:{id}
    op,         \* what each request is doing
    reader,     \* what each reader is doing
    orgFaults

orgVars == <<org, member, roleDef, custom, key, permCache, op, reader, orgFaults>>
rowVars == <<org, member, roleDef, custom, key>>

---------------------------------------------------------------------------
(* Permissions: <<"*">>, or a resource and an action, the action maybe "*". *)

Root == <<"*">>
WholeOf(resource) == <<resource, "*">>
Read(resources) == {<<r, "read">> : r \in resources}

SystemRole ==
    [owner |-> {Root},
     admin |-> {WholeOf(r) : r \in {"assistants", "threads", "runs", "store", "crons", "api_keys"}}
               \cup {<<"organization", a>> : a \in {"read", "update", "manage_members"}}
               \cup {<<"audit", a>> : a \in {"read", "export"}}
               \cup {<<"quotas", a>> : a \in {"read", "update"}},
     developer |-> {WholeOf(r) : r \in {"assistants", "threads", "runs", "crons"}}
                   \cup {<<"store", "read">>, <<"store", "write">>}
                   \cup Read({"organization", "quotas"}),
     viewer |-> Read({"assistants", "threads", "runs", "store", "crons",
                      "organization", "quotas"}),
     api_user |-> Read({"assistants", "threads", "runs", "store"})
                  \cup {<<"threads", "write">>, <<"runs", "create">>, <<"store", "write">>}]

SystemRoles == DOMAIN SystemRole

\* The enumeration OrganizationService knows, which is another set of names.
OrganizationRole == {"owner", "admin", "member", "viewer"}
Roles == OrganizationRole \cup SystemRoles \cup CustomRoles

NoRole == "none"
NotDefined == {<<"undefined">>}
NotGiven == [granted |-> {}, denied |-> {}]

MatchesPermission(required, granted) ==
    Root \in granted \/ required \in granted \/ WholeOf(required[1]) \in granted

\* A denied permission goes; a denied resource goes with all its actions.
Resolved(rolePerms, granted, denied) ==
    IF Root \in denied THEN {}
    ELSE {p \in (rolePerms \cup granted) \ denied : p = Root \/ WholeOf(p[1]) \notin denied}

\* A role that nobody defines, or that permits nothing, is worth a viewer's.
PermissionsOf(role) ==
    CASE role \in SystemRoles -> SystemRole[role]
      [] role \in CustomRoles /\ roleDef[role] \notin {NotDefined, {}} -> roleDef[role]
      [] OTHER -> SystemRole.viewer

RoleOf(u) == IF member[u] = NoRole THEN "viewer" ELSE member[u]

ASSUME RoleConstants ==
    /\ GivenRoles \subseteq Roles /\ StartMembers \in [Users -> Roles \cup {NoRole}]
    /\ NotDefined \notin RolePerms

\* get_effective_permissions, if its reads were one.
Effective(u) == Resolved(PermissionsOf(RoleOf(u)), custom[u].granted, custom[u].denied)

---------------------------------------------------------------------------
Owners == {u \in Users : member[u] = "owner"}
Waiting == [at |-> "idle"]
Done    == [at |-> "done"]
Miss    == [left |-> 0, perms |-> {}]

\* The operations on a member's row that read more than once before they write.
MemberKinds == {"add", "change", "remove", "assign"}

OrgTypeOK ==
    /\ org \in {"absent", "bare", "live", "deleted"}
    /\ member \in [Users -> Roles \cup {NoRole}]
    /\ roleDef \in [CustomRoles -> RolePerms \cup {NotDefined}]
    /\ custom \in [Users -> CustomPerms \cup {NotGiven}]
    /\ key \in [ApiKeys -> {"none", "valid", "expired", "revoked"}]
    /\ \A u \in Users : permCache[u].left \in 0..PermTtl
    /\ \A r \in Requests :
          op[r].at \in {"idle", "done", "owner", "target", "count", "write",
                        "delete", "drop", "dropRole", "revoke", "used"}
    /\ \A q \in Readers : reader[q].at \in {"idle", "role", "perms", "custom", "store"}
    /\ orgFaults \in 0..MaxOrgFaults

SetOp(r, state) == op' = [op EXCEPT ![r] = state]
OrgFault == orgFaults < MaxOrgFaults /\ orgFaults' = orgFaults + 1

---------------------------------------------------------------------------
(* OrganizationService *)

\* create_organization commits the row ...
CreateOrganization(r) ==
    /\ op[r] = Waiting /\ org = "absent"
    /\ org' = "bare"
    /\ \E u \in Users : SetOp(r, [at |-> "owner", by |-> u])
    /\ UNCHANGED <<member, roleDef, custom, key, permCache, reader, orgFaults>>

\* ... and then the first owner; if this fails the organization stays as it is.
AddFirstOwner(r) ==
    /\ op[r].at = "owner"
    /\ \/ /\ org' = "live"
          /\ member' = [member EXCEPT ![op[r].by] = "owner"]
          /\ UNCHANGED orgFaults
       \/ OrgFault /\ UNCHANGED <<org, member>>
    /\ SetOp(r, Done)
    /\ UNCHANGED <<roleDef, custom, key, permCache, reader>>

\* delete_organization: all its rows go with it.
DeleteOrganization(r) ==
    /\ op[r] = Waiting /\ org = "live"
    /\ \E u \in Users : member[u] = "owner"
    /\ org' = "deleted"
    /\ member' = [u \in Users |-> NoRole]
    /\ roleDef' = [n \in CustomRoles |-> NotDefined]
    /\ custom' = [u \in Users |-> NotGiven]
    /\ key' = [k \in ApiKeys |-> "none"]
    /\ SetOp(r, Done)
    /\ UNCHANGED <<permCache, reader, orgFaults>>

\* The first step of an operation on a member finds the role of who asks for it.
\* A role that is not of the enumeration raises, and the request ends.
Managers == {"owner", "admin"}

MayAsk(kind, u, v, role) ==
    CASE kind = "add"    -> /\ member[u] \in Managers /\ role \in OrganizationRole
                            /\ (role = "owner" => member[u] = "owner")
      [] kind = "change" -> member[u] \in Managers /\ role \in OrganizationRole
      [] kind = "remove" -> \/ member[u] \in Managers
                            \/ u = v /\ member[u] \in OrganizationRole
      [] kind = "assign" -> member[u] \in Managers

Authorize(r) ==
    /\ op[r] = Waiting
    /\ \E u, v \in Users, kind \in MemberKinds, role \in GivenRoles :
          /\ MayAsk(kind, u, v, role)
          /\ (kind = "remove" => role = "viewer")   \* has no role: one value is enough
          /\ SetOp(r, [at |-> "target", kind |-> kind, by |-> u, asker |-> member[u],
                       target |-> v, role |-> role, was |-> NoRole, owners |-> 0])
    /\ UNCHANGED <<rowVars, permCache, reader, orgFaults>>

\* Then the member's row is read: whether it is an owner's decides what follows.
Known(role) ==
    \/ role \in SystemRoles
    \/ role \in CustomRoles /\ roleDef[role] # NotDefined

AfterReading(o, now) ==
    CASE o.kind = "add" -> IF now = NoRole THEN "write" ELSE "done"
      [] o.kind = "change" ->
            IF now \notin OrganizationRole THEN "done"
            ELSE IF "owner" \in {now, o.role} /\ o.asker # "owner" THEN "done"
            ELSE IF now = "owner" /\ o.role # "owner" THEN "count" ELSE "write"
      [] o.kind = "remove" ->
            IF now = NoRole THEN "done"
            ELSE IF now # "owner" THEN "write"
            ELSE IF o.asker = "owner" \/ o.by = o.target THEN "count" ELSE "done"
      [] o.kind = "assign" -> IF now # NoRole /\ Known(o.role) THEN "write" ELSE "done"

ReadTarget(r) ==
    LET now  == member[op[r].target]
        next == AfterReading(op[r], now)
    IN  /\ op[r].at = "target"
        /\ SetOp(r, IF next = "done" THEN Done ELSE [op[r] EXCEPT !.at = next, !.was = now])
        /\ UNCHANGED <<rowVars, permCache, reader, orgFaults>>

\* The last owner stays.
\* Mutant: only an organization without any owner is refused.
EnoughIfAny(owners) == owners >= 1
Enough(owners) == owners >= 2

CountOwners(r) ==
    LET n == Cardinality(Owners) IN
    /\ op[r].at = "count"
    /\ SetOp(r, IF Enough(n) THEN [op[r] EXCEPT !.at = "write", !.owners = n] ELSE Done)
    /\ UNCHANGED <<rowVars, permCache, reader, orgFaults>>

\* The row as the operation leaves it.  An insert fails if the organization is
\* gone or the row is there by now; an update or delete of no row does nothing, or
\* raises; assign_role alone removes the cache entry, and only after its commit.
WriteMember(r) ==
    LET o == op[r] IN
    /\ o.at = "write"
    /\ CASE o.kind = "add" ->
              member' = IF org = "live" /\ member[o.target] = NoRole
                        THEN [member EXCEPT ![o.target] = o.role] ELSE member
         [] o.kind \in {"change", "assign"} ->
              member' = IF member[o.target] # NoRole
                        THEN [member EXCEPT ![o.target] = o.role] ELSE member
         [] o.kind = "remove" -> member' = [member EXCEPT ![o.target] = NoRole]
    /\ SetOp(r, IF o.kind = "assign" /\ member[o.target] # NoRole
                THEN [at |-> "drop", users |-> {o.target}] ELSE Done)
    /\ UNCHANGED <<org, roleDef, custom, key, permCache, reader, orgFaults>>

---------------------------------------------------------------------------
(* API keys *)

CreateApiKey(r) ==
    /\ op[r] = Waiting /\ org = "live"
    /\ \E u \in Users : member[u] \in Managers
    /\ \E k \in ApiKeys : key[k] = "none" /\ key' = [key EXCEPT ![k] = "valid"]
    /\ SetOp(r, Done)
    /\ UNCHANGED <<org, member, roleDef, custom, permCache, reader, orgFaults>>

\* revoke_api_key reads the row and writes revoked_at.
ReadKey(r) ==
    /\ op[r] = Waiting
    /\ \E u \in Users : member[u] \in Managers
    /\ \E k \in ApiKeys : key[k] \in {"valid", "expired"} /\ SetOp(r, [at |-> "revoke", key |-> k])
    /\ UNCHANGED <<rowVars, permCache, reader, orgFaults>>

RevokeKey(r) ==
    LET k == op[r].key IN
    /\ op[r].at = "revoke"
    /\ key' = [key EXCEPT ![k] = IF @ = "none" THEN @ ELSE "revoked"]
    /\ SetOp(r, Done)
    /\ UNCHANGED <<org, member, roleDef, custom, permCache, reader, orgFaults>>

\* verify_api_key finds a usable key and notes its use.
VerifyKey(r) ==
    /\ op[r] = Waiting
    /\ \E k \in ApiKeys : key[k] = "valid" /\ SetOp(r, [at |-> "used", key |-> k])
    /\ UNCHANGED <<rowVars, permCache, reader, orgFaults>>

NoteUse(r) ==
    /\ op[r].at = "used"
    /\ SetOp(r, Done)
    /\ UNCHANGED <<rowVars, permCache, reader, orgFaults>>

KeyExpires(k) ==
    /\ key[k] = "valid"
    /\ key' = [key EXCEPT ![k] = "expired"]
    /\ UNCHANGED <<org, member, roleDef, custom, permCache, op, reader, orgFaults>>

---------------------------------------------------------------------------
(* RBACService *)

\* create_role, update_role: the entries of its members go after the commit.
DefineRole(r) ==
    /\ op[r] = Waiting /\ org = "live"
    /\ \E n \in CustomRoles, ps \in RolePerms :
          /\ roleDef' = [roleDef EXCEPT ![n] = ps]
          /\ SetOp(r, IF roleDef[n] = NotDefined THEN Done
                      ELSE [at |-> "dropRole", role |-> n])
    /\ UNCHANGED <<org, member, custom, key, permCache, reader, orgFaults>>

\* delete_role looks for members that have it, and then deletes it.
FindRoleMembers(r) ==
    /\ op[r] = Waiting
    /\ \E n \in CustomRoles :
          /\ roleDef[n] # NotDefined
          /\ \A u \in Users : member[u] # n
          /\ SetOp(r, [at |-> "delete", role |-> n])
    /\ UNCHANGED <<rowVars, permCache, reader, orgFaults>>

DeleteRole(r) ==
    /\ op[r].at = "delete"
    /\ roleDef' = [roleDef EXCEPT ![op[r].role] = NotDefined]
    /\ SetOp(r, [at |-> "dropRole", role |-> op[r].role])
    /\ UNCHANGED <<org, member, custom, key, permCache, reader, orgFaults>>

\* update_user_permissions and delete_user_custom_permissions
SetCustomPermissions(r) ==
    /\ op[r] = Waiting /\ org = "live"
    /\ \E u \in Users, c \in CustomPerms \cup {NotGiven} :
          /\ custom' = [custom EXCEPT ![u] = c]
          /\ SetOp(r, [at |-> "drop", users |-> {u}])
    /\ UNCHANGED <<org, member, roleDef, key, permCache, reader, orgFaults>>

CustomExpires(u) ==
    /\ custom[u] # NotGiven
    /\ custom' = [custom EXCEPT ![u] = NotGiven]
    /\ UNCHANGED <<org, member, roleDef, key, permCache, op, reader, orgFaults>>

\* invalidate_role_cache: the members that have the role now.
FindUsersOfRole(r) ==
    /\ op[r].at = "dropRole"
    /\ SetOp(r, [at |-> "drop", users |-> {u \in Users : member[u] = op[r].role}])
    /\ UNCHANGED <<rowVars, permCache, reader, orgFaults>>

\* invalidate_user_cache, for one after the other; an error of Redis is swallowed.
DropPermissions(r) ==
    /\ op[r].at = "drop"
    /\ IF op[r].users = {}
       THEN SetOp(r, Done) /\ UNCHANGED <<permCache, orgFaults>>
       ELSE \E u \in op[r].users :
               /\ \/ permCache' = [permCache EXCEPT ![u] = Miss] /\ UNCHANGED orgFaults
                  \/ OrgFault /\ UNCHANGED permCache
               /\ SetOp(r, [op[r] EXCEPT !.users = @ \ {u}])
    /\ UNCHANGED <<rowVars, reader>>

---------------------------------------------------------------------------
(* PermissionService.get_effective_permissions: a hit, or three reads. *)

SetReader(q, state) == reader' = [reader EXCEPT ![q] = state]

AskPermissions(q) ==
    /\ reader[q] = Waiting
    /\ \E u \in Users : permCache[u].left = 0 /\ SetReader(q, [at |-> "role", user |-> u])
    /\ UNCHANGED <<rowVars, permCache, op, orgFaults>>

ReadRole(q) ==
    /\ reader[q].at = "role"
    /\ SetReader(q, [at |-> "perms", user |-> reader[q].user, role |-> RoleOf(reader[q].user)])
    /\ UNCHANGED <<rowVars, permCache, op, orgFaults>>

ReadPerms(q) ==
    /\ reader[q].at = "perms"
    /\ SetReader(q, [at |-> "custom", user |-> reader[q].user,
                     perms |-> PermissionsOf(reader[q].role)])
    /\ UNCHANGED <<rowVars, permCache, op, orgFaults>>

ReadCustom(q) ==
    LET u == reader[q].user IN
    /\ reader[q].at = "custom"
    /\ SetReader(q, [at |-> "store", user |-> u,
                     perms |-> Resolved(reader[q].perms, custom[u].granted, custom[u].denied)])
    /\ UNCHANGED <<rowVars, permCache, op, orgFaults>>

StorePermissions(q) ==
    /\ reader[q].at = "store"
    /\ permCache' = [permCache EXCEPT ![reader[q].user] =
                        [left |-> PermTtl, perms |-> reader[q].perms]]
    /\ SetReader(q, Waiting)
    /\ UNCHANGED <<rowVars, op, orgFaults>>

\* Mutant: the entry is stored without a lifetime.
KeptForEver(entry) == entry
Kept(entry) == IF entry.left <= 1 THEN Miss ELSE [entry EXCEPT !.left = @ - 1]

PermClock ==
    /\ permCache' = [u \in Users |-> Kept(permCache[u])]
    /\ UNCHANGED <<rowVars, op, reader, orgFaults>>

---------------------------------------------------------------------------
InitOrg ==
    /\ \/ org = "absent" /\ member = [u \in Users |-> NoRole]
       \/ org = "live" /\ member = StartMembers
    /\ roleDef = [n \in CustomRoles |-> NotDefined]
    /\ custom = [u \in Users |-> NotGiven]
    /\ key = [k \in ApiKeys |-> "none"]
    /\ permCache = [u \in Users |-> Miss]
    /\ op = [r \in Requests |-> Waiting]
    /\ reader = [q \in Readers |-> Waiting]
    /\ orgFaults = 0

\* What a request that has begun goes on to do.
OpStep(r) ==
    \/ AddFirstOwner(r) \/ ReadTarget(r) \/ CountOwners(r)
    \/ WriteMember(r)
    \/ RevokeKey(r) \/ NoteUse(r) \/ DeleteRole(r) \/ FindUsersOfRole(r) \/ DropPermissions(r)

OpStart(r) ==
    \/ CreateOrganization(r) \/ DeleteOrganization(r) \/ Authorize(r) \/ CreateApiKey(r)
    \/ ReadKey(r) \/ VerifyKey(r) \/ DefineRole(r) \/ FindRoleMembers(r)
    \/ SetCustomPermissions(r)

ReaderStep(q) == ReadRole(q) \/ ReadPerms(q) \/ ReadCustom(q) \/ StorePermissions(q)

NextOrg ==
    \/ PermClock
    \/ \E u \in Users : CustomExpires(u)
    \/ \E k \in ApiKeys : KeyExpires(k)
    \/ \E r \in Requests : OpStart(r) \/ OpStep(r)
    \/ \E q \in Readers : AskPermissions(q) \/ ReaderStep(q)

OrgFairness ==
    /\ WF_orgVars(PermClock)
    /\ \A r \in Requests : WF_orgVars(OpStep(r))
    /\ \A q \in Readers : WF_orgVars(ReaderStep(q))

OrgSpec == InitOrg /\ [][NextOrg]_orgVars
FairOrgSpec == OrgSpec /\ OrgFairness

---------------------------------------------------------------------------
(***************************************************************************)
(* A request that takes the role from an owner has counted two of them     *)
(* before, and asked as an owner, unless it leaves on its own.             *)
(***************************************************************************)
OwnersCounted ==
    \A r \in Requests :
        op[r].at = "write" /\ op[r].kind \in {"change", "remove"} /\ op[r].was = "owner" =>
            \/ op[r].kind = "change" /\ op[r].role = "owner"
            \/ /\ op[r].owners >= 2
               /\ \/ op[r].asker = "owner"
                  \/ op[r].kind = "remove" /\ op[r].by = op[r].target

(***************************************************************************)
(* An organization has members only while it exists, and then one who      *)
(* created it: what members, roles, keys and custom permissions are there  *)
(* is gone with the organization, whatever requests were in progress.      *)
(***************************************************************************)
NothingOutlives ==
    org # "live" =>
        /\ \A u \in Users : member[u] = NoRole /\ custom[u] = NotGiven
        /\ \A k \in ApiKeys : key[k] = "none"
        /\ \A n \in CustomRoles : roleDef[n] = NotDefined

OrgInv == OrgTypeOK /\ OwnersCounted /\ NothingOutlives

(***************************************************************************)
(* When an owner is lost as the last one, without the organization being   *)
(* deleted, it is by assign_role, which does not look, or by a request     *)
(* whose count or whose reading of the row another request has outdated.   *)
(***************************************************************************)
LastOwnerLostByRace ==
    [][\A r \in Requests :
          org = "live" /\ org' = "live" /\ Owners # {} /\ Owners' = {}
          /\ op[r].at = "write" /\ op'[r].at # "write" =>
             \/ op[r].kind = "assign"
             \/ op[r].was # "owner"
             \/ op[r].owners > Cardinality(Owners)]_orgVars

(***************************************************************************)
(* When nothing changes any more, cached permissions become those the rows *)
(* give, and remain so: the three reads of get_effective_permissions are   *)
(* not one, what they found may be stored after an invalidation, and       *)
(* OrganizationService invalidates nothing.                                *)
(***************************************************************************)
PermissionsConverge ==
    <>[](\A u \in Users : permCache[u].left > 0 => permCache[u].perms = Effective(u))

(***************************************************************************)
(* The rule the documentation of update_member_role and remove_member      *)
(* gives: an organization with an owner keeps one until it is deleted.     *)
(***************************************************************************)
OwnerRemains == [][org = "live" /\ org' = "live" /\ Owners # {} => Owners' # {}]_orgVars

(***************************************************************************)
(* The rule of UserCustomPermissions: denied permissions override all that *)
(* the role and the granted permissions give, so that a check for a denied *)
(* permission fails.                                                       *)
(***************************************************************************)
DeniedIsWithheld ==
    \A u \in Users : \A p \in custom[u].denied : ~MatchesPermission(p, Effective(u))
=============================================================================
