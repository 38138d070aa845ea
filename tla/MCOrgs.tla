------------------------------ MODULE MCOrgs -------------------------------
(***************************************************************************)
(* Members and permissions, or a feature flag: a behavior is one of        *)
(* Organizations or one of FeatureFlags, the other at rest.                *)
(***************************************************************************)
EXTENDS Organizations, FeatureFlags, TLC

VARIABLE focus

People     == {"ann", "bob"}
TwoOwners  == [u \in People |-> "owner"]
Developer  == [u \in People |-> IF u = "ann" THEN "owner" ELSE "developer"]
Auditor    == {"auditor"}
SomeRoles  == {"owner", "viewer", "auditor"}
AuditPerms == {{<<"audit", "read">>}}
Exchange   == {[granted |-> {<<"threads", "write">>}, denied |-> {<<"runs", "*">>}]}
Withheld   == {[granted |-> {}, denied |-> {<<"runs", "create">>}]}
SomeBucket == [who \in {"ann", "anon", "acme"} |-> IF who = "ann" THEN 1 ELSE 0]

MCInit ==
    /\ InitOrg /\ InitFlags /\ focus \in {"org", "flag"}
    /\ focus = "flag" => org = "absent"

MCNext ==
    \/ focus = "org" /\ NextOrg /\ UNCHANGED <<flagVars, focus>>
    \/ focus = "flag" /\ NextFlags /\ UNCHANGED <<orgVars, focus>>

MCSpec ==
    /\ MCInit /\ [][MCNext]_<<orgVars, flagVars, focus>>
    /\ focus = "org" => OrgFairness
    /\ focus = "flag" => FlagFairness

\* The caches of permissions and of evaluated flags come to agree with the rows.
OrgCachesConverge == PermissionsConverge /\ FlagsConverge
=============================================================================
