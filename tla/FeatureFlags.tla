---------------------------- MODULE FeatureFlags ----------------------------
(***************************************************************************)
(* One feature flag of an organization (FeatureFlagService): its row, the  *)
(* overrides for the organization or for single users, and evaluations,    *)
(* which read the row, the cache and the overrides one after the other and *)
(* keep their result under a key that names the user only.                 *)
(*                                                                         *)
(* A flag is on, off, or has the value of an override.  Targeting rules    *)
(* are stored and never evaluated, here as in the code.                    *)
(***************************************************************************)
EXTENDS Integers, FiniteSets

CONSTANTS
    FlagUsers,      \* user_ids of evaluation contexts; "anon" is none
    FlagOrgs,       \* org_ids of evaluation contexts
    Evaluators,     \* requests that evaluate the flag
    Adders,         \* requests that add an override
    OverrideIds,    \* override_ids
    OverrideValues, \* the values overrides give
    Bucket,         \* the hash bucket of each user and organization
    Percents,       \* percentages of a rollout
    Hundred,        \* the number of buckets, 100 in the code
    FlagTtl,        \* CACHE_TTL_FLAGS
    MaxChanges      \* bound of the model: changes

ASSUME FlagConstants ==
    /\ Hundred \in Nat /\ Percents \subseteq 0..Hundred
    /\ Bucket \in [FlagUsers \cup FlagOrgs -> 0..(Hundred - 1)]
    /\ FlagTtl \in Nat \ {0} /\ MaxChanges \in Nat

VARIABLES
    flag,        \* the row of the key, or NoFlag
    overrides,   \* the rows of feature_flag_overrides
    flagCache,   \* for each user the entry ff_eval:{org}:{key}:{user}
    evaluation,  \* what each evaluator is doing
    adding,      \* what each adder has checked
    created,     \* how many flags have been created
    changes      \* how many changes have been made

flagVars == <<flag, overrides, flagCache, evaluation, adding, created, changes>>

---------------------------------------------------------------------------
Strategies == {"random", "user_hash", "org_hash"}
FlagStatus == {"active", "disabled", "archived"}
NoFlag     == [id |-> 0]
NotCached  == [left |-> 0, value |-> "off"]
Inactive   == [at |-> "idle"]

\* The rollout is none, or a strategy and a percentage.
Rollouts == [enabled : {TRUE}, strategy : Strategies, percent : Percents]
            \cup {[enabled |-> FALSE, strategy |-> "user_hash", percent |-> 0]}

Flags == [id : 1..MaxChanges, status : FlagStatus, enabled : BOOLEAN, rollout : Rollouts,
          expired : BOOLEAN]

\* An override of the organization has no target; one that is disabled or has
\* expired is not live.
Override == [id : OverrideIds, flag : 1..MaxChanges, target : FlagUsers \cup {"org"},
             value : OverrideValues, live : BOOLEAN]

FlagTypeOK ==
    /\ flag \in Flags \cup {NoFlag}
    /\ overrides \subseteq Override
    /\ flagCache \in [FlagUsers -> [left : 0..FlagTtl, value : {"on", "off"} \cup OverrideValues]]
    /\ \A e \in Evaluators :
          evaluation[e].at \in {"idle", "cache", "user", "org", "store"}
    /\ \A a \in Adders : adding[a].at \in {"idle", "insert"}
    /\ created \in 0..changes /\ changes \in 0..MaxChanges

---------------------------------------------------------------------------
(* Evaluation *)

\* Mutant: the users of the upper buckets are taken, and the fewer the more.
UpperBuckets(bucket, percent) == bucket >= percent
InBuckets(bucket, percent) == bucket < percent

\* _check_rollout, where "random" may say either.
CheckRollout(rollout, u, o) ==
    IF rollout.percent >= Hundred THEN {TRUE}
    ELSE IF rollout.percent <= 0 THEN {FALSE}
    ELSE CASE rollout.strategy = "random"    -> BOOLEAN
           [] rollout.strategy = "user_hash" ->
                 {u # "anon" /\ InBuckets(Bucket[u], rollout.percent)}
           [] rollout.strategy = "org_hash"  -> {InBuckets(Bucket[o], rollout.percent)}

\* The values that the flag's own row may give.
ByFlag(f, u, o) ==
    IF ~f.enabled THEN {"off"}
    ELSE IF ~f.rollout.enabled THEN {"on"}
    ELSE {IF in THEN "on" ELSE "off" : in \in CheckRollout(f.rollout, u, o)}

\* _get_active_override
Active(f, target) == {v \in overrides : v.flag = f.id /\ v.target = target /\ v.live}

Overriding(f, u) == IF u # "anon" /\ Active(f, u) # {} THEN Active(f, u) ELSE Active(f, "org")

\* What an evaluation of the rows as they are may find and keep.
Evaluated(f, u, o) ==
    IF f = NoFlag \/ Overriding(f, u) = {} THEN ByFlag(f, u, o)
    ELSE {v.value : v \in Overriding(f, u)}

SetEvaluation(e, state) == evaluation' = [evaluation EXCEPT ![e] = state]

\* get_flag_by_key; with no flag there is nothing to evaluate.
ReadFlag(e, u, o) ==
    /\ evaluation[e] = Inactive /\ flag # NoFlag
    /\ SetEvaluation(e, [at |-> "cache", user |-> u, org |-> o, flag |-> flag])
    /\ UNCHANGED <<flag, overrides, flagCache, adding, created, changes>>

\* A hit is the answer whatever the row says.  A flag that is not active or has
\* expired gives its default, which is not kept.
ReadFlagCache(e) ==
    LET x == evaluation[e] IN
    /\ x.at = "cache"
    /\ SetEvaluation(e,
          IF flagCache[x.user].left > 0 \/ x.flag.status # "active" \/ x.flag.expired
          THEN Inactive
          ELSE [x EXCEPT !.at = IF x.user = "anon" THEN "org" ELSE "user"])
    /\ UNCHANGED <<flag, overrides, flagCache, adding, created, changes>>

Keep(x, value) == [at |-> "store", user |-> x.user, value |-> value]

\* Two live overrides raise MultipleResultsFound, and the evaluation fails.
ReadUserOverride(e) ==
    LET x == evaluation[e]
        found == Active(x.flag, x.user)
    IN  /\ x.at = "user"
        /\ \/ found = {} /\ SetEvaluation(e, [x EXCEPT !.at = "org"])
           \/ Cardinality(found) > 1 /\ SetEvaluation(e, Inactive)
           \/ \E v \in found : found = {v} /\ SetEvaluation(e, Keep(x, v.value))
        /\ UNCHANGED <<flag, overrides, flagCache, adding, created, changes>>

ReadOrgOverride(e) ==
    LET x == evaluation[e]
        found == Active(x.flag, "org")
    IN  /\ x.at = "org"
        /\ \/ \E value \in ByFlag(x.flag, x.user, x.org) :
                 found = {} /\ SetEvaluation(e, Keep(x, value))
           \/ Cardinality(found) > 1 /\ SetEvaluation(e, Inactive)
           \/ \E v \in found : found = {v} /\ SetEvaluation(e, Keep(x, v.value))
        /\ UNCHANGED <<flag, overrides, flagCache, adding, created, changes>>

\* Kept, unless Redis is off or fails.
KeepResult(e) ==
    LET x == evaluation[e] IN
    /\ x.at = "store"
    /\ \/ flagCache' = [flagCache EXCEPT ![x.user] = [left |-> FlagTtl, value |-> x.value]]
       \/ UNCHANGED flagCache
    /\ SetEvaluation(e, Inactive)
    /\ UNCHANGED <<flag, overrides, adding, created, changes>>

---------------------------------------------------------------------------
(* Changes.  Each commits, writes a change log in a second transaction, and *)
(* then empties the cache.                                                  *)

\* The log holds model_dump() of the row, with its timestamps as datetime, which
\* the JSON encoder of the column refuses: the change stands, the request fails,
\* and what comes after the log is not reached.
LogSucceeds == FALSE

FlagChanged ==
    /\ flagCache' = IF LogSucceeds THEN [u \in FlagUsers |-> NotCached] ELSE flagCache
    /\ UNCHANGED <<evaluation>>

CountChange == changes < MaxChanges /\ changes' = changes + 1

\* The key is unique.
CreateFlag ==
    /\ flag = NoFlag /\ CountChange
    /\ created' = created + 1
    /\ \E enabled \in BOOLEAN, rollout \in Rollouts :
          flag' = [id |-> created + 1, status |-> "active", enabled |-> enabled,
                   rollout |-> rollout, expired |-> FALSE]
    /\ FlagChanged
    /\ UNCHANGED <<overrides, adding>>

UpdateFlag ==
    /\ flag # NoFlag /\ CountChange
    /\ \/ \E b \in BOOLEAN : flag' = [flag EXCEPT !.enabled = b]
       \/ \E s \in FlagStatus : flag' = [flag EXCEPT !.status = s]
       \/ \E r \in Rollouts : flag' = [flag EXCEPT !.rollout = r]
       \/ flag' = [flag EXCEPT !.expired = FALSE]
    /\ FlagChanged
    /\ UNCHANGED <<overrides, adding, created>>

\* expires_at passes.
FlagExpires ==
    /\ flag # NoFlag /\ ~flag.expired /\ CountChange
    /\ flag' = [flag EXCEPT !.expired = TRUE]
    /\ UNCHANGED <<overrides, flagCache, evaluation, adding, created>>

\* The overrides go with their flag.
DeleteFlag ==
    /\ flag # NoFlag /\ CountChange
    /\ flag' = NoFlag
    /\ overrides' = {v \in overrides : v.flag # flag.id}
    /\ FlagChanged
    /\ UNCHANGED <<adding, created>>

\* create_override looks for the flag and for an override of the same target ...
CheckOverride(a) ==
    /\ adding[a] = Inactive /\ flag # NoFlag
    /\ \E target \in (FlagUsers \ {"anon"}) \cup {"org"} :
          /\ \A v \in overrides : v.flag = flag.id => v.target # target
          /\ adding' = [adding EXCEPT ![a] = [at |-> "insert", flag |-> flag.id, target |-> target]]
    /\ UNCHANGED <<flag, overrides, flagCache, evaluation, created, changes>>

\* ... and inserts.  The unique constraint sees no two equal rows where the target
\* is NULL.
\* Mutant: the column of the target is left out of the constraint altogether.
Unconstrained(x) == TRUE
Unique(x) == x.target = "org" \/ \A v \in overrides : v.flag = x.flag => v.target # x.target

NewIds == OverrideIds \ {v.id : v \in overrides}

InsertOverride(a) ==
    LET x == adding[a] IN
    /\ x.at = "insert"
    /\ adding' = [adding EXCEPT ![a] = Inactive]
    /\ \/ /\ flag.id = x.flag /\ Unique(x) /\ CountChange
          /\ NewIds # {}
          /\ \E value \in OverrideValues :
                overrides' = overrides \cup {[id |-> CHOOSE id \in NewIds : TRUE, flag |-> x.flag,
                                              target |-> x.target, value |-> value, live |-> TRUE]}
          /\ FlagChanged
       \/ UNCHANGED <<overrides, flagCache, evaluation, changes>>   \* it fails
    /\ UNCHANGED <<flag, created>>

\* update_override; an override also ceases to be live when it expires.
UpdateOverride ==
    /\ CountChange
    /\ \E v \in overrides :
          \E b \in BOOLEAN, value \in OverrideValues :
             overrides' = (overrides \ {v}) \cup {[v EXCEPT !.live = b, !.value = value]}
    /\ FlagChanged
    /\ UNCHANGED <<flag, adding, created>>

DeleteOverride ==
    /\ CountChange
    /\ \E v \in overrides : overrides' = overrides \ {v}
    /\ FlagChanged
    /\ UNCHANGED <<flag, adding, created>>

EntryAged(entry) == IF entry.left <= 1 THEN NotCached ELSE [entry EXCEPT !.left = @ - 1]

FlagClock ==
    /\ flagCache' = [u \in FlagUsers |-> EntryAged(flagCache[u])]
    /\ UNCHANGED <<flag, overrides, evaluation, adding, created, changes>>

---------------------------------------------------------------------------
InitFlags ==
    /\ flag = NoFlag /\ overrides = {}
    /\ flagCache = [u \in FlagUsers |-> NotCached]
    /\ evaluation = [e \in Evaluators |-> Inactive]
    /\ adding = [a \in Adders |-> Inactive]
    /\ created = 0 /\ changes = 0

EvaluationStep(e) ==
    ReadFlagCache(e) \/ ReadUserOverride(e) \/ ReadOrgOverride(e) \/ KeepResult(e)

NextFlags ==
    \/ FlagClock \/ CreateFlag \/ UpdateFlag \/ FlagExpires \/ DeleteFlag
    \/ UpdateOverride \/ DeleteOverride
    \/ \E a \in Adders : CheckOverride(a) \/ InsertOverride(a)
    \/ \E e \in Evaluators : EvaluationStep(e)
    \/ \E e \in Evaluators, u \in FlagUsers, o \in FlagOrgs : ReadFlag(e, u, o)

FlagFairness == WF_flagVars(FlagClock) /\ \A e \in Evaluators : WF_flagVars(EvaluationStep(e))

FlagSpec == InitFlags /\ [][NextFlags]_flagVars
FairFlagSpec == FlagSpec /\ FlagFairness

---------------------------------------------------------------------------
(***************************************************************************)
(* A user has one override of the flag at most, however many requests add  *)
(* one at once, and overrides belong to the flag that is there now: with a *)
(* second live one every evaluation for that user would fail.              *)
(***************************************************************************)
OneOverridePerUser ==
    \A v, w \in overrides :
        /\ v.flag = flag.id
        /\ v.target # "org" /\ v.target = w.target => v = w

FlagInv == FlagTypeOK /\ OneOverridePerUser

(***************************************************************************)
(* Raising the percentage of a rollout by hash takes the flag from nobody  *)
(* who has it, for any strategy, context and override: the buckets below   *)
(* the old percentage are below the new one.                               *)
(***************************************************************************)
Raises(f, g) ==
    /\ f # NoFlag /\ g # NoFlag /\ f.rollout.enabled
    /\ g = [f EXCEPT !.rollout.percent = g.rollout.percent]
    /\ g.rollout.percent > f.rollout.percent

RolloutOnlyGrows ==
    [][Raises(flag, flag') =>
          \A u \in FlagUsers, o \in FlagOrgs :
              Evaluated(flag, u, o) = {"on"} => Evaluated(flag', u, o) = {"on"}]_flagVars

(***************************************************************************)
(* When nothing changes any more, what is kept for a user becomes what the *)
(* rows give in some context of that user, and remains so, although no     *)
(* change reaches the invalidation and an evaluation may keep what it read *)
(* before a change.                                                        *)
(***************************************************************************)
FlagsConverge ==
    <>[](\A u \in FlagUsers :
            flag # NoFlag /\ flagCache[u].left > 0 /\ flag.status = "active" /\ ~flag.expired =>
                \E o \in FlagOrgs : flagCache[u].value \in Evaluated(flag, u, o))

(***************************************************************************)
(* The rule of FeatureFlagCreate.is_killswitch: a killswitch can instantly *)
(* disable a feature, so nobody is told any more that a disabled flag that *)
(* no override concerns is on.                                             *)
(***************************************************************************)
KillswitchIsInstant ==
    flag # NoFlag /\ ~flag.enabled /\ overrides = {} =>
        \A u \in FlagUsers : flagCache[u].left > 0 => flagCache[u].value # "on"
=============================================================================
