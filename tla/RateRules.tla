----------------------------- MODULE RateRules -----------------------------
(***************************************************************************)
(* The rate-limit rules an organization defines: RateLimitRuleService with *)
(* its two levels of cached rules, and RateLimitEnforcer with its sliding  *)
(* windows in Redis.                                                       *)
(*                                                                         *)
(* A step of a check is what runs between two awaits.  Time is kept as     *)
(* what is left of every cache entry; one RuleClock step is one tick of    *)
(* the windows.                                                            *)
(***************************************************************************)
EXTENDS Integers, FiniteSets

CONSTANTS
    Rules,          \* rule_ids; an id is used once
    RuleValues,     \* what a rule may say, see RuleMatches
    StartRules,     \* the rows when the server starts
    RuleCallers,    \* records with the user, api_key and endpoint of a check
    Checks,         \* concurrent checks
    Edits,          \* requests that create, update or delete a rule
    RuleTtl,        \* lifetime of cached rules (CACHE_TTL_RULES)
    MaxRuleFaults   \* bound of the model: errors of Redis

ASSUME RuleConstants ==
    /\ RuleTtl \in Nat \ {0}
    /\ MaxRuleFaults \in Nat
    /\ \A v \in RuleValues :
          /\ {"limit", "burst", "enabled"} \subseteq DOMAIN v
          /\ v.limit \in Nat \ {0} /\ v.burst \in Nat
    /\ \E S \in SUBSET Rules : StartRules \in [S -> RuleValues]

VARIABLES
    rules,       \* the rows: a function from the ids in use to values
    retired,     \* ids of deleted rows
    active,      \* the cache entry rl_rules:active:{org}
    resolved,    \* the cache entries rl_rules:resolve:{org}:...
    windows,     \* the sorted sets rl_sw:{rule}:{org}:{scope}[:burst]
    check,       \* what each check is doing
    edit,        \* what each change of the rules is doing
    ruleFaults

rulesVars == <<rules, retired, active, resolved, windows, check, edit, ruleFaults>>

---------------------------------------------------------------------------
(* What a rule is about.  value.target is "org" (or global), "user",       *)
(* "api_key" or "endpoint"; value.who the ids, or the endpoints of the     *)
(* pattern, it is for; burst 0 means none; action is what a refusal does.  *)

RuleMatches(value, caller) ==
    \/ value.target = "org"
    \/ value.target \in {"user", "api_key", "endpoint"} /\ caller[value.target] \in value.who

\* The highest priority wins; which of several, the database's order decides.
BestOf(list, caller) ==
    {r \in DOMAIN list :
        /\ RuleMatches(list[r], caller)
        /\ \A s \in DOMAIN list :
              RuleMatches(list[s], caller) => list[s].priority <= list[r].priority}

\* The part of the caller that the window of a rule depends on.
Scope(value, caller) == IF value.target = "org" THEN "all" ELSE caller[value.target]

Enabled == {r \in DOMAIN rules : rules[r].enabled}
ActiveRules == [r \in Enabled |-> rules[r]]

Scopes == {"all"} \cup UNION {{c.user, c.api_key, c.endpoint} : c \in RuleCallers}
WindowKeys == Rules \X Scopes \X {"main", "burst"}

(***************************************************************************)
(* A main window spans two ticks, a burst window one.  now and before are  *)
(* its entries by tick; peak is history: the largest limit under which an  *)
(* entry that is still in the window was added.                            *)
(***************************************************************************)
NoEntries == [now |-> 0, before |-> 0, peak |-> 0]
SlidingWindows == [now : Nat, before : Nat, peak : Nat]

RuleRows == RuleValues \cup {[v EXCEPT !.enabled = FALSE] : v \in RuleValues}
Lists == UNION {[S -> RuleRows] : S \in SUBSET Rules}
Match == [id : Rules, value : RuleRows, caller : RuleCallers]
Resting == [at |-> "idle"]
NoList  == [left |-> 0, list |-> << >>]
NoMatch == [left |-> 0]

RulesTypeOK ==
    /\ rules \in Lists
    /\ retired \in SUBSET (Rules \ DOMAIN rules)
    /\ active = NoList \/ active \in [left : 1..RuleTtl, list : Lists]
    /\ DOMAIN resolved = RuleCallers
    /\ \A c \in RuleCallers :
          resolved[c] = NoMatch \/ resolved[c] \in [left : 1..RuleTtl, match : Match]
    /\ windows \in [WindowKeys -> SlidingWindows]
    /\ check \in [Checks ->
           {Resting} \cup [at : {"active", "query"}, caller : RuleCallers]
                     \cup [at : {"storeActive"}, caller : RuleCallers, list : Lists]
                     \cup [at : {"storeMatch", "main"}, match : Match]
                     \cup [at : {"burst", "record"}, match : Match, allowed : BOOLEAN]]
    /\ edit \in [Edits -> {Resting} \cup [at : {"invalidate", "done"}]]
    /\ ruleFaults \in 0..MaxRuleFaults

---------------------------------------------------------------------------
(* Changes of the rules *)

\* A name that is taken is refused, by the check or by the unique constraint.
FreeName(name, self) == \A r \in DOMAIN rules \ {self} : rules[r].name # name

CreateRule(e) ==
    /\ edit[e] = Resting
    /\ \E r \in Rules \ (DOMAIN rules \cup retired), v \in RuleValues :
          /\ FreeName(v.name, r)
          /\ rules' = [s \in DOMAIN rules \cup {r} |-> IF s = r THEN v ELSE rules[s]]
    /\ edit' = [edit EXCEPT ![e] = [at |-> "invalidate"]]
    /\ UNCHANGED <<retired, active, resolved, windows, check, ruleFaults>>

UpdateRule(e) ==
    /\ edit[e] = Resting
    /\ \E r \in DOMAIN rules, v \in RuleValues :
          /\ v.target = rules[r].target /\ v.who = rules[r].who
          /\ FreeName(v.name, r)
          /\ rules' = [rules EXCEPT ![r] = v]
    /\ edit' = [edit EXCEPT ![e] = [at |-> "invalidate"]]
    /\ UNCHANGED <<retired, active, resolved, windows, check, ruleFaults>>

DeleteRule(e) ==
    /\ edit[e] = Resting
    /\ \E r \in DOMAIN rules :
          /\ rules' = [s \in DOMAIN rules \ {r} |-> rules[s]]
          /\ retired' = retired \cup {r}
    /\ edit' = [edit EXCEPT ![e] = [at |-> "invalidate"]]
    /\ UNCHANGED <<active, resolved, windows, check, ruleFaults>>

RuleFault == ruleFaults < MaxRuleFaults /\ ruleFaults' = ruleFaults + 1

\* Only the list of active rules is removed; an error of Redis is swallowed.
InvalidateRules(e) ==
    /\ edit[e].at = "invalidate"
    /\ \/ active' = NoList /\ UNCHANGED ruleFaults
       \/ RuleFault /\ UNCHANGED active
    /\ edit' = [edit EXCEPT ![e] = [at |-> "done"]]
    /\ UNCHANGED <<rules, retired, resolved, windows, check>>

\* expires_at passes: the query no longer returns the rule.
RuleExpires(r) ==
    /\ r \in DOMAIN rules /\ rules[r].enabled /\ rules[r].expires
    /\ rules' = [rules EXCEPT ![r].enabled = FALSE]
    /\ UNCHANGED <<retired, active, resolved, windows, check, edit, ruleFaults>>

\* reset_counter deletes the main window, not the burst window beside it.
ResetCounter(r, scope) ==
    /\ r \in DOMAIN rules
    /\ windows' = [windows EXCEPT ![<<r, scope, "main">>] = NoEntries]
    /\ UNCHANGED <<rules, retired, active, resolved, check, edit, ruleFaults>>

---------------------------------------------------------------------------
(* RateLimitEnforcer.check_rate_limit *)

To(k, state) == check' = [check EXCEPT ![k] = state]

\* resolve_rule asks for the rule resolved before ...
Resolve(k) ==
    /\ check[k] = Resting
    /\ \E c \in RuleCallers :
          \/ /\ resolved[c] # NoMatch
             /\ To(k, [at |-> "main", match |-> resolved[c].match])
             /\ UNCHANGED ruleFaults
          \/ /\ resolved[c] = NoMatch \/ RuleFault
             /\ To(k, [at |-> "active", caller |-> c])
             /\ resolved[c] = NoMatch => UNCHANGED ruleFaults
    /\ UNCHANGED <<rules, retired, active, resolved, windows, edit>>

\* A list leads to its best rule, or to no limit when none matches.
Choose(k, list, caller, next) ==
    \/ \E r \in BestOf(list, caller) :
          To(k, [at |-> next, match |-> [id |-> r, value |-> list[r], caller |-> caller]])
    \/ BestOf(list, caller) = {} /\ To(k, Resting)

\* ... then for the active rules, an empty list counting as a miss ...
Active(k) ==
    LET c   == check[k].caller
        hit == active # NoList /\ DOMAIN active.list # {}
    IN  /\ check[k].at = "active"
        /\ \/ hit /\ Choose(k, active.list, c, "storeMatch") /\ UNCHANGED ruleFaults
           \/ ~hit /\ To(k, [at |-> "query", caller |-> c]) /\ UNCHANGED ruleFaults
           \/ hit /\ RuleFault /\ To(k, [at |-> "query", caller |-> c])
        /\ UNCHANGED <<rules, retired, active, resolved, windows, edit>>

\* ... then the table.
Query(k) ==
    /\ check[k].at = "query"
    /\ To(k, [at |-> "storeActive", caller |-> check[k].caller, list |-> ActiveRules])
    /\ UNCHANGED <<rules, retired, active, resolved, windows, edit, ruleFaults>>

StoreActive(k) ==
    /\ check[k].at = "storeActive"
    /\ \/ /\ active' = [left |-> RuleTtl, list |-> check[k].list]
          /\ UNCHANGED ruleFaults
       \/ RuleFault /\ UNCHANGED active
    /\ Choose(k, check[k].list, check[k].caller, "storeMatch")
    /\ UNCHANGED <<rules, retired, resolved, windows, edit>>

StoreMatch(k) ==
    LET match == check[k].match IN
    /\ check[k].at = "storeMatch"
    /\ \/ /\ resolved' = [resolved EXCEPT ![match.caller] =
                              [left |-> RuleTtl, match |-> match]]
          /\ UNCHANGED ruleFaults
       \/ RuleFault /\ UNCHANGED resolved
    /\ To(k, [at |-> "main", match |-> match])
    /\ UNCHANGED <<rules, retired, active, windows, edit>>

KeyOf(match, kind) == <<match.id, Scope(match.value, match.caller), kind>>
Size(w) == w.now + w.before

\* SLIDING_WINDOW_CHECK_SCRIPT: the entry is added if there is room for it.
\* Mutant: the limit itself still has room.
HasRoomAtLimit(w, limit) == Size(w) <= limit
HasRoom(w, limit) == Size(w) < limit
Enter(w, limit) ==
    IF HasRoom(w, limit)
    THEN [w EXCEPT !.now = @ + 1, !.peak = IF @ < limit THEN limit ELSE @]
    ELSE w

\* _sliding_window_check: the script's answer, or yes when Redis fails, before
\* the script has run or after.  The commands one by one behind it
\* (rate_limit_enforcer.py:199-216) are for a script that cannot be registered;
\* registering it asks nothing of Redis, and without a client they count nothing.
Slide(key, limit, ok) ==
    \/ /\ windows' = [windows EXCEPT ![key] = Enter(@, limit)]
       /\ ok = HasRoom(windows[key], limit)
       /\ UNCHANGED ruleFaults
    \/ /\ RuleFault /\ ok
       /\ \/ windows' = [windows EXCEPT ![key] = Enter(@, limit)]
          \/ UNCHANGED windows

CheckMain(k) ==
    LET match == check[k].match IN
        /\ check[k].at = "main"
        /\ \E ok \in BOOLEAN :
             /\ Slide(KeyOf(match, "main"), match.value.limit, ok)
             /\ To(k, [at |-> IF match.value.burst > 0 THEN "burst" ELSE "record",
                       match |-> match, allowed |-> ok])
        /\ UNCHANGED <<rules, retired, active, resolved, edit>>

\* The burst window is charged even when the main one has refused.
CheckBurst(k) ==
    LET match == check[k].match IN
        /\ check[k].at = "burst"
        /\ \E ok \in BOOLEAN :
             /\ Slide(KeyOf(match, "burst"), match.value.burst, ok)
             /\ To(k, [at |-> "record", match |-> match,
                       allowed |-> check[k].allowed /\ ok])
        /\ UNCHANGED <<rules, retired, active, resolved, edit>>

\* record_check writes the history, or fails and is ignored; the caller goes on,
\* unless both windows' answer was no and the rule's action is to reject.
Record(k) ==
    /\ check[k].at = "record"
    /\ To(k, Resting)
    /\ UNCHANGED <<rules, retired, active, resolved, windows, edit, ruleFaults>>

---------------------------------------------------------------------------
Tick(w) == IF w.now = 0 THEN NoEntries ELSE [w EXCEPT !.now = 0, !.before = w.now]
TickBurst(w) == NoEntries

\* Mutant of AgedMatch: the entry is set without a lifetime.
MatchForEver(entry) == entry

AgedMatch(entry) == IF entry.left <= 1 THEN NoMatch ELSE [entry EXCEPT !.left = @ - 1]

RuleClock ==
    /\ active' = IF active.left <= 1 THEN NoList ELSE [active EXCEPT !.left = @ - 1]
    /\ resolved' = [c \in RuleCallers |-> AgedMatch(resolved[c])]
    /\ windows' = [key \in WindowKeys |->
                      IF key[3] = "main" THEN Tick(windows[key])
                                         ELSE TickBurst(windows[key])]
    /\ UNCHANGED <<rules, retired, check, edit, ruleFaults>>

InitRules ==
    /\ rules = StartRules
    /\ retired = {}
    /\ active = NoList
    /\ resolved = [c \in RuleCallers |-> NoMatch]
    /\ windows = [key \in WindowKeys |-> NoEntries]
    /\ check = [k \in Checks |-> Resting]
    /\ edit = [e \in Edits |-> Resting]
    /\ ruleFaults = 0

CheckStep(k) ==
    \/ Active(k) \/ Query(k) \/ StoreActive(k) \/ StoreMatch(k)
    \/ CheckMain(k) \/ CheckBurst(k) \/ Record(k)

NextRules ==
    \/ RuleClock
    \/ \E e \in Edits : CreateRule(e) \/ UpdateRule(e) \/ DeleteRule(e) \/ InvalidateRules(e)
    \/ \E r \in Rules : RuleExpires(r) \/ \E s \in Scopes : ResetCounter(r, s)
    \/ \E k \in Checks : Resolve(k) \/ CheckStep(k)

RulesFairness ==
    /\ WF_rulesVars(RuleClock)
    /\ \A k \in Checks : WF_rulesVars(CheckStep(k))
    /\ \A e \in Edits : WF_rulesVars(InvalidateRules(e))

RulesSpec == InitRules /\ [][NextRules]_rulesVars
FairRulesSpec == RulesSpec /\ RulesFairness

---------------------------------------------------------------------------
(***************************************************************************)
(* A window never holds more entries than the largest limit under which    *)
(* one of them was added, whatever checks run at once, whichever rule they *)
(* resolved from whichever cache, and wherever Redis failed.               *)
(***************************************************************************)
WindowsWithinLimit == \A key \in WindowKeys : Size(windows[key]) <= windows[key].peak

RulesInv == RulesTypeOK /\ WindowsWithinLimit

(***************************************************************************)
(* When the rules no longer change, the cached list and the rules resolved *)
(* from it become those of the table and remain so, though a change of a   *)
(* rule removes neither the resolved rules nor the list that a check in    *)
(* progress is about to store.                                             *)
(***************************************************************************)
RulesConverge ==
    <>[](/\ active # NoList => active.list = ActiveRules
         /\ \A c \in RuleCallers : resolved[c] # NoMatch =>
                /\ resolved[c].match.id \in BestOf(ActiveRules, c)
                /\ resolved[c].match.value = rules[resolved[c].match.id])
=============================================================================
