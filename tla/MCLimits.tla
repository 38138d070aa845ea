----------------------------- MODULE MCLimits ------------------------------
(***************************************************************************)
(* The two kinds of rate limit share no state.  A behavior of this module  *)
(* is one of RateLimiter or one of RateRules, the other at rest, so that   *)
(* TLC explores the sum of their states and not the product.               *)
(***************************************************************************)
EXTENDS RateLimiter, RateRules

VARIABLE focus

TwoOfType == [t \in Types |-> 2]
Paths     == {<<"POST", <<"threads", "t", "runs">>>>, <<"GET", <<"health">>>>}

ForAll == [name |-> "all", target |-> "org", who |-> {}, limit |-> 1, burst |-> 0,
           priority |-> 1, enabled |-> TRUE, expires |-> TRUE]
ForAnn == [name |-> "ann", target |-> "user", who |-> {"ann"}, limit |-> 2, burst |-> 1,
           priority |-> 2, enabled |-> TRUE, expires |-> FALSE]
Values == {ForAll, ForAnn, [ForAnn EXCEPT !.limit = 1]}
RuleIds == {"r1", "r2"}
Start1  == [r \in {"r1"} |-> ForAnn]
Ann     == {[user |-> "ann", api_key |-> "key", endpoint |-> "runs"]}

MCInit == InitLimiter /\ InitRules /\ focus \in {"limiter", "rules"}

MCNext ==
    \/ focus = "limiter" /\ NextLimiter /\ UNCHANGED <<rulesVars, focus>>
    \/ focus = "rules" /\ NextRules /\ UNCHANGED <<limiterVars, focus>>

MCSpec ==
    /\ MCInit /\ [][MCNext]_<<limiterVars, rulesVars, focus>>
    /\ focus = "rules" => RulesFairness
============================================================================
