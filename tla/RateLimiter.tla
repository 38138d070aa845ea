---------------------------- MODULE RateLimiter ----------------------------
(***************************************************************************)
(* The fixed-window rate limit every request passes: RateLimitMiddleware   *)
(* and RateLimiterManager with its counters in Redis or in memory.         *)
(*                                                                         *)
(* An organization has the limits of the endpoints like everybody else:    *)
(* the middleware asks QuotaService for its own, which finds nothing in    *)
(* the cache and opens a session with a method DatabaseManager does not    *)
(* have (quota_service.py:183); the middleware swallows the error          *)
(* (rate_limit.py:253).  Nothing ever fills that cache, and the endpoints  *)
(* that would change the limits fail in the same way (api/quotas.py:53).   *)
(*                                                                         *)
(* A step is what a handler does between two awaits.  Time is kept as what *)
(* is left of every window; Clock takes one unit off all.                  *)
(***************************************************************************)
EXTENDS Integers, FiniteSets, SequencesExt

CONSTANTS
    Callers,        \* kinds of base key: "org", "user" or "ip"
    Endpoints,      \* requests as <<method, path>>, a path being its segments
    LimitRequests,  \* the requests inside the middleware
    TypeLimit,      \* ENDPOINT_TYPE_LIMITS
    AnonFloor,      \* least limit of an address (20)
    Fallback,       \* RATE_LIMIT_FALLBACK: "error" or "skip"
    Window,         \* length of a window (RATE_LIMIT_WINDOW)
    MaxCount,       \* bound of the model: a counter stops here
    MaxFaults       \* bound of the model: errors of Redis

VARIABLES
    mode,      \* what initialize() chose, "down" before it and after close()
    redis,     \* the counters rate_limit:{key}:{window}
    memory,    \* InMemoryRateLimiter._counters
    request,   \* what each request inside the middleware is doing
    limitFaults

limiterVars == <<mode, redis, memory, request, limitFaults>>

Types  == {"read", "write", "runs", "streaming"}
Keys   == Types \X Callers

ASSUME LimiterConstants ==
    /\ Window \in Nat \ {0} /\ AnonFloor \in Nat
    /\ MaxCount \in Nat \ {0} /\ MaxFaults \in Nat
    /\ TypeLimit \in [Types -> Nat]

\* served and free are history: how many requests the window let in, and how
\* many of them passed because Redis failed.
NoWindow == [left |-> 0, count |-> 0, served |-> 0, free |-> 0]
Windows  == [left : 0..Window, count : 0..MaxCount, served : 0..MaxCount,
             free : 0..MaxFaults]

Idle == [at |-> "idle"]

LimiterTypeOK ==
    /\ mode \in {"down", "off", "memory", "redis"}
    /\ redis \in [Keys -> Windows]
    /\ memory \in [Keys -> Windows]
    /\ request \in [LimitRequests ->
           {Idle} \cup [at : {"lookup", "count"}, key : Keys]
                  \cup [at : {"served", "refused", "unavailable"}]]
    /\ limitFaults \in 0..MaxFaults

---------------------------------------------------------------------------
(* What a request is charged for *)

EmptyPath == <<>>

\* Health, documentation, metrics and static files are not counted.
Skipped(path) == path # EmptyPath /\ path[1] \in {"health", "docs", "metrics", "static"}

\* A path is an endpoint's when it ends with it or, at the root, begins with it.
Matches(path, endpoint) == IsSuffix(endpoint, path) \/ IsPrefix(endpoint, path)

EndpointType(method, path) ==
    LET streaming == Matches(path, <<"runs", "stream">>) \/ Matches(path, <<"runs", "wait">>)
        post == method = "POST"
    IN  CASE post /\ streaming -> "streaming"
          [] post /\ ~streaming /\ Matches(path, <<"runs">>) -> "runs"
          [] post /\ ~streaming /\ ~Matches(path, <<"runs">>) -> "write"
          [] method \in {"PUT", "DELETE", "PATCH"} -> "write"
          [] OTHER -> "read"

\* The limit of a key: that of the endpoint's type, an address gets a fifth.
LimitOf(key) ==
    IF key[2] = "ip" THEN Max({AnonFloor, TypeLimit[key[1]] \div 5})
                     ELSE TypeLimit[key[1]]

---------------------------------------------------------------------------
(* Start and stop *)

\* initialize(): Redis answers, or it does not, or slowapi is missing.
Start ==
    /\ mode = "down"
    /\ \/ mode' = "redis"
       \/ mode' = "off"
       \/ Fallback = "error" /\ mode' = "memory"
    /\ UNCHANGED <<redis, memory, request, limitFaults>>

\* close(), and everything in flight ends; what is in Redis stays, and the next
\* server goes on with it.
Stop ==
    /\ mode # "down"
    /\ mode' = "down"
    /\ memory' = [k \in Keys |-> NoWindow]
    /\ request' = [q \in LimitRequests |-> Idle]
    /\ UNCHANGED <<redis, limitFaults>>

Aged(w) == IF w.left <= 1 THEN NoWindow ELSE [w EXCEPT !.left = @ - 1]

Clock ==
    /\ redis' = [k \in Keys |-> Aged(redis[k])]
    /\ memory' = [k \in Keys |-> Aged(memory[k])]
    /\ UNCHANGED <<mode, request, limitFaults>>

Fault == limitFaults < MaxFaults /\ limitFaults' = limitFaults + 1

---------------------------------------------------------------------------
(* A request in the middleware *)

Goto(q, state) == request' = [request EXCEPT ![q] = state]

Arrive(q) ==
    /\ mode # "down" /\ request[q] = Idle
    /\ \E e \in Endpoints, caller \in Callers :
          LET key == <<EndpointType(e[1], e[2]), caller>> IN
          /\ ~Skipped(e[2])
          /\ IF mode = "off"
             THEN Goto(q, [at |-> IF Fallback = "error" THEN "unavailable"
                                                        ELSE "served"])
             ELSE Goto(q, [at |-> IF caller = "org" THEN "lookup" ELSE "count",
                           key |-> key])
    /\ UNCHANGED <<mode, redis, memory, limitFaults>>

\* _get_org_limits: the cache has no entry, reading the row raises, and the
\* request goes on without limits of its organization.
Lookup(q) ==
    /\ request[q].at = "lookup"
    /\ Goto(q, [at |-> "count", key |-> request[q].key])
    /\ UNCHANGED <<mode, redis, memory, limitFaults>>

\* Mutant: compared before it is counted.
WithinBefore(count, limit) == count - 1 <= limit
\* A request is within its limit when its own count is.
Within(count, limit) == count <= limit

\* INCR, with EXPIRE when the counter is new, in one script.
Counted(w) == IF w.left = 0 THEN [NoWindow EXCEPT !.left = Window, !.count = 1]
              ELSE [w EXCEPT !.count = Min({MaxCount, @ + 1})]

Admit(w) == [w EXCEPT !.served = Min({MaxCount, @ + 1})]

CountInRedis(q) ==
    LET key   == request[q].key
        next  == Counted(redis[key])
    IN  /\ request[q].at = "count" /\ mode = "redis"
        /\ IF Within(next.count, LimitOf(key))
           THEN /\ redis' = [redis EXCEPT ![key] = Admit(next)]
                /\ Goto(q, [at |-> "served"])
           ELSE /\ redis' = [redis EXCEPT ![key] = next]
                /\ Goto(q, [at |-> "refused"])
        /\ UNCHANGED <<mode, memory, limitFaults>>

\* _increment_counter swallows the error and returns 0, which is within any limit.
\* The script may have run before the connection broke.
CountFails(q) ==
    LET key == request[q].key
        Passed(w) == [Admit(w) EXCEPT !.free = Min({MaxFaults, @ + 1})]
    IN  /\ request[q].at = "count" /\ mode = "redis"
        /\ Fault
        /\ \/ redis' = [redis EXCEPT ![key] = Passed(Counted(@))]
           \/ redis[key].left > 0 /\ redis' = [redis EXCEPT ![key] = Passed(@)]
           \/ redis[key].left = 0 /\ UNCHANGED redis
        /\ Goto(q, [at |-> "served"])
        /\ UNCHANGED <<mode, memory>>

\* The first request of a window is let in whatever the limit.
CountInMemory(q) ==
    LET key   == request[q].key
        next  == Counted(memory[key])
    IN  /\ request[q].at = "count" /\ mode = "memory"
        /\ IF memory[key].left = 0 \/ Within(next.count, LimitOf(key))
           THEN /\ memory' = [memory EXCEPT ![key] = Admit(next)]
                /\ Goto(q, [at |-> "served"])
           ELSE /\ memory' = [memory EXCEPT ![key] = next]
                /\ Goto(q, [at |-> "refused"])
        /\ UNCHANGED <<mode, redis, limitFaults>>

Leave(q) ==
    /\ request[q].at \in {"served", "refused", "unavailable"}
    /\ Goto(q, Idle)
    /\ UNCHANGED <<mode, redis, memory, limitFaults>>

---------------------------------------------------------------------------
InitLimiter ==
    /\ mode = "down"
    /\ redis = [k \in Keys |-> NoWindow]
    /\ memory = [k \in Keys |-> NoWindow]
    /\ request = [q \in LimitRequests |-> Idle]
    /\ limitFaults = 0

NextLimiter ==
    \/ Start \/ Stop \/ Clock
    \/ \E q \in LimitRequests :
          \/ Arrive(q) \/ Lookup(q) \/ CountInRedis(q) \/ CountFails(q)
          \/ CountInMemory(q) \/ Leave(q)

LimiterSpec == InitLimiter /\ [][NextLimiter]_limiterVars

---------------------------------------------------------------------------
(***************************************************************************)
(* No window lets in more requests than its limit, but for those that pass *)
(* because Redis failed, and the counter in memory, which lets in the      *)
(* first whatever the limit.  At stake are the order of counting and       *)
(* comparing (check_limit), requests before and after a restart that meet  *)
(* in one window, and a script that has run although its answer is lost.   *)
(***************************************************************************)
WithinLimit ==
    \A k \in Keys :
        /\ redis[k].served <= LimitOf(k) + redis[k].free
        /\ memory[k].served <= Max({LimitOf(k), 1})

(***************************************************************************)
(* A window that has not served its limit has served all it counted: a     *)
(* request is refused by a full window only, though refused requests count *)
(* as well (check_limit) and some are counted by a script that then fails. *)
(***************************************************************************)
RefusedWhenFull ==
    \A k \in Keys : \A w \in {redis[k], memory[k]} :
        w.served < LimitOf(k) => w.count <= w.served

LimiterInv == LimiterTypeOK /\ WithinLimit /\ RefusedWhenFull
=============================================================================
