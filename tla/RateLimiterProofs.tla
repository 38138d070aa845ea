-------------------------- MODULE RateLimiterProofs --------------------------
(***************************************************************************)
(* The fixed windows of RateLimiterManager and the sliding windows of the  *)
(* rules, for any callers, endpoints, limits, rules, changes of them and   *)
(* numbers of requests: a fixed window lets in its limit, no more and no   *)
(* less, a sliding one no more than the largest limit under which it       *)
(* admitted a request that is still in it.                                 *)
(***************************************************************************)
EXTENDS RateLimiter, RateRules, TLAPS

(***************************************************************************)
(* Why: what a window has served it has counted before, or Redis failed.   *)
(***************************************************************************)
CountedFirst ==
    \A k \in Keys :
        /\ redis[k].served <= redis[k].count + redis[k].free
        /\ redis[k].free <= limitFaults
        /\ memory[k].served <= memory[k].count

LimiterIInv == LimiterInv /\ CountedFirst

---------------------------------------------------------------------------
(* Arithmetic                                                              *)

LEMMA PairMax ==
    ASSUME NEW a \in Int, NEW b \in Int
    PROVE  Max({a, b}) = IF a >= b THEN a ELSE b
<1> DEFINE m == IF a >= b THEN a ELSE b
<1>1. m \in {a, b} /\ \A y \in {a, b} : m >= y
  OBVIOUS
<1>2. Max({a, b}) \in {a, b} /\ \A y \in {a, b} : Max({a, b}) >= y
  BY <1>1 DEF Max
<1> QED BY <1>1, <1>2

LEMMA PairMin ==
    ASSUME NEW a \in Int, NEW b \in Int
    PROVE  Min({a, b}) = IF a <= b THEN a ELSE b
<1> DEFINE m == IF a <= b THEN a ELSE b
<1>1. m \in {a, b} /\ \A y \in {a, b} : m =< y
  OBVIOUS
<1>2. Min({a, b}) \in {a, b} /\ \A y \in {a, b} : Min({a, b}) =< y
  BY <1>1 DEF Min
<1> QED BY <1>1, <1>2

---------------------------------------------------------------------------
(* Limits                                                                  *)

LEMMA LimitTyped ==
    ASSUME NEW key \in Keys
    PROVE  LimitOf(key) \in Nat
<1>1. key[1] \in Types
  BY DEF Keys
<1>2. TypeLimit[key[1]] \in Nat /\ TypeLimit[key[1]] \div 5 \in Nat /\ AnonFloor \in Nat
  BY <1>1, LimiterConstants
<1> QED BY <1>2, PairMax DEF LimitOf

LEMMA EndpointTyped ==
    ASSUME NEW method, NEW path
    PROVE  EndpointType(method, path) \in Types
BY DEF EndpointType, Types

---------------------------------------------------------------------------
(* Windows                                                                 *)

\* What holds of a window in Redis, and of one in memory.
WindowSound(w, limit) ==
    /\ w.served <= w.count + w.free /\ w.served <= limit + w.free
    /\ w.served < limit => w.count <= w.served

MemorySound(w, limit) ==
    /\ w.served <= w.count /\ w.served <= Max({limit, 1})
    /\ w.served < limit => w.count <= w.served

\* A window that has counted a request and not yet answered it.
Counting(w, limit) ==
    /\ w.served <= w.count + w.free /\ w.served <= limit + w.free
    /\ w.served < limit => w.count <= w.served + 1

LEMMA WindowFields ==
    ASSUME NEW w \in Windows
    PROVE  /\ w.left \in Nat /\ w.count \in 0..MaxCount /\ w.served \in 0..MaxCount
           /\ w.free \in 0..MaxFaults
           /\ w.count \in Nat /\ w.served \in Nat /\ w.free \in Nat
           /\ MaxCount \in Nat \ {0} /\ MaxFaults \in Nat
BY LimiterConstants DEF Windows

LEMMA NoWindowTyped ==
    /\ NoWindow \in Windows
    /\ NoWindow.count = 0 /\ NoWindow.served = 0 /\ NoWindow.free = 0
BY LimiterConstants DEF NoWindow, Windows

LEMMA AgedTyped ==
    ASSUME NEW w \in Windows
    PROVE  /\ Aged(w) \in Windows
           /\ Aged(w) = NoWindow
              \/ /\ Aged(w).served = w.served /\ Aged(w).count = w.count
                 /\ Aged(w).free = w.free
BY NoWindowTyped, LimiterConstants DEF Aged, Windows

\* The script counts the request in a window it opens if there is none.
LEMMA CountedTyped ==
    ASSUME NEW w \in Windows
    PROVE  /\ Counted(w) \in Windows
           /\ w.left = 0 => /\ Counted(w).count = 1 /\ Counted(w).served = 0
                            /\ Counted(w).free = 0
           /\ w.left # 0 => /\ Counted(w).count = (IF w.count < MaxCount THEN w.count + 1
                                                   ELSE MaxCount)
                            /\ Counted(w).served = w.served /\ Counted(w).free = w.free
<1>1. CASE w.left = 0
  <2>1. Counted(w) = [left |-> Window, count |-> 1, served |-> 0, free |-> 0]
    BY <1>1 DEF Counted, NoWindow
  <2> QED BY <1>1, <2>1, LimiterConstants DEF Windows
<1>2. CASE w.left # 0
  <2> DEFINE n == Min({MaxCount, w.count + 1})
  <2>1. n = (IF w.count < MaxCount THEN w.count + 1 ELSE MaxCount) /\ n \in 0..MaxCount
    BY PairMin, LimiterConstants DEF Windows
  <2>2. Counted(w) = [w EXCEPT !.count = n]
    BY <1>2 DEF Counted
  <2> HIDE DEF n
  <2> QED BY <1>2, <2>1, <2>2 DEF Windows
<1> QED BY <1>1, <1>2

\* Letting a request in.
LEMMA AdmitTyped ==
    ASSUME NEW w \in Windows
    PROVE  /\ Admit(w) \in Windows
           /\ Admit(w).served = (IF w.served < MaxCount THEN w.served + 1 ELSE MaxCount)
           /\ Admit(w).count = w.count /\ Admit(w).free = w.free
<1> DEFINE n == Min({MaxCount, w.served + 1})
<1>1. n = (IF w.served < MaxCount THEN w.served + 1 ELSE MaxCount) /\ n \in 0..MaxCount
  BY PairMin, LimiterConstants DEF Windows
<1>2. Admit(w) = [w EXCEPT !.served = n]
  BY DEF Admit
<1> HIDE DEF n
<1> QED BY <1>1, <1>2 DEF Windows

\* Letting one pass because Redis failed.
PassedBy(w) == [Admit(w) EXCEPT !.free = Min({MaxFaults, @ + 1})]

LEMMA PassedByTyped ==
    ASSUME NEW w \in Windows, w.free < MaxFaults
    PROVE  /\ PassedBy(w) \in Windows
           /\ PassedBy(w).served = (IF w.served < MaxCount THEN w.served + 1 ELSE MaxCount)
           /\ PassedBy(w).free = w.free + 1 /\ PassedBy(w).count = w.count
<1> DEFINE u == Admit(w)
           m == Min({MaxFaults, u.free + 1})
<1>1. /\ u \in Windows /\ u.served = (IF w.served < MaxCount THEN w.served + 1 ELSE MaxCount)
      /\ u.count = w.count /\ u.free = w.free
  BY AdmitTyped
<1>2. PassedBy(w) = [u EXCEPT !.free = m]
  BY DEF PassedBy
<1> HIDE DEF u
<1>3. m = w.free + 1 /\ m \in 0..MaxFaults
  BY <1>1, PairMin, WindowFields
<1> HIDE DEF m
<1> QED BY <1>1, <1>2, <1>3 DEF Windows

\* Counting keeps a window sound, whether or not the request is then admitted in.
LEMMA CountingSound ==
    ASSUME NEW w \in Windows, NEW limit \in Nat, WindowSound(w, limit)
    PROVE  /\ Counted(w) \in Windows /\ Counting(Counted(w), limit)
           /\ Counted(w).free <= w.free
           /\ Within(Counted(w).count, limit) => WindowSound(Admit(Counted(w)), limit)
           /\ ~Within(Counted(w).count, limit) => WindowSound(Counted(w), limit)
<1> DEFINE next == Counted(w)
           admitted == Admit(next)
<1>1. /\ next \in Windows
      /\ w.left = 0 => next.count = 1 /\ next.served = 0 /\ next.free = 0
      /\ w.left # 0 => /\ next.count = (IF w.count < MaxCount THEN w.count + 1 ELSE MaxCount)
                       /\ next.served = w.served /\ next.free = w.free
  BY CountedTyped
<1>2. /\ admitted.served = (IF next.served < MaxCount THEN next.served + 1 ELSE MaxCount)
      /\ admitted.count = next.count /\ admitted.free = next.free
  BY <1>1, AdmitTyped
<1>3. /\ w.served \in 0..MaxCount /\ w.count \in 0..MaxCount /\ w.free \in Nat
      /\ next.served \in 0..MaxCount /\ next.count \in 0..MaxCount /\ next.free \in Nat
      /\ MaxCount \in Nat \ {0}
  BY <1>1, WindowFields
<1>4. /\ w.served <= w.count + w.free /\ w.served <= limit + w.free
      /\ w.served < limit => w.count <= w.served
  BY DEF WindowSound
<1> HIDE DEF next, admitted
<1>5. Counting(next, limit) /\ next.free <= w.free
  BY <1>1, <1>3, <1>4 DEF Counting
<1>6. ASSUME next.count <= limit PROVE WindowSound(admitted, limit)
  <2>1. CASE w.left = 0
    BY <1>1, <1>2, <1>3, <1>6, <2>1 DEF WindowSound
  <2>2. CASE w.left # 0
    BY <1>1, <1>2, <1>3, <1>4, <1>6, <2>2 DEF WindowSound
  <2> QED BY <2>1, <2>2
<1>7. ASSUME ~(next.count <= limit) PROVE WindowSound(next, limit)
  BY <1>1, <1>3, <1>4, <1>7 DEF WindowSound
<1> QED BY <1>1, <1>5, <1>6, <1>7 DEF Within, next, admitted

LEMMA PassingSound ==
    ASSUME NEW w \in Windows, NEW limit \in Nat, Counting(w, limit), w.free < MaxFaults
    PROVE  WindowSound(PassedBy(w), limit)
<1> DEFINE u == PassedBy(w)
<1>1. /\ u.served = (IF w.served < MaxCount THEN w.served + 1 ELSE MaxCount)
      /\ u.free = w.free + 1 /\ u.count = w.count
  BY PassedByTyped
<1> HIDE DEF u
<1>2. WindowSound(u, limit)
  BY <1>1, WindowFields DEF WindowSound, Counting
<1> QED BY <1>2 DEF u

---------------------------------------------------------------------------
(* Steps                                                                   *)

RequestStates ==
    {Idle} \cup [at : {"lookup", "count"}, key : Keys]
           \cup [at : {"served", "refused", "unavailable"}]

LimiterTypes ==
    /\ mode \in {"down", "off", "memory", "redis"}
    /\ redis \in [Keys -> Windows] /\ memory \in [Keys -> Windows]
    /\ request \in [LimitRequests -> RequestStates]
    /\ limitFaults \in 0..MaxFaults

AllSound ==
    \A k \in Keys :
        /\ WindowSound(redis[k], LimitOf(k)) /\ redis[k].free <= limitFaults
        /\ MemorySound(memory[k], LimitOf(k))

LEMMA Named == LimiterIInv <=> LimiterTypes /\ AllSound
<1>1. LimiterTypeOK <=> LimiterTypes
  BY DEF LimiterTypeOK, LimiterTypes, RequestStates
<1>2. WithinLimit /\ RefusedWhenFull /\ CountedFirst <=> AllSound
  BY DEF WithinLimit, RefusedWhenFull, CountedFirst, AllSound, WindowSound, MemorySound
<1> QED BY <1>1, <1>2 DEF LimiterIInv, LimiterInv

LEMMA NamedAfter == LimiterIInv' <=> LimiterTypes' /\ AllSound'
<1>1. LimiterTypeOK' <=> LimiterTypes'
  BY DEF LimiterTypeOK, LimiterTypes, RequestStates
<1>2. WithinLimit' /\ RefusedWhenFull' /\ CountedFirst' <=> AllSound'
  BY DEF WithinLimit, RefusedWhenFull, CountedFirst, AllSound, WindowSound, MemorySound
<1> QED BY <1>1, <1>2 DEF LimiterIInv, LimiterInv

\* What the states of a request carry.
LEMMA RequestTypes ==
    ASSUME NEW x \in RequestStates
    PROVE  x.at \in {"lookup", "count"} => x.key \in Keys
BY DEF RequestStates, Idle

LEMMA PlainStates ==
    /\ Idle \in RequestStates
    /\ \A s \in {"served", "refused", "unavailable"} : [at |-> s] \in RequestStates
    /\ \A s \in {"lookup", "count"}, key \in Keys : [at |-> s, key |-> key] \in RequestStates
BY DEF RequestStates

LEMMA FaultsTyped ==
    LimiterIInv => limitFaults \in 0..MaxFaults /\ limitFaults \in Nat /\ MaxFaults \in Nat
BY Named, LimiterConstants DEF LimiterTypes

\* What is known of the windows of a key.
LEMMA WindowsOf ==
    ASSUME LimiterIInv, NEW key \in Keys
    PROVE  /\ redis[key] \in Windows /\ WindowSound(redis[key], LimitOf(key))
           /\ redis[key].free <= limitFaults
           /\ memory[key] \in Windows /\ MemorySound(memory[key], LimitOf(key))
BY Named DEF LimiterTypes, AllSound

\* A request that moves without counting.
LEMMA MovePreserves ==
    ASSUME LimiterIInv, NEW q \in LimitRequests, NEW state \in RequestStates, Goto(q, state),
           UNCHANGED <<mode, redis, memory>>,
           limitFaults' \in 0..MaxFaults, limitFaults <= limitFaults'
    PROVE  LimiterIInv'
<1>1. LimiterTypes'
  BY Named DEF LimiterTypes, Goto
<1>2. AllSound'
  <2>1. \A k \in Keys : redis[k].free \in Nat
    BY WindowsOf, WindowFields
  <2> QED BY <2>1, Named, FaultsTyped, LimiterConstants DEF AllSound
<1> QED BY <1>1, <1>2, NamedAfter

\* A request that is counted in Redis, or passes because that fails.
LEMMA RedisPreserves ==
    ASSUME LimiterIInv, NEW q \in LimitRequests, NEW state \in RequestStates, Goto(q, state),
           NEW key \in Keys, NEW w \in Windows, WindowSound(w, LimitOf(key)),
           w.free <= limitFaults', redis' = [redis EXCEPT ![key] = w],
           UNCHANGED <<mode, memory>>,
           limitFaults' \in 0..MaxFaults, limitFaults <= limitFaults'
    PROVE  LimiterIInv'
<1>1. LimiterTypes'
  BY Named DEF LimiterTypes, Goto
<1>2. \A k \in Keys : redis'[k] = IF k = key THEN w ELSE redis[k]
  BY Named DEF LimiterTypes
<1>3. AllSound'
  <2>1. \A k \in Keys : redis[k].free \in Nat
    BY WindowsOf, WindowFields
  <2>2. limitFaults \in Nat /\ limitFaults' \in Nat
    BY FaultsTyped
  <2> QED BY <1>2, <2>1, <2>2, Named DEF AllSound
<1> QED BY <1>1, <1>3, NamedAfter

LEMMA CountInRedisSound ==
    ASSUME LimiterIInv, NEW q \in LimitRequests, CountInRedis(q)
    PROVE  LimiterIInv'
<1> DEFINE key   == request[q].key
           limit == LimitOf(key)
           next  == Counted(redis[key])
<1>1. key \in Keys
  BY Named, RequestTypes DEF CountInRedis, LimiterTypes
<1>2. limit \in Nat
  BY <1>1, LimitTyped
<1>3. redis[key] \in Windows /\ WindowSound(redis[key], limit) /\ redis[key].free <= limitFaults
  BY <1>1, WindowsOf
<1>4. /\ next \in Windows /\ next.free <= redis[key].free
      /\ Within(next.count, limit) => WindowSound(Admit(next), limit)
      /\ ~Within(next.count, limit) => WindowSound(next, limit)
  BY <1>2, <1>3, CountingSound
<1>5. UNCHANGED <<mode, memory>> /\ limitFaults' = limitFaults
  BY DEF CountInRedis
<1>6. limitFaults' \in 0..MaxFaults /\ limitFaults <= limitFaults'
  BY <1>5, FaultsTyped
<1>7. next.free <= limitFaults'
  <2> HIDE DEF next
  <2> QED BY <1>3, <1>4, <1>5, WindowFields, FaultsTyped
<1>8. CASE Within(next.count, limit)
  <2>1. redis' = [redis EXCEPT ![key] = Admit(next)] /\ Goto(q, [at |-> "served"])
    BY <1>8 DEF CountInRedis
  <2>2. Admit(next) \in Windows /\ Admit(next).free <= limitFaults'
    BY <1>4, <1>7, AdmitTyped
  <2> HIDE DEF key, next
  <2> QED BY <1>1, <1>4, <1>5, <1>6, <1>8, <2>1, <2>2, PlainStates, RedisPreserves
<1>9. CASE ~Within(next.count, limit)
  <2>1. redis' = [redis EXCEPT ![key] = next] /\ Goto(q, [at |-> "refused"])
    BY <1>9 DEF CountInRedis
  <2> HIDE DEF key, next
  <2> QED BY <1>1, <1>4, <1>5, <1>6, <1>7, <1>9, <2>1, PlainStates, RedisPreserves
<1> QED BY <1>8, <1>9

LEMMA CountFailsSound ==
    ASSUME LimiterIInv, NEW q \in LimitRequests, CountFails(q)
    PROVE  LimiterIInv'
<1> DEFINE key   == request[q].key
           limit == LimitOf(key)
<1>1. key \in Keys
  BY Named, RequestTypes DEF CountFails, LimiterTypes
<1>2. limit \in Nat
  BY <1>1, LimitTyped
<1>3. limitFaults < MaxFaults /\ limitFaults' = limitFaults + 1 /\ Goto(q, [at |-> "served"])
      /\ UNCHANGED <<mode, memory>>
  BY DEF CountFails, Fault
<1>4. limitFaults' \in 0..MaxFaults /\ limitFaults <= limitFaults' /\ limitFaults' \in Nat
  BY <1>3, FaultsTyped
<1>5. [at |-> "served"] \in RequestStates
  BY PlainStates
<1>6. ASSUME NEW v \in Windows, Counting(v, limit), v.free <= limitFaults,
             redis' = [redis EXCEPT ![key] = PassedBy(v)]
      PROVE  LimiterIInv'
  <2>1. v.free < MaxFaults
    BY <1>3, <1>6, WindowFields, FaultsTyped
  <2>2. PassedBy(v) \in Windows /\ PassedBy(v).free = v.free + 1
    BY <2>1, PassedByTyped
  <2>3. WindowSound(PassedBy(v), limit)
    BY <1>2, <1>6, <2>1, PassingSound
  <2>4. PassedBy(v).free <= limitFaults'
    BY <1>3, <1>6, <2>2, WindowFields, FaultsTyped
  <2> HIDE DEF key
  <2> QED BY <1>1, <1>3, <1>4, <1>5, <1>6, <2>2, <2>3, <2>4, RedisPreserves
<1>7. redis[key] \in Windows /\ WindowSound(redis[key], limit) /\ redis[key].free <= limitFaults
  BY <1>1, WindowsOf
<1>8. CASE redis' = [redis EXCEPT ![key] = PassedBy(Counted(redis[key]))]
  <2> DEFINE next == Counted(redis[key])
  <2>1. next \in Windows /\ Counting(next, limit) /\ next.free <= redis[key].free
    BY <1>2, <1>7, CountingSound
  <2>2. next.free <= limitFaults
    <3> HIDE DEF next
    <3> QED BY <1>7, <2>1, WindowFields, FaultsTyped
  <2> QED BY <1>6, <1>8, <2>1, <2>2
<1>9. CASE redis' = [redis EXCEPT ![key] = PassedBy(redis[key])]
  <2>1. Counting(redis[key], limit)
    BY <1>7, WindowFields DEF WindowSound, Counting
  <2> QED BY <1>6, <1>7, <1>9, <2>1
<1>10. CASE redis' = redis
  BY <1>3, <1>4, <1>5, <1>10, MovePreserves
<1>11. \/ redis' = [redis EXCEPT ![key] = PassedBy(Counted(redis[key]))]
       \/ redis' = [redis EXCEPT ![key] = PassedBy(redis[key])]
       \/ redis' = redis
  BY <1>1, Named DEF CountFails, PassedBy, LimiterTypes
<1> QED BY <1>8, <1>9, <1>10, <1>11

\* The first request of a window in memory is admitted in whatever the limit.
LEMMA MemoryCounts ==
    ASSUME NEW w \in Windows, NEW limit \in Nat, MemorySound(w, limit)
    PROVE  /\ Counted(w) \in Windows
           /\ w.left = 0 \/ Within(Counted(w).count, limit)
                => MemorySound(Admit(Counted(w)), limit)
           /\ ~(w.left = 0 \/ Within(Counted(w).count, limit))
                => MemorySound(Counted(w), limit)
<1> DEFINE next == Counted(w)
           admitted == Admit(next)
           most == Max({limit, 1})
<1>1. /\ next \in Windows
      /\ w.left = 0 => next.count = 1 /\ next.served = 0
      /\ w.left # 0 => /\ next.count = (IF w.count < MaxCount THEN w.count + 1 ELSE MaxCount)
                       /\ next.served = w.served
  BY CountedTyped
<1>2. /\ admitted.served = (IF next.served < MaxCount THEN next.served + 1 ELSE MaxCount)
      /\ admitted.count = next.count
  BY <1>1, AdmitTyped
<1>3. /\ w.served \in 0..MaxCount /\ w.count \in 0..MaxCount
      /\ next.served \in 0..MaxCount /\ next.count \in 0..MaxCount /\ MaxCount \in Nat \ {0}
  BY <1>1, WindowFields
<1>4. most = (IF limit >= 1 THEN limit ELSE 1)
  BY PairMax
<1>5. /\ w.served <= w.count /\ w.served <= most
      /\ w.served < limit => w.count <= w.served
  BY DEF MemorySound
<1> HIDE DEF next, admitted, most
<1>6. ASSUME w.left = 0 \/ next.count <= limit
      PROVE  /\ admitted.served <= admitted.count /\ admitted.served <= most
             /\ admitted.served < limit => admitted.count <= admitted.served
  <2>1. CASE w.left = 0
    BY <1>1, <1>2, <1>3, <1>4, <2>1
  <2>2. CASE w.left # 0 /\ next.count <= limit
    BY <1>1, <1>2, <1>3, <1>4, <1>5, <2>2
  <2> QED BY <1>6, <2>1, <2>2
<1>7. ASSUME ~(w.left = 0 \/ next.count <= limit)
      PROVE  /\ next.served <= next.count /\ next.served <= most
             /\ next.served < limit => next.count <= next.served
  BY <1>1, <1>3, <1>5, <1>7
<1> QED BY <1>1, <1>6, <1>7 DEF MemorySound, Within, next, admitted, most

LEMMA CountInMemorySound ==
    ASSUME LimiterIInv, NEW q \in LimitRequests, CountInMemory(q)
    PROVE  LimiterIInv'
<1> DEFINE key  == request[q].key
           next == Counted(memory[key])
<1>1. key \in Keys
  BY Named, RequestTypes DEF CountInMemory, LimiterTypes
<1>2. /\ memory[key] \in Windows /\ MemorySound(memory[key], LimitOf(key))
      /\ LimitOf(key) \in Nat
  BY <1>1, WindowsOf, LimitTyped
<1>3. PICK v \in Windows, state \in RequestStates :
          /\ memory' = [memory EXCEPT ![key] = v] /\ Goto(q, state)
          /\ MemorySound(v, LimitOf(key))
  <2>1. CASE memory[key].left = 0 \/ Within(next.count, LimitOf(key))
    <3>1. Admit(next) \in Windows /\ MemorySound(Admit(next), LimitOf(key))
      BY <1>2, <2>1, MemoryCounts, AdmitTyped
    <3>2. memory' = [memory EXCEPT ![key] = Admit(next)] /\ Goto(q, [at |-> "served"])
      BY <2>1 DEF CountInMemory
    <3> HIDE DEF key, next
    <3> QED BY <3>1, <3>2, PlainStates
  <2>2. CASE ~(memory[key].left = 0 \/ Within(next.count, LimitOf(key)))
    <3>1. next \in Windows /\ MemorySound(next, LimitOf(key))
      BY <1>2, <2>2, MemoryCounts
    <3>2. memory' = [memory EXCEPT ![key] = next] /\ Goto(q, [at |-> "refused"])
      BY <2>2 DEF CountInMemory
    <3> HIDE DEF key, next
    <3> QED BY <3>1, <3>2, PlainStates
  <2> QED BY <2>1, <2>2
<1>4. UNCHANGED <<mode, redis, limitFaults>>
  BY DEF CountInMemory
<1> HIDE DEF key, next
<1>5. LimiterTypes'
  BY <1>1, <1>3, <1>4, Named DEF LimiterTypes, Goto
<1>6. \A k \in Keys : memory'[k] = IF k = key THEN v ELSE memory[k]
  BY <1>3, Named DEF LimiterTypes
<1>7. AllSound'
  BY <1>3, <1>4, <1>6, Named DEF AllSound
<1> QED BY <1>5, <1>7, NamedAfter

---------------------------------------------------------------------------
(* The other steps                                                         *)

LEMMA StartSound == ASSUME LimiterIInv, Start PROVE LimiterIInv'
<1>1. UNCHANGED <<redis, memory, request, limitFaults>>
      /\ mode' \in {"down", "off", "memory", "redis"}
  BY DEF Start
<1> QED BY <1>1, Named, NamedAfter DEF LimiterTypes, AllSound

\* A window nothing was counted in.
LEMMA FreshSound ==
    ASSUME NEW key \in Keys
    PROVE  WindowSound(NoWindow, LimitOf(key)) /\ MemorySound(NoWindow, LimitOf(key))
<1>1. LimitOf(key) \in Nat
  BY LimitTyped
<1>2. 0 <= Max({LimitOf(key), 1})
  BY <1>1, PairMax
<1> QED BY <1>1, <1>2, NoWindowTyped DEF WindowSound, MemorySound

LEMMA StopSound == ASSUME LimiterIInv, Stop PROVE LimiterIInv'
<1>1. /\ mode' = "down" /\ UNCHANGED <<redis, limitFaults>>
      /\ memory' = [k \in Keys |-> NoWindow]
      /\ request' = [q \in LimitRequests |-> Idle]
  BY DEF Stop
<1>2. LimiterTypes'
  BY <1>1, Named, NoWindowTyped, PlainStates DEF LimiterTypes
<1>3. AllSound'
  BY <1>1, Named, FreshSound DEF AllSound
<1> QED BY <1>2, <1>3, NamedAfter

LEMMA ClockSound == ASSUME LimiterIInv, Clock PROVE LimiterIInv'
<1>1. /\ UNCHANGED <<mode, request, limitFaults>>
      /\ redis' = [k \in Keys |-> Aged(redis[k])]
      /\ memory' = [k \in Keys |-> Aged(memory[k])]
  BY DEF Clock
<1>2. LimiterTypes'
  BY <1>1, Named, AgedTyped DEF LimiterTypes
<1>3. ASSUME NEW k \in Keys
      PROVE  /\ WindowSound(Aged(redis[k]), LimitOf(k)) /\ Aged(redis[k]).free <= limitFaults
             /\ MemorySound(Aged(memory[k]), LimitOf(k))
  <2>1. /\ redis[k] \in Windows /\ WindowSound(redis[k], LimitOf(k))
        /\ redis[k].free <= limitFaults
        /\ memory[k] \in Windows /\ MemorySound(memory[k], LimitOf(k))
    BY WindowsOf
  <2>2. WindowSound(Aged(redis[k]), LimitOf(k)) /\ Aged(redis[k]).free <= limitFaults
    BY <2>1, AgedTyped, FreshSound, NoWindowTyped, FaultsTyped DEF WindowSound
  <2>3. MemorySound(Aged(memory[k]), LimitOf(k))
    BY <2>1, AgedTyped, FreshSound DEF MemorySound
  <2> QED BY <2>2, <2>3
<1>4. AllSound'
  BY <1>1, <1>3 DEF AllSound
<1> QED BY <1>2, <1>4, NamedAfter

LEMMA LimitMoves ==
    ASSUME LimiterIInv, NEW q \in LimitRequests, Arrive(q) \/ Lookup(q) \/ Leave(q)
    PROVE  LimiterIInv'
<1>1. UNCHANGED <<mode, redis, memory, limitFaults>>
  BY DEF Arrive, Lookup, Leave
<1>2. PICK state \in RequestStates : Goto(q, state)
  <2>1. CASE Arrive(q)
    <3>1. PICK e \in Endpoints, caller \in Callers :
              LET key == <<EndpointType(e[1], e[2]), caller>> IN
              IF mode = "off"
              THEN Goto(q, [at |-> IF Fallback = "error" THEN "unavailable" ELSE "served"])
              ELSE Goto(q, [at |-> IF caller = "org" THEN "lookup" ELSE "count", key |-> key])
      BY <2>1 DEF Arrive
    <3>2. <<EndpointType(e[1], e[2]), caller>> \in Keys
      BY EndpointTyped DEF Keys
    <3> QED BY <3>1, <3>2, PlainStates
  <2>2. CASE Lookup(q)
    <3>1. request[q].key \in Keys
      BY <2>2, Named, RequestTypes DEF Lookup, LimiterTypes
    <3> QED BY <2>2, <3>1, PlainStates DEF Lookup
  <2>3. CASE Leave(q)
    BY <2>3, PlainStates DEF Leave
  <2> QED BY <2>1, <2>2, <2>3
<1> QED BY <1>1, <1>2, FaultsTyped, MovePreserves

---------------------------------------------------------------------------
(* The invariant                                                           *)

LEMMA LimiterBegins == InitLimiter => LimiterIInv
<1> SUFFICES ASSUME InitLimiter PROVE LimiterIInv
  OBVIOUS
<1>1. LimiterTypes
  BY NoWindowTyped, PlainStates, LimiterConstants DEF InitLimiter, LimiterTypes
<1>2. AllSound
  BY NoWindowTyped, FreshSound DEF InitLimiter, AllSound
<1> QED BY <1>1, <1>2, Named

LEMMA LimiterStep == LimiterIInv /\ [NextLimiter]_limiterVars => LimiterIInv'
<1> SUFFICES ASSUME LimiterIInv, [NextLimiter]_limiterVars PROVE LimiterIInv'
  OBVIOUS
<1>1. CASE UNCHANGED limiterVars
  BY <1>1, Named, NamedAfter DEF limiterVars, LimiterTypes, AllSound
<1>2. CASE Start \/ Stop \/ Clock
  BY <1>2, StartSound, StopSound, ClockSound
<1>3. ASSUME NEW q \in LimitRequests,
             \/ Arrive(q) \/ Lookup(q) \/ CountInRedis(q) \/ CountFails(q)
             \/ CountInMemory(q) \/ Leave(q)
      PROVE  LimiterIInv'
  BY <1>3, LimitMoves, CountInRedisSound, CountFailsSound, CountInMemorySound
<1> QED BY <1>1, <1>2, <1>3 DEF NextLimiter

(***************************************************************************)
(* No window lets in more requests than its limit, but for those that      *)
(* passed because Redis failed and the first of a window in memory, and    *)
(* none refuses one before it is full (check_limit, _increment_counter).   *)
(***************************************************************************)
THEOREM FixedWindowsSound == LimiterSpec => []LimiterInv
<1>1. InitLimiter => LimiterIInv
  BY LimiterBegins
<1>2. LimiterIInv /\ [NextLimiter]_limiterVars => LimiterIInv'
  BY LimiterStep
<1>3. LimiterIInv => LimiterInv
  BY DEF LimiterIInv
<1> QED BY <1>1, <1>2, <1>3, PTL DEF LimiterSpec

---------------------------------------------------------------------------
(* The sliding windows of RateRules                                        *)

CheckStates ==
    {Resting} \cup [at : {"active", "query"}, caller : RuleCallers]
              \cup [at : {"storeActive"}, caller : RuleCallers, list : Lists]
              \cup [at : {"storeMatch", "main"}, match : Match]
              \cup [at : {"burst", "record"}, match : Match, allowed : BOOLEAN]
EditStates == {Resting} \cup [at : {"invalidate", "done"}]
ListEntries == {NoList} \cup [left : 1..RuleTtl, list : Lists]
MatchEntries == {NoMatch} \cup [left : 1..RuleTtl, match : Match]

\* The parts of RulesTypeOK under names of their own.
LEMMA RuleTypesNamed ==
    RulesTypeOK <=>
        /\ rules \in Lists
        /\ retired \in SUBSET (Rules \ DOMAIN rules)
        /\ active \in ListEntries
        /\ DOMAIN resolved = RuleCallers
        /\ \A c \in RuleCallers : resolved[c] \in MatchEntries
        /\ windows \in [WindowKeys -> SlidingWindows]
        /\ check \in [Checks -> CheckStates]
        /\ edit \in [Edits -> EditStates]
        /\ ruleFaults \in 0..MaxRuleFaults
BY Zenon DEF RulesTypeOK, CheckStates, EditStates, ListEntries, MatchEntries

LEMMA RuleTypesNamedAfter ==
    RulesTypeOK' <=>
        /\ rules' \in Lists
        /\ retired' \in SUBSET (Rules \ DOMAIN rules')
        /\ active' \in ListEntries
        /\ DOMAIN resolved' = RuleCallers
        /\ \A c \in RuleCallers : resolved'[c] \in MatchEntries
        /\ windows' \in [WindowKeys -> SlidingWindows]
        /\ check' \in [Checks -> CheckStates]
        /\ edit' \in [Edits -> EditStates]
        /\ ruleFaults' \in 0..MaxRuleFaults
BY Zenon DEF RulesTypeOK, CheckStates, EditStates, ListEntries, MatchEntries

\* Rows have numbers for limits.
LEMMA RowLimits == \A v \in RuleRows : v.limit \in Nat /\ v.burst \in Nat
BY RuleConstants DEF RuleRows

\* What an expired rule becomes is a row again.
LEMMA ExpiredRow ==
    ASSUME NEW v \in RuleRows
    PROVE  [v EXCEPT !.enabled = FALSE] \in RuleRows
<1>1. CASE v \in RuleValues
  BY <1>1 DEF RuleRows
<1>2. ASSUME NEW u \in RuleValues, v = [u EXCEPT !.enabled = FALSE]
      PROVE  [v EXCEPT !.enabled = FALSE] \in RuleRows
  <2>1. [v EXCEPT !.enabled = FALSE] = v
    BY <1>2
  <2> QED BY <2>1
<1> QED BY <1>1, <1>2 DEF RuleRows

\* Lists are functions from some rules to rows.
LEMMA ListTyped ==
    ASSUME NEW S \in SUBSET Rules, NEW f \in [S -> RuleRows]
    PROVE  f \in Lists
BY DEF Lists

LEMMA ListParts ==
    ASSUME NEW f \in Lists
    PROVE  /\ DOMAIN f \in SUBSET Rules
           /\ f \in [DOMAIN f -> RuleRows]
           /\ \A r \in DOMAIN f : r \in Rules /\ f[r] \in RuleRows
BY DEF Lists

LEMMA ActiveTyped ==
    ASSUME rules \in Lists
    PROVE  ActiveRules \in Lists
<1>1. Enabled \in SUBSET Rules /\ \A r \in Enabled : rules[r] \in RuleRows
  BY ListParts DEF Enabled
<1>2. ActiveRules \in [Enabled -> RuleRows]
  BY <1>1 DEF ActiveRules
<1> QED BY <1>1, <1>2, ListTyped

\* The states of a check.
LEMMA CheckStateTyped ==
    /\ Resting \in CheckStates
    /\ \A c \in RuleCallers : /\ [at |-> "active", caller |-> c] \in CheckStates
                              /\ [at |-> "query", caller |-> c] \in CheckStates
    /\ \A c \in RuleCallers, f \in Lists :
          [at |-> "storeActive", caller |-> c, list |-> f] \in CheckStates
    /\ \A m \in Match : /\ [at |-> "storeMatch", match |-> m] \in CheckStates
                        /\ [at |-> "main", match |-> m] \in CheckStates
    /\ \A m \in Match, b \in BOOLEAN :
          /\ [at |-> "burst", match |-> m, allowed |-> b] \in CheckStates
          /\ [at |-> "record", match |-> m, allowed |-> b] \in CheckStates
BY DEF CheckStates

LEMMA CheckFields ==
    ASSUME check \in [Checks -> CheckStates], NEW k \in Checks
    PROVE  /\ check[k].at \in {"active", "query", "storeActive"} => check[k].caller \in RuleCallers
           /\ check[k].at = "storeActive" => check[k].list \in Lists
           /\ check[k].at \in {"storeMatch", "main", "burst", "record"} =>
                 check[k].match \in Match
           /\ check[k].at \in {"burst", "record"} => check[k].allowed \in BOOLEAN
BY DEF CheckStates, Resting

\* What a list leads to.
LEMMA ChooseTyped ==
    ASSUME check \in [Checks -> CheckStates], NEW k \in Checks,
           NEW list \in Lists, NEW c \in RuleCallers,
           Choose(k, list, c, "storeMatch")
    PROVE  check' \in [Checks -> CheckStates]
<1>1. CASE BestOf(list, c) = {} /\ To(k, Resting)
  BY <1>1, CheckStateTyped DEF To
<1>2. ASSUME NEW r \in BestOf(list, c),
             To(k, [at |-> "storeMatch",
                    match |-> [id |-> r, value |-> list[r], caller |-> c]])
      PROVE  check' \in [Checks -> CheckStates]
  <2>1. r \in Rules /\ list[r] \in RuleRows
    BY ListParts DEF BestOf
  <2>2. [id |-> r, value |-> list[r], caller |-> c] \in Match
    BY <2>1 DEF Match
  <2>3. [at |-> "storeMatch", match |-> [id |-> r, value |-> list[r], caller |-> c]]
            \in CheckStates
    BY <2>2, CheckStateTyped
  <2> QED BY <1>2, <2>3 DEF To
<1> QED BY <1>1, <1>2 DEF Choose

\* A check that goes somewhere, with everything else in its type.
LEMMA CheckMovesSound ==
    ASSUME RulesInv, rules' \in Lists, UNCHANGED <<rules, retired, windows, edit>>,
           active' \in ListEntries, DOMAIN resolved' = RuleCallers,
           \A c \in RuleCallers : resolved'[c] \in MatchEntries,
           check' \in [Checks -> CheckStates],
           RuleFault \/ UNCHANGED ruleFaults
    PROVE  RulesInv'
<1>1. ruleFaults' \in 0..MaxRuleFaults
  BY RuleConstants, RuleTypesNamed DEF RulesInv, RuleFault
<1>2. RulesTypeOK'
  BY <1>1, RuleTypesNamed, RuleTypesNamedAfter DEF RulesInv
<1>3. WindowsWithinLimit'
  BY DEF RulesInv, WindowsWithinLimit
<1> QED BY <1>2, <1>3 DEF RulesInv

\* A window that lets an entry in holds no more than the limit that let it in.
LEMMA EnterSound ==
    ASSUME NEW w \in SlidingWindows, NEW limit \in Nat, Size(w) <= w.peak
    PROVE  Enter(w, limit) \in SlidingWindows /\ Size(Enter(w, limit)) <= Enter(w, limit).peak
<1>1. w.now \in Nat /\ w.before \in Nat /\ w.peak \in Nat
  BY DEF SlidingWindows
<1>2. CASE HasRoom(w, limit)
  <2> DEFINE in == [w EXCEPT !.now = @ + 1, !.peak = IF @ < limit THEN limit ELSE @]
  <2>1. in \in SlidingWindows
    <3>1. \A n, m \in Nat : [w EXCEPT !.now = n, !.peak = m] \in SlidingWindows
      BY DEF SlidingWindows
    <3>2. w.now + 1 \in Nat /\ (IF w.peak < limit THEN limit ELSE w.peak) \in Nat
      BY <1>1
    <3> QED BY <3>1, <3>2
  <2>2. /\ in.now = w.now + 1 /\ in.before = w.before
        /\ in.peak = IF w.peak < limit THEN limit ELSE w.peak
    BY DEF SlidingWindows
  <2>3. Enter(w, limit) = in
    BY <1>2 DEF Enter
  <2> HIDE DEF in
  <2>4. Size(in) <= in.peak
    BY <1>1, <1>2, <2>2 DEF HasRoom, Size
  <2> QED BY <2>1, <2>3, <2>4
<1>3. CASE ~HasRoom(w, limit)
  BY <1>3 DEF Enter
<1> QED BY <1>2, <1>3

LEMMA SlideSound ==
    ASSUME RulesInv, NEW key, NEW limit \in Nat, NEW ok, Slide(key, limit, ok)
    PROVE  /\ windows' \in [WindowKeys -> SlidingWindows]
           /\ WindowsWithinLimit'
           /\ RuleFault \/ UNCHANGED ruleFaults
<1>1. windows \in [WindowKeys -> SlidingWindows] /\ WindowsWithinLimit
  BY RuleTypesNamed DEF RulesInv
<1>2. CASE windows' = [windows EXCEPT ![key] = Enter(@, limit)]
  <2>1. ASSUME NEW other \in WindowKeys
        PROVE  /\ windows'[other] \in SlidingWindows
               /\ Size(windows'[other]) <= windows'[other].peak
    <3>1. windows[other] \in SlidingWindows /\ Size(windows[other]) <= windows[other].peak
      BY <1>1 DEF WindowsWithinLimit
    <3>2. windows'[other] = windows[other] \/ windows'[other] = Enter(windows[other], limit)
      BY <1>1, <1>2
    <3> QED BY <3>1, <3>2, EnterSound
  <2>2. windows' \in [WindowKeys -> SlidingWindows]
    BY <1>1, <1>2, <2>1
  <2>3. WindowsWithinLimit'
    BY <2>1 DEF WindowsWithinLimit, Size
  <2> QED BY <2>2, <2>3 DEF Slide
<1>3. CASE UNCHANGED windows
  BY <1>1, <1>3 DEF Slide, WindowsWithinLimit, Size
<1> QED BY <1>2, <1>3 DEF Slide

LEMMA CheckSound ==
    ASSUME RulesInv, NEW k \in Checks, Resolve(k) \/ CheckStep(k)
    PROVE  RulesInv'
<1>1. /\ rules \in Lists /\ active \in ListEntries /\ DOMAIN resolved = RuleCallers
      /\ retired \in SUBSET (Rules \ DOMAIN rules)
      /\ \A c \in RuleCallers : resolved[c] \in MatchEntries
      /\ check \in [Checks -> CheckStates] /\ edit \in [Edits -> EditStates]
      /\ ruleFaults \in 0..MaxRuleFaults
  BY RuleTypesNamed DEF RulesInv
<1>2. \A state \in CheckStates : To(k, state) => check' \in [Checks -> CheckStates]
  BY <1>1 DEF To
<1>3. CASE Resolve(k)
  <2>1. PICK c \in RuleCallers :
          \/ /\ resolved[c] # NoMatch
             /\ To(k, [at |-> "main", match |-> resolved[c].match])
             /\ UNCHANGED ruleFaults
          \/ /\ resolved[c] = NoMatch \/ RuleFault
             /\ To(k, [at |-> "active", caller |-> c])
             /\ resolved[c] = NoMatch => UNCHANGED ruleFaults
    BY <1>3 DEF Resolve
  <2>2. resolved[c] # NoMatch => resolved[c].match \in Match
    BY <1>1 DEF MatchEntries
  <2>3. check' \in [Checks -> CheckStates] /\ (RuleFault \/ UNCHANGED ruleFaults)
    BY <1>2, <2>1, <2>2, CheckStateTyped
  <2>4. UNCHANGED <<rules, retired, active, resolved, windows, edit>>
    BY <1>3 DEF Resolve
  <2> QED BY <1>1, <2>3, <2>4, CheckMovesSound
<1>4. CASE Active(k)
  <2>1. check[k].caller \in RuleCallers
    BY <1>1, <1>4, CheckFields DEF Active
  <2>2. CASE Choose(k, active.list, check[k].caller, "storeMatch") /\ active # NoList
    <3>1. active.list \in Lists
      BY <1>1, <2>2 DEF ListEntries
    <3>2. check' \in [Checks -> CheckStates]
      BY <1>1, <2>1, <2>2, <3>1, ChooseTyped
    <3>3. /\ RuleFault \/ UNCHANGED ruleFaults
          /\ UNCHANGED <<rules, retired, active, resolved, windows, edit>>
      BY <1>4 DEF Active
    <3> QED BY <1>1, <3>2, <3>3, CheckMovesSound
  <2>3. CASE To(k, [at |-> "query", caller |-> check[k].caller])
    <3>1. check' \in [Checks -> CheckStates]
      BY <1>2, <2>1, <2>3, CheckStateTyped
    <3>2. /\ RuleFault \/ UNCHANGED ruleFaults
          /\ UNCHANGED <<rules, retired, active, resolved, windows, edit>>
      BY <1>4 DEF Active
    <3> QED BY <1>1, <3>1, <3>2, CheckMovesSound
  <2> QED BY <1>4, <2>2, <2>3 DEF Active
<1>5. CASE Query(k)
  <2>1. check[k].caller \in RuleCallers /\ ActiveRules \in Lists
    BY <1>1, <1>5, CheckFields, ActiveTyped DEF Query
  <2>2. check' \in [Checks -> CheckStates]
    BY <1>2, <1>5, <2>1, CheckStateTyped DEF Query
  <2>3. UNCHANGED <<rules, retired, active, resolved, windows, edit, ruleFaults>>
    BY <1>5 DEF Query
  <2> QED BY <1>1, <2>2, <2>3, CheckMovesSound
<1>6. CASE StoreActive(k)
  <2>1. check[k].caller \in RuleCallers /\ check[k].list \in Lists
    BY <1>1, <1>6, CheckFields DEF StoreActive
  <2>2. check' \in [Checks -> CheckStates]
    BY <1>1, <1>6, <2>1, ChooseTyped DEF StoreActive
  <2>3. active' \in ListEntries
    BY <1>1, <1>6, <2>1, RuleConstants DEF StoreActive, ListEntries
  <2>4. /\ RuleFault \/ UNCHANGED ruleFaults
        /\ UNCHANGED <<rules, retired, resolved, windows, edit>>
    BY <1>6 DEF StoreActive
  <2> QED BY <1>1, <2>2, <2>3, <2>4, CheckMovesSound
<1>7. CASE StoreMatch(k)
  <2>1. check[k].match \in Match
    BY <1>1, <1>7, CheckFields DEF StoreMatch
  <2>2. check' \in [Checks -> CheckStates]
    BY <1>2, <1>7, <2>1, CheckStateTyped DEF StoreMatch
  <2>3. [left |-> RuleTtl, match |-> check[k].match] \in MatchEntries
    BY <2>1, RuleConstants DEF MatchEntries
  <2>4. DOMAIN resolved' = RuleCallers /\ \A c \in RuleCallers : resolved'[c] \in MatchEntries
    <3>1. CASE UNCHANGED resolved
      BY <1>1, <3>1
    <3>2. CASE resolved' = [resolved EXCEPT ![check[k].match.caller] =
                                [left |-> RuleTtl, match |-> check[k].match]]
      <4> DEFINE entry == [left |-> RuleTtl, match |-> check[k].match]
      <4>1. entry \in MatchEntries /\ resolved' = [resolved EXCEPT ![check[k].match.caller] = entry]
        BY <2>3, <3>2
      <4> HIDE DEF entry
      <4> QED BY <1>1, <4>1
    <3> QED BY <1>7, <3>1, <3>2 DEF StoreMatch
  <2>5. /\ RuleFault \/ UNCHANGED ruleFaults
        /\ UNCHANGED <<rules, retired, active, windows, edit>>
    BY <1>7 DEF StoreMatch
  <2> QED BY <1>1, <2>2, <2>4, <2>5, CheckMovesSound
<1>8. CASE CheckMain(k) \/ CheckBurst(k)
  <2>1. check[k].match \in Match /\ (check[k].at = "burst" => check[k].allowed \in BOOLEAN)
    BY <1>1, <1>8, CheckFields DEF CheckMain, CheckBurst
  <2>2. check[k].match.value.limit \in Nat /\ check[k].match.value.burst \in Nat
    <3>1. check[k].match.value \in RuleRows
      BY <2>1 DEF Match
    <3> QED BY <3>1, RowLimits
  <2>3. PICK kind \in {"main", "burst"}, limit \in Nat, ok \in BOOLEAN :
          Slide(KeyOf(check[k].match, kind), limit, ok)
    <3>1. CASE CheckMain(k)
      <4>1. \E ok \in BOOLEAN :
              Slide(KeyOf(check[k].match, "main"), check[k].match.value.limit, ok)
        BY <3>1, Zenon DEF CheckMain
      <4> QED BY <2>2, <4>1, Zenon
    <3>2. CASE CheckBurst(k)
      <4>1. \E ok \in BOOLEAN :
              Slide(KeyOf(check[k].match, "burst"), check[k].match.value.burst, ok)
        BY <3>2, Zenon DEF CheckBurst
      <4> QED BY <2>2, <4>1, Zenon
    <3> QED BY <1>8, <3>1, <3>2
  <2>4. check' \in [Checks -> CheckStates]
    <3>1. PICK at \in {"burst", "record"}, b \in BOOLEAN :
            To(k, [at |-> at, match |-> check[k].match, allowed |-> b])
      <4>1. CASE CheckMain(k)
        <5>1. PICK ok2 \in BOOLEAN :
                To(k, [at |-> IF check[k].match.value.burst > 0 THEN "burst" ELSE "record",
                       match |-> check[k].match, allowed |-> ok2])
          BY <4>1 DEF CheckMain
        <5> QED BY <5>1, Zenon
      <4>2. CASE CheckBurst(k)
        <5>1. PICK ok2 \in BOOLEAN :
                To(k, [at |-> "record", match |-> check[k].match,
                       allowed |-> check[k].allowed /\ ok2])
          BY <4>2 DEF CheckBurst
        <5>2. (check[k].allowed /\ ok2) \in BOOLEAN
          OBVIOUS
        <5> QED BY <5>1, <5>2, Zenon
      <4> QED BY <1>8, <4>1, <4>2
    <3>2. [at |-> at, match |-> check[k].match, allowed |-> b] \in CheckStates
      BY <2>1, CheckStateTyped
    <3> QED BY <1>2, <3>1, <3>2, Zenon
  <2>5. /\ windows' \in [WindowKeys -> SlidingWindows] /\ WindowsWithinLimit'
        /\ RuleFault \/ UNCHANGED ruleFaults
    BY <2>3, SlideSound
  <2>6. ruleFaults' \in 0..MaxRuleFaults
    BY <1>1, <2>5, RuleConstants DEF RuleFault
  <2>7. UNCHANGED <<rules, retired, active, resolved, edit>>
    BY <1>8 DEF CheckMain, CheckBurst
  <2>8. RulesTypeOK'
    BY <1>1, <2>4, <2>5, <2>6, <2>7, RuleTypesNamedAfter
  <2> QED BY <2>5, <2>8 DEF RulesInv
<1>9. CASE Record(k)
  <2>1. check' \in [Checks -> CheckStates]
    BY <1>2, <1>9, CheckStateTyped DEF Record
  <2>2. UNCHANGED <<rules, retired, active, resolved, windows, edit, ruleFaults>>
    BY <1>9 DEF Record
  <2> QED BY <1>1, <2>1, <2>2, CheckMovesSound
<1> QED BY <1>3, <1>4, <1>5, <1>6, <1>7, <1>8, <1>9 DEF CheckStep

\* Changes of the rules leave rows in the table and the windows alone.
LEMMA RowsSound ==
    ASSUME RulesInv,
           \/ \E e \in Edits : CreateRule(e) \/ UpdateRule(e) \/ DeleteRule(e) \/ InvalidateRules(e)
           \/ \E r \in Rules : RuleExpires(r)
    PROVE  RulesInv'
<1>1. /\ rules \in Lists /\ active \in ListEntries /\ DOMAIN resolved = RuleCallers
      /\ retired \in SUBSET (Rules \ DOMAIN rules)
      /\ \A c \in RuleCallers : resolved[c] \in MatchEntries
      /\ windows \in [WindowKeys -> SlidingWindows]
      /\ check \in [Checks -> CheckStates] /\ edit \in [Edits -> EditStates]
      /\ ruleFaults \in 0..MaxRuleFaults /\ WindowsWithinLimit
  BY RuleTypesNamed DEF RulesInv
<1>2. \A v \in RuleValues : v \in RuleRows
  BY DEF RuleRows
<1>3. \A e \in Edits : /\ [edit EXCEPT ![e] = [at |-> "invalidate"]] \in [Edits -> EditStates]
                       /\ [edit EXCEPT ![e] = [at |-> "done"]] \in [Edits -> EditStates]
  BY <1>1 DEF EditStates
<1> DEFINE KeptRows ==
             /\ rules' \in Lists /\ retired' \in SUBSET (Rules \ DOMAIN rules')
             /\ edit' \in [Edits -> EditStates] /\ active' \in ListEntries
             /\ ruleFaults' \in 0..MaxRuleFaults
             /\ UNCHANGED <<resolved, windows, check>>
<1>4. KeptRows
  <2>1. ASSUME NEW e \in Edits, CreateRule(e) PROVE  KeptRows
    <3>1. PICK r \in Rules \ (DOMAIN rules \cup retired), v \in RuleValues :
            rules' = [s \in DOMAIN rules \cup {r} |-> IF s = r THEN v ELSE rules[s]]
      BY <2>1 DEF CreateRule
    <3>2. DOMAIN rules \in SUBSET Rules /\ \A s \in DOMAIN rules : rules[s] \in RuleRows
      BY <1>1, ListParts
    <3>3. /\ rules' \in [DOMAIN rules \cup {r} -> RuleRows]
          /\ DOMAIN rules \cup {r} \in SUBSET Rules
          /\ DOMAIN rules' = DOMAIN rules \cup {r}
      BY <1>2, <3>1, <3>2
    <3>4. rules' \in Lists
      BY <3>3, ListTyped
    <3>5. retired' \in SUBSET (Rules \ DOMAIN rules')
      BY <1>1, <2>1, <3>1, <3>3 DEF CreateRule
    <3> QED BY <1>1, <1>3, <2>1, <3>4, <3>5 DEF CreateRule
  <2>2. ASSUME NEW e \in Edits, UpdateRule(e) PROVE  KeptRows
    <3>1. PICK r \in DOMAIN rules, v \in RuleValues : rules' = [rules EXCEPT ![r] = v]
      BY <2>2 DEF UpdateRule
    <3>2. DOMAIN rules \in SUBSET Rules /\ rules \in [DOMAIN rules -> RuleRows]
      BY <1>1, ListParts
    <3>3. rules' \in [DOMAIN rules -> RuleRows] /\ DOMAIN rules' = DOMAIN rules
      BY <1>2, <3>1, <3>2
    <3>4. rules' \in Lists
      BY <3>2, <3>3, ListTyped
    <3> QED BY <1>1, <1>3, <2>2, <3>3, <3>4 DEF UpdateRule
  <2>3. ASSUME NEW e \in Edits, DeleteRule(e) PROVE  KeptRows
    <3>1. PICK r \in DOMAIN rules :
            /\ rules' = [s \in DOMAIN rules \ {r} |-> rules[s]]
            /\ retired' = retired \cup {r}
      BY <2>3 DEF DeleteRule
    <3>2. DOMAIN rules \in SUBSET Rules /\ \A s \in DOMAIN rules : rules[s] \in RuleRows
      BY <1>1, ListParts
    <3>3. /\ rules' \in [DOMAIN rules \ {r} -> RuleRows]
          /\ DOMAIN rules \ {r} \in SUBSET Rules
          /\ DOMAIN rules' = DOMAIN rules \ {r}
      BY <3>1, <3>2
    <3>4. rules' \in Lists
      BY <3>3, ListTyped
    <3>5. retired' \in SUBSET (Rules \ DOMAIN rules')
      BY <1>1, <3>1, <3>2, <3>3
    <3> QED BY <1>1, <1>3, <2>3, <3>4, <3>5 DEF DeleteRule
  <2>4. ASSUME NEW e \in Edits, InvalidateRules(e) PROVE  KeptRows
    <3>1. active' \in ListEntries /\ ruleFaults' \in 0..MaxRuleFaults
      BY <1>1, <2>4, RuleConstants DEF InvalidateRules, ListEntries, RuleFault
    <3> QED BY <1>1, <1>3, <2>4, <3>1 DEF InvalidateRules
  <2>5. ASSUME NEW r \in Rules, RuleExpires(r) PROVE  KeptRows
    <3>1. r \in DOMAIN rules /\ rules' = [rules EXCEPT ![r].enabled = FALSE]
      BY <2>5 DEF RuleExpires
    <3>2. DOMAIN rules \in SUBSET Rules /\ rules \in [DOMAIN rules -> RuleRows]
      BY <1>1, ListParts
    <3>3. [rules[r] EXCEPT !.enabled = FALSE] \in RuleRows
      BY <3>1, <3>2, ExpiredRow
    <3>4. rules' \in [DOMAIN rules -> RuleRows] /\ DOMAIN rules' = DOMAIN rules
      <4> DEFINE row == [rules[r] EXCEPT !.enabled = FALSE]
      <4>1. rules' = [rules EXCEPT ![r] = row] /\ row \in RuleRows
        BY <3>1, <3>3
      <4> HIDE DEF row
      <4> QED BY <3>1, <3>2, <4>1
    <3>5. rules' \in Lists
      BY <3>2, <3>4, ListTyped
    <3> QED BY <1>1, <2>5, <3>4, <3>5 DEF RuleExpires
  <2> QED BY <2>1, <2>2, <2>3, <2>4, <2>5
<1>5. RulesTypeOK'
  BY <1>1, <1>4, RuleTypesNamedAfter
<1>6. WindowsWithinLimit'
  BY <1>1, <1>4 DEF WindowsWithinLimit, Size
<1> QED BY <1>5, <1>6 DEF RulesInv

\* Time passes, or somebody resets a counter: windows only lose entries.
LEMMA WindowsSound ==
    ASSUME RulesInv, RuleClock \/ \E r \in Rules, s \in Scopes : ResetCounter(r, s)
    PROVE  RulesInv'
<1>1. /\ rules \in Lists /\ active \in ListEntries /\ DOMAIN resolved = RuleCallers
      /\ retired \in SUBSET (Rules \ DOMAIN rules)
      /\ \A c \in RuleCallers : resolved[c] \in MatchEntries
      /\ windows \in [WindowKeys -> SlidingWindows]
      /\ check \in [Checks -> CheckStates] /\ edit \in [Edits -> EditStates]
      /\ ruleFaults \in 0..MaxRuleFaults /\ WindowsWithinLimit
  BY RuleTypesNamed DEF RulesInv
<1>2. UNCHANGED <<rules, retired, check, edit, ruleFaults>>
  BY DEF RuleClock, ResetCounter
<1>3. NoEntries \in SlidingWindows /\ Size(NoEntries) <= NoEntries.peak
  BY DEF NoEntries, SlidingWindows, Size
<1>4. ASSUME NEW w \in SlidingWindows, Size(w) <= w.peak
      PROVE  Tick(w) \in SlidingWindows /\ Size(Tick(w)) <= Tick(w).peak
  <2>1. w.now \in Nat /\ w.before \in Nat /\ w.peak \in Nat
    BY DEF SlidingWindows
  <2> DEFINE later == [w EXCEPT !.now = 0, !.before = w.now]
  <2>2. later \in SlidingWindows
    BY <2>1 DEF SlidingWindows
  <2>3. later.now = 0 /\ later.before = w.now /\ later.peak = w.peak
    BY DEF SlidingWindows
  <2>4. Tick(w) = NoEntries \/ Tick(w) = later
    BY DEF Tick
  <2> HIDE DEF later
  <2>5. Size(later) <= later.peak
    BY <1>4, <2>1, <2>3 DEF Size
  <2> QED BY <1>3, <2>2, <2>4, <2>5
<1>5. CASE RuleClock
  <2>1. \A key \in WindowKeys :
          windows'[key] \in SlidingWindows /\ Size(windows'[key]) <= windows'[key].peak
    <3>1. \A key \in WindowKeys :
            windows'[key] = Tick(windows[key]) \/ windows'[key] = NoEntries
      BY <1>5 DEF RuleClock, TickBurst
    <3>2. \A key \in WindowKeys :
            windows[key] \in SlidingWindows /\ Size(windows[key]) <= windows[key].peak
      BY <1>1 DEF WindowsWithinLimit
    <3> QED BY <1>3, <1>4, <3>1, <3>2
  <2>2. windows' \in [WindowKeys -> SlidingWindows]
    BY <1>5, <2>1 DEF RuleClock
  <2>3. WindowsWithinLimit'
    BY <2>1 DEF WindowsWithinLimit, Size
  <2>4. active' \in ListEntries
    <3>1. CASE active = NoList
      BY <1>5, <3>1 DEF RuleClock, ListEntries, NoList
    <3>2. CASE active # NoList
      <4>1. active \in [left : 1..RuleTtl, list : Lists]
        BY <1>1, <3>2 DEF ListEntries
      <4>2. ~(active.left <= 1) => active.left - 1 \in 1..RuleTtl
        BY <4>1, RuleConstants
      <4>3. \A n \in 1..RuleTtl : [active EXCEPT !.left = n] \in ListEntries
        BY <4>1 DEF ListEntries
      <4>4. active' = NoList \/
            (~(active.left <= 1) /\ active' = [active EXCEPT !.left = active.left - 1])
        BY <1>5 DEF RuleClock
      <4> QED BY <4>2, <4>3, <4>4, Zenon DEF ListEntries
    <3> QED BY <3>1, <3>2
  <2>5. DOMAIN resolved' = RuleCallers
    BY <1>5 DEF RuleClock
  <2>6. ASSUME NEW c \in RuleCallers PROVE resolved'[c] \in MatchEntries
    <3>1. resolved'[c] = AgedMatch(resolved[c])
      BY <1>5 DEF RuleClock
    <3>2. CASE resolved[c] = NoMatch
      BY <3>1, <3>2 DEF AgedMatch, NoMatch, MatchEntries
    <3>3. CASE resolved[c] # NoMatch
      <4>1. resolved[c] \in [left : 1..RuleTtl, match : Match]
        BY <1>1, <3>3 DEF MatchEntries
      <4>2. ~(resolved[c].left <= 1) => resolved[c].left - 1 \in 1..RuleTtl
        BY <4>1, RuleConstants
      <4>3. \A n \in 1..RuleTtl : [resolved[c] EXCEPT !.left = n] \in MatchEntries
        BY <4>1 DEF MatchEntries
      <4>4. \/ resolved'[c] = NoMatch
            \/ /\ ~(resolved[c].left <= 1)
               /\ resolved'[c] = [resolved[c] EXCEPT !.left = resolved[c].left - 1]
        BY <3>1 DEF AgedMatch
      <4> QED BY <4>2, <4>3, <4>4, Zenon DEF MatchEntries
    <3> QED BY <3>2, <3>3
  <2>7. RulesTypeOK'
    BY <1>1, <1>2, <2>2, <2>4, <2>5, <2>6, RuleTypesNamedAfter
  <2> QED BY <2>3, <2>7 DEF RulesInv
<1>6. ASSUME NEW r \in Rules, NEW s \in Scopes, ResetCounter(r, s) PROVE RulesInv'
  <2>1. windows' = [windows EXCEPT ![<<r, s, "main">>] = NoEntries]
    BY <1>6 DEF ResetCounter
  <2>2. \A key \in WindowKeys :
          windows'[key] \in SlidingWindows /\ Size(windows'[key]) <= windows'[key].peak
    <3>1. \A key \in WindowKeys :
            windows[key] \in SlidingWindows /\ Size(windows[key]) <= windows[key].peak
      BY <1>1 DEF WindowsWithinLimit
    <3>2. \A key \in WindowKeys :
            windows'[key] = windows[key] \/ windows'[key] = NoEntries
      BY <1>1, <2>1
    <3> QED BY <1>3, <3>1, <3>2
  <2>3. windows' \in [WindowKeys -> SlidingWindows] /\ UNCHANGED <<active, resolved>>
    BY <1>1, <1>3, <1>6, <2>1 DEF ResetCounter
  <2>4. WindowsWithinLimit'
    BY <2>2 DEF WindowsWithinLimit, Size
  <2>5. RulesTypeOK'
    BY <1>1, <1>2, <2>3, RuleTypesNamedAfter
  <2> QED BY <2>4, <2>5 DEF RulesInv
<1> QED BY <1>5, <1>6

LEMMA RulesBegin == InitRules => RulesInv
<1> SUFFICES ASSUME InitRules PROVE RulesInv
  OBVIOUS
<1>1. rules \in Lists
  <2>1. PICK S \in SUBSET Rules : StartRules \in [S -> RuleValues]
    BY RuleConstants
  <2>2. StartRules \in [S -> RuleRows]
    BY <2>1 DEF RuleRows
  <2> QED BY <2>2, ListTyped DEF InitRules
<1>2. NoEntries \in SlidingWindows /\ Size(NoEntries) <= NoEntries.peak
  BY DEF NoEntries, SlidingWindows, Size
<1>3. /\ windows \in [WindowKeys -> SlidingWindows] /\ active \in ListEntries
      /\ DOMAIN resolved = RuleCallers /\ \A c \in RuleCallers : resolved[c] \in MatchEntries
      /\ check \in [Checks -> CheckStates] /\ edit \in [Edits -> EditStates]
      /\ ruleFaults \in 0..MaxRuleFaults /\ retired \in SUBSET (Rules \ DOMAIN rules)
  BY <1>2, CheckStateTyped, RuleConstants
     DEF InitRules, ListEntries, MatchEntries, EditStates
<1>4. WindowsWithinLimit
  BY <1>2 DEF InitRules, WindowsWithinLimit, Size
<1> QED BY <1>1, <1>3, <1>4, RuleTypesNamed DEF RulesInv

LEMMA RulesStep == RulesInv /\ [NextRules]_rulesVars => RulesInv'
<1> SUFFICES ASSUME RulesInv, [NextRules]_rulesVars PROVE RulesInv'
  OBVIOUS
<1>1. CASE UNCHANGED rulesVars
  <2>1. UNCHANGED <<rules, retired, active, resolved, windows, check, edit, ruleFaults>>
    BY <1>1 DEF rulesVars
  <2>2. RulesTypeOK'
    BY <2>1, RuleTypesNamed, RuleTypesNamedAfter DEF RulesInv
  <2> QED BY <2>1, <2>2 DEF RulesInv, WindowsWithinLimit, Size
<1>2. CASE NextRules
  BY <1>2, RowsSound, WindowsSound, CheckSound DEF NextRules
<1> QED BY <1>1, <1>2

(***************************************************************************)
(* A sliding window never holds more entries than the largest limit under  *)
(* which one of them was let in, though checks that overlap resolve their  *)
(* rules from caches that disagree and Redis fails before or after the     *)
(* script (_sliding_window_check).                                         *)
(***************************************************************************)
THEOREM SlidingWindowsSound == RulesSpec => []RulesInv
BY RulesBegin, RulesStep, PTL DEF RulesSpec
=============================================================================
