-------------------------- MODULE AuditOutboxProofs --------------------------
(***************************************************************************)
(* Proofs about the audit outbox (module AuditOutbox), for any servers,    *)
(* requests, records the table rejects, and sizes of batches and cache.    *)
(***************************************************************************)
EXTENDS AuditOutbox, SequenceLemmas, FiniteSetTheorems

-----------------------------------------------------------------------------
(* The cache of retry counts.                                              *)

\* Entries whose count is at most the failed attempts at their record.
Counted(a) == {e \in Entry : e.n <= a[e.id]}

\* A count is what some entry says, or zero.
LEMMA CountBound ==
  ASSUME NEW a \in [Records -> 0..MaxRetry], NEW c \in Seq(Counted(a)), NEW r \in Records
  PROVE  Count(c, r) \in 0..MaxRetry /\ Count(c, r) <= a[r]
<1> USE OutboxAssumption
<1>1. CASE EntryOf(c, r) = {}
  BY <1>1 DEF Count
<1>2. CASE EntryOf(c, r) # {}
  <2> DEFINE i == CHOOSE i \in EntryOf(c, r) : TRUE
  <2>1. i \in EntryOf(c, r)
    BY <1>2
  <2>2. i \in 1..Len(c) /\ c[i].id = r
    BY <2>1 DEF EntryOf
  <2>3. c[i] \in Counted(a)
    BY <2>2, ElementOfSeq
  <2>4. Count(c, r) = c[i].n
    BY <1>2 DEF Count
  <2> QED BY <2>2, <2>3, <2>4 DEF Counted, Entry
<1> QED BY <1>1, <1>2

\* Forgetting an entry.
LEMMA ForgetType ==
  ASSUME NEW S, NEW c \in Seq(S), NEW r
  PROVE  Forget(c, r) \in Seq(S) /\ Len(Forget(c, r)) <= Len(c)
<1>0. Len(c) \in Nat
  BY LenProperties
<1>1. CASE EntryOf(c, r) = {}
  BY <1>0, <1>1 DEF Forget
<1>2. CASE EntryOf(c, r) # {}
  <2> DEFINE i == CHOOSE i \in EntryOf(c, r) : TRUE
  <2>1. i \in 1..Len(c)
    BY <1>2 DEF EntryOf
  <2>2. Forget(c, r) = RemoveAt(c, i)
    BY <1>2 DEF Forget
  <2> HIDE DEF i
  <2>3. RemoveAt(c, i) \in Seq(S) /\ Len(RemoveAt(c, i)) = Len(c) - 1
    BY <2>1, RemoveAtProperties
  <2> QED BY <1>0, <2>2, <2>3
<1> QED BY <1>1, <1>2

\* Counting an attempt keeps the cache within its bound.
LEMMA IncrementType ==
  ASSUME NEW S, NEW c \in Seq(S), Len(c) <= CacheSize, NEW r,
         [id |-> r, n |-> Count(c, r) + 1] \in S
  PROVE  Increment(c, r) \in Seq(S) /\ Len(Increment(c, r)) <= CacheSize
<1> USE OutboxAssumption
<1> DEFINE f == Forget(c, r)
           d == Append(f, [id |-> r, n |-> Count(c, r) + 1])
<1>1. f \in Seq(S) /\ Len(f) <= Len(c)
  BY ForgetType
<1>2. Len(f) \in Nat /\ Len(c) \in Nat
  BY <1>1, LenProperties
<1>3. Increment(c, r) = IF Len(d) > CacheSize THEN Tail(d) ELSE d
  BY DEF Increment
<1> HIDE DEF f
<1>4. d \in Seq(S) /\ Len(d) = Len(f) + 1
  BY <1>1, AppendProperties
<1> HIDE DEF d
<1>5. CASE Len(d) > CacheSize
  <2>1. Tail(d) \in Seq(S) /\ Len(Tail(d)) = Len(d) - 1
    BY <1>2, <1>4, HeadTailProperties, EmptySeq
  <2> QED BY <1>1, <1>2, <1>3, <1>4, <1>5, <2>1
<1>6. CASE ~(Len(d) > CacheSize)
  BY <1>2, <1>3, <1>4, <1>6
<1> QED BY <1>5, <1>6

-----------------------------------------------------------------------------
(* The inductive invariant.                                                *)

\* A record that is still to be inserted is not in the outbox.
Fresh ==
  \A q \in Requests :
    /\ request[q] \in {"idle", "app", "log"} => outbox[<<q, 1>>] = "none"
    /\ request[q] # "done" => outbox[<<q, 2>>] = "none"

\* The log holds the deleted rows, and the acknowledged records were stored.
LogTells    == \A r \in Records : r \in logged <=> outbox[r] = "deleted"
AckedStored == \A r \in acked : outbox[r] # "none"

\* A batch settles rows it holds, all of them pending, in one way.
Batches ==
  \A s \in Servers :
    /\ txn[s].todo \cup txn[s].good \cup txn[s].poison \subseteq txn[s].held
    /\ txn[s].good \cap txn[s].poison = {}
    /\ txn[s].todo \cap (txn[s].good \cup txn[s].poison) = {}
    /\ \A r \in txn[s].held : Pending(r)

Apart ==
  \A s, t \in Servers : s # t => txn[s].held \cap txn[t].held = {}

\* No count exceeds the failures, and what is to be given up has failed enough.
CountsHold == \A s \in Servers : cache[s] \in Seq(Counted(attempts))
Exhausted  == \A s \in Servers : \A r \in txn[s].poison : attempts[r] = MaxRetry

IInv ==
  /\ TypeOK
  /\ Fresh /\ LogTells /\ AckedStored
  /\ Batches /\ Apart
  /\ CountsHold /\ Exhausted /\ GivenUpIsRetried

\* The records of a request are records.
LEMMA RecordTypes ==
  ASSUME NEW q \in Requests
  PROVE  Record(q) \in Records /\ <<q, 1>> \in Records /\ <<q, 2>> \in Records
BY DEF Record, Records

\* created_at is a number.
LEMMA ClockType == Clock \in Nat
<1>1. IsFiniteSet(Records)
  <2>1. IsFiniteSet({1, 2})
    <3>1. IsFiniteSet({1}) /\ IsFiniteSet({1} \cup {2})
      BY FS_Singleton, FS_AddElement
    <3>2. {1, 2} = {1} \cup {2}
      OBVIOUS
    <3> QED BY <3>1, <3>2
  <2> QED BY <2>1, FS_Product, OutboxAssumption DEF Records
<1>2. IsFiniteSet({r \in Records : createdAt[r] > 0})
  BY <1>1, FS_Subset
<1> QED BY <1>2, FS_CardinalityType DEF Clock

\* The invariant holds at first.
LEMMA InitInv == Init => IInv
<1> SUFFICES ASSUME Init PROVE IInv
  OBVIOUS
<1> USE OutboxAssumption DEF Init
<1>1. TypeOK
  <2>1. Months(1) \subseteq 1..MaxMonth
    BY DEF Months
  <2>2. \A s \in Servers : cache[s] = <<>> /\ <<>> \in Seq(Entry) /\ Len(<<>>) = 0
    BY EmptySeq
  <2> QED BY <2>1, <2>2 DEF TypeOK, NoTxn
<1>2. Fresh /\ LogTells /\ AckedStored
  BY RecordTypes DEF Fresh, LogTells, AckedStored
<1>3. Batches /\ Apart /\ Exhausted /\ GivenUpIsRetried
  BY DEF Batches, Apart, Exhausted, GivenUpIsRetried, NoTxn
<1>4. CountsHold
  BY EmptySeq DEF CountsHold
<1> QED BY <1>1, <1>2, <1>3, <1>4 DEF IInv

-----------------------------------------------------------------------------
(* The steps of the requests.                                              *)

\* A step that leaves the batches, the counts and the log alone and changes at
\* most rows that hold nothing.
LEMMA BatchesUntouched ==
  ASSUME IInv, outbox' \in [Records -> {"none", "pending", "processed", "deleted"}],
         \A r \in Records : outbox'[r] = outbox[r] \/ (outbox[r] = "none" /\ outbox'[r] = "pending"),
         UNCHANGED <<logged, txn, cache, attempts>>
  PROVE  /\ LogTells' /\ Batches' /\ Apart'
         /\ CountsHold' /\ Exhausted' /\ GivenUpIsRetried'
<1> USE DEF IInv
<1>1. LogTells'
  BY DEF LogTells
<1>2. Batches'
  BY DEF Batches, Pending, TypeOK
<1>3. Apart' /\ Exhausted' /\ GivenUpIsRetried'
  BY DEF Apart, Exhausted, GivenUpIsRetried
<1>4. CountsHold'
  BY DEF CountsHold, Counted
<1> QED BY <1>1, <1>2, <1>3, <1>4

\* An insert that ended leaves the other requests fresh.
LEMMA FreshKept ==
  ASSUME IInv, NEW q \in Requests, InFlight(q),
         \A p \in Requests \ {q} : request'[p] = request[p],
         request'[q] = "done" \/ (request'[q] = "last" /\ request[q] = "log"),
         \A r \in Records \ {Record(q)} : outbox'[r] = outbox[r]
  PROVE  Fresh'
<1> SUFFICES ASSUME NEW p \in Requests
             PROVE  /\ request'[p] \in {"idle", "app", "log"} => outbox'[<<p, 1>>] = "none"
                    /\ request'[p] # "done" => outbox'[<<p, 2>>] = "none"
  BY DEF Fresh
<1>0. <<p, 1>> \in Records /\ <<p, 2>> \in Records
  BY RecordTypes
<1>1. CASE p # q
  <2>1. <<p, 1>> # Record(q) /\ <<p, 2>> # Record(q)
    BY <1>1 DEF Record
  <2>2. outbox'[<<p, 1>>] = outbox[<<p, 1>>] /\ outbox'[<<p, 2>>] = outbox[<<p, 2>>]
    BY <1>0, <2>1
  <2> QED BY <1>1, <2>2 DEF IInv, Fresh
<1>2. CASE p = q /\ request'[q] = "last" /\ request[q] = "log"
  <2>1. <<q, 2>> # Record(q)
    BY <1>2 DEF Record
  <2>2. outbox'[<<q, 2>>] = outbox[<<q, 2>>]
    BY <1>0, <1>2, <2>1
  <2> QED BY <1>2, <2>2 DEF IInv, Fresh
<1> QED BY <1>1, <1>2

\* The middleware and insert() keep the invariant.
LEMMA RequestInv ==
  ASSUME IInv, NEW q \in Requests, RequestStep(q)
  PROVE  IInv'
<1> USE OutboxAssumption DEF IInv
<1>0. /\ Record(q) \in Records /\ <<q, 1>> \in Records /\ <<q, 2>> \in Records
      /\ InFlight(q) => outbox[Record(q)] = "none"
  BY RecordTypes DEF Record, InFlight, Fresh
<1>1. CASE Begin(q)
  <2>1. TypeOK'
    BY <1>1 DEF Begin, TypeOK, tables, movers, servers
  <2>2. Fresh' /\ AckedStored'
    BY <1>1 DEF Begin, Fresh, AckedStored, TypeOK, tables, movers, servers
  <2>3. LogTells' /\ Batches' /\ Apart' /\ CountsHold' /\ Exhausted' /\ GivenUpIsRetried'
    BY <1>1, BatchesUntouched DEF Begin, TypeOK, tables, movers, servers
  <2> QED BY <2>1, <2>2, <2>3
<1>2. CASE AppEnds(q)
  <2>1. PICK clause \in {<<"log", 1>>, <<"last", 2>>} :
          /\ request' = [request EXCEPT ![q] = clause[1]]
          /\ createdAt' = [createdAt EXCEPT ![<<q, clause[2]>>] = Clock]
    BY <1>2 DEF AppEnds
  <2>2. clause[1] \in {"log", "last"} /\ clause[2] \in {1, 2}
    BY <2>1
  <2>3. TypeOK'
    BY <1>0, <1>2, <2>1, <2>2, ClockType DEF AppEnds, TypeOK, tables, movers, servers
  <2>4. Fresh' /\ AckedStored'
    BY <1>2, <2>1, <2>2 DEF AppEnds, Fresh, AckedStored, TypeOK, tables, movers, servers
  <2>5. LogTells' /\ Batches' /\ Apart' /\ CountsHold' /\ Exhausted' /\ GivenUpIsRetried'
    BY <1>2, BatchesUntouched DEF AppEnds, TypeOK, tables, movers, servers
  <2> QED BY <2>3, <2>4, <2>5
<1>3. CASE InsertDone(q)
  <2>1. TypeOK'
    BY <1>0, <1>3 DEF InsertDone, TypeOK, movers, servers
  <2>2. Fresh'
    <3>1. \A r \in Records \ {Record(q)} : outbox'[r] = outbox[r]
      BY <1>0, <1>3 DEF InsertDone, TypeOK
    <3>2. \A p \in Requests \ {q} : request'[p] = request[p]
      BY <1>3 DEF InsertDone, TypeOK
    <3>3. request'[q] = "done" \/ (request'[q] = "last" /\ request[q] = "log")
      BY <1>3 DEF InsertDone, TypeOK
    <3> QED BY <1>3, <3>1, <3>2, <3>3, FreshKept DEF InsertDone
  <2>3. AckedStored'
    BY <1>0, <1>3 DEF InsertDone, AckedStored, TypeOK
  <2>4. LogTells' /\ Batches' /\ Apart' /\ CountsHold' /\ Exhausted' /\ GivenUpIsRetried'
    BY <1>0, <1>3, <2>1, BatchesUntouched, SMTT(40) DEF InsertDone, TypeOK, movers, servers
  <2> QED BY <2>1, <2>2, <2>3, <2>4
<1>4. CASE InsertFails(q)
  <2>1. TypeOK'
    BY <1>0, <1>4, SMTT(40) DEF InsertFails, TypeOK, Fault, movers, servers
  <2>2. Fresh'
    <3>1. \A r \in Records \ {Record(q)} : outbox'[r] = outbox[r]
      BY <1>0, <1>4 DEF InsertFails, TypeOK
    <3>2. \A p \in Requests \ {q} : request'[p] = request[p]
      BY <1>4 DEF InsertFails, TypeOK
    <3>3. request'[q] = "done" \/ (request'[q] = "last" /\ request[q] = "log")
      BY <1>4 DEF InsertFails, TypeOK
    <3> QED BY <1>4, <3>1, <3>2, <3>3, FreshKept DEF InsertFails
  <2>3. AckedStored'
    BY <1>0, <1>4 DEF InsertFails, AckedStored, TypeOK
  <2>4. LogTells' /\ Batches' /\ Apart' /\ CountsHold' /\ Exhausted' /\ GivenUpIsRetried'
    BY <1>0, <1>4, <2>1, BatchesUntouched, SMTT(40) DEF InsertFails, TypeOK, movers, servers
  <2> QED BY <2>1, <2>2, <2>3, <2>4
<1>5. CASE ClientGone(q)
  <2>1. TypeOK'
    <3>1. createdAt' \in [Records -> Nat]
      BY <1>0, <1>5, ClockType, ZenonT(60) DEF ClientGone, TypeOK
    <3>2. faults' \in 0..MaxFaults
      BY <1>5 DEF ClientGone, TypeOK, Fault
    <3>3. outbox' \in [Records -> {"none", "pending", "processed", "deleted"}]
      BY <1>0, <1>5, ZenonT(60) DEF ClientGone, TypeOK
    <3>4. request' \in [Requests -> {"idle", "app", "log", "last", "done"}]
      <4>1. \/ request' = [request EXCEPT ![q] = "last"]
            \/ request' = [request EXCEPT ![q] = "done"]
        BY <1>5 DEF ClientGone
      <4> QED BY <4>1 DEF TypeOK
    <3>5. UNCHANGED <<now, partitions, logged, month, acked, movers, servers, attempts>>
      BY <1>5 DEF ClientGone
    <3> QED BY <3>1, <3>2, <3>3, <3>4, <3>5 DEF TypeOK, movers, servers
  <2>2. Fresh'
    <3>1. \A r \in Records \ {Record(q)} : outbox'[r] = outbox[r]
      BY <1>0, <1>5 DEF ClientGone, TypeOK
    <3>2. \A p \in Requests \ {q} : request'[p] = request[p]
      BY <1>5 DEF ClientGone, TypeOK
    <3>3. request'[q] = "done" \/ (request'[q] = "last" /\ request[q] = "log")
      BY <1>5 DEF ClientGone, TypeOK
    <3> QED BY <1>5, <3>1, <3>2, <3>3, FreshKept DEF ClientGone
  <2>3. AckedStored'
    BY <1>0, <1>5 DEF ClientGone, AckedStored, TypeOK
  <2>4. LogTells' /\ Batches' /\ Apart' /\ CountsHold' /\ Exhausted' /\ GivenUpIsRetried'
    BY <1>0, <1>5, <2>1, BatchesUntouched, ZenonT(60) DEF ClientGone, TypeOK, movers, servers
  <2> QED BY <2>1, <2>2, <2>3, <2>4
<1> QED BY <1>1, <1>2, <1>3, <1>4, <1>5 DEF RequestStep

-----------------------------------------------------------------------------
(* The steps of the servers.                                               *)

TxnType == [held : SUBSET Records, todo : SUBSET Records,
            good : SUBSET Records, poison : SUBSET Records]

\* A step that leaves the records alone.
LEMMA RecordsUntouched ==
  ASSUME IInv, UNCHANGED <<request, outbox, logged, acked>>
  PROVE  Fresh' /\ LogTells' /\ AckedStored'
BY DEF IInv, Fresh, LogTells, AckedStored

\* One server's batch becomes t.
LEMMA BatchStep ==
  ASSUME IInv, NEW s \in Servers, NEW t \in TxnType,
         txn' = [txn EXCEPT ![s] = t],
         \A r \in Records : Pending(r) => Pending(r)',
         t.todo \cup t.good \cup t.poison \subseteq t.held,
         t.good \cap t.poison = {},
         t.todo \cap (t.good \cup t.poison) = {},
         \A r \in t.held : Pending(r),
         \A u \in Servers \ {s} : t.held \cap txn[u].held = {}
  PROVE  txn' \in [Servers -> TxnType] /\ Batches' /\ Apart'
<1> USE DEF IInv
<1>1. /\ txn \in [Servers -> TxnType]
      /\ txn' \in [Servers -> TxnType]
      /\ txn'[s] = t
      /\ \A u \in Servers \ {s} : txn'[u] = txn[u]
  BY DEF TypeOK, TxnType
<1>2. ASSUME NEW u \in Servers
      PROVE  /\ txn'[u].todo \cup txn'[u].good \cup txn'[u].poison \subseteq txn'[u].held
             /\ txn'[u].good \cap txn'[u].poison = {}
             /\ txn'[u].todo \cap (txn'[u].good \cup txn'[u].poison) = {}
             /\ \A r \in txn'[u].held : Pending(r)'
  <2>1. CASE u = s
    BY <1>1, <2>1 DEF TxnType
  <2>2. CASE u # s
    BY <1>1, <2>2 DEF TxnType, Batches
  <2> QED BY <2>1, <2>2
<1>3. Batches'
  BY <1>2 DEF Batches
<1>4. Apart'
  BY <1>1 DEF Apart
<1> QED BY <1>1, <1>3, <1>4

\* The batch ends, or is rolled back.
LEMMA EmptyBatch ==
  ASSUME IInv, NEW s \in Servers, txn' = [txn EXCEPT ![s] = NoTxn],
         \A r \in Records : Pending(r) => Pending(r)', UNCHANGED attempts
  PROVE  txn' \in [Servers -> TxnType] /\ Batches' /\ Apart' /\ Exhausted'
<1>1. /\ NoTxn \in TxnType
      /\ NoTxn.held = {} /\ NoTxn.todo = {} /\ NoTxn.good = {} /\ NoTxn.poison = {}
  BY DEF NoTxn, TxnType
<1>2. txn' \in [Servers -> TxnType] /\ Batches' /\ Apart'
  BY <1>1, BatchStep
<1>3. Exhausted'
  <2>1. \A u \in Servers : txn'[u].poison = {} \/ txn'[u] = txn[u]
    BY <1>1 DEF IInv, TypeOK
  <2> QED BY <2>1 DEF IInv, Exhausted
<1> QED BY <1>2, <1>3

\* A counted failure.
LEMMA FailedInv ==
  ASSUME IInv, NEW s \in Servers, NEW r \in Records,
         Row(s, r), Retried(s, r), Failed(s, r), UNCHANGED <<outbox, logged>>
  PROVE  /\ txn' \in [Servers -> TxnType] /\ Batches' /\ Apart'
         /\ cache' \in [Servers -> Seq(Entry)]
         /\ \A u \in Servers : Len(cache'[u]) <= CacheSize
         /\ attempts' \in [Records -> 0..MaxRetry]
         /\ CountsHold' /\ Exhausted' /\ GivenUpIsRetried'
<1> USE OutboxAssumption DEF IInv
<1> DEFINE t == [txn[s] EXCEPT !.todo = @ \ {r}]
           n == Count(cache[s], r)
<1>1. /\ txn[s] \in TxnType /\ txn' = [txn EXCEPT ![s] = t] /\ t \in TxnType
      /\ t.held = txn[s].held /\ t.good = txn[s].good /\ t.poison = txn[s].poison
      /\ t.todo \subseteq txn[s].todo
  BY ZenonT(60) DEF Failed, TypeOK, TxnType
<1>2. txn' \in [Servers -> TxnType] /\ Batches' /\ Apart'
  <2> HIDE DEF t
  <2>1. /\ t.todo \cup t.good \cup t.poison \subseteq t.held
        /\ t.good \cap t.poison = {}
        /\ t.todo \cap (t.good \cup t.poison) = {}
        /\ \A x \in t.held : Pending(x)
    BY <1>1 DEF Batches
  <2>2. \A u \in Servers \ {s} : t.held \cap txn[u].held = {}
    BY <1>1 DEF Apart
  <2>3. \A x \in Records : Pending(x) => Pending(x)'
    BY DEF Pending
  <2> QED BY <1>1, <2>1, <2>2, <2>3, BatchStep
<1>3. /\ attempts' \in [Records -> 0..MaxRetry]
      /\ \A x \in Records : attempts[x] <= attempts'[x]
      /\ attempts'[r] = IF attempts[r] < MaxRetry THEN attempts[r] + 1 ELSE attempts[r]
  BY SMTT(40) DEF Failed, TypeOK
<1>4. n \in 0..MaxRetry /\ n <= attempts[r] /\ n < MaxRetry
  BY CountBound DEF CountsHold, TypeOK, Retried
<1>5. Counted(attempts) \subseteq Counted(attempts')
  BY <1>3 DEF Counted, Entry, TypeOK
<1>6. \A u \in Servers : cache[u] \in Seq(Counted(attempts'))
  BY <1>5, SeqMonotonic DEF CountsHold
<1>7. [id |-> r, n |-> n + 1] \in Counted(attempts')
  <2>1. n + 1 \in 1..MaxRetry /\ n + 1 <= attempts'[r]
    BY <1>3, <1>4 DEF TypeOK
  <2> HIDE DEF n
  <2> QED BY <2>1 DEF Counted, Entry
<1>8. /\ Increment(cache[s], r) \in Seq(Counted(attempts'))
      /\ Len(Increment(cache[s], r)) <= CacheSize
  BY <1>6, <1>7, IncrementType DEF TypeOK
<1>9. cache' = [cache EXCEPT ![s] = Increment(cache[s], r)]
  BY DEF Failed
<1>10. \A u \in Servers : cache'[u] \in Seq(Counted(attempts')) /\ Len(cache'[u]) <= CacheSize
  BY <1>6, <1>8, <1>9 DEF TypeOK
<1>11. cache' \in [Servers -> Seq(Entry)]
  <2>1. Increment(cache[s], r) \in Seq(Entry)
    BY <1>8, SeqMonotonic DEF Counted
  <2> QED BY <1>9, <2>1 DEF TypeOK
<1>12. CountsHold'
  BY <1>10 DEF CountsHold
<1>13. \A x \in Records : attempts[x] = MaxRetry => attempts'[x] = MaxRetry
  BY DEF Failed, TypeOK
<1>14. Exhausted'
  <2>1. \A u \in Servers : txn'[u].poison = txn[u].poison /\ txn[u].poison \subseteq Records
    BY <1>1 DEF TypeOK, TxnType
  <2> QED BY <1>13, <2>1 DEF Exhausted
<1>15. GivenUpIsRetried'
  BY <1>13 DEF GivenUpIsRetried
<1> QED BY <1>2, <1>3, <1>10, <1>11, <1>12, <1>14, <1>15

\* A record that is settled, its count forgotten.
LEMMA ForgetInv ==
  ASSUME IInv, NEW s \in Servers, NEW r \in Records,
         cache' = [cache EXCEPT ![s] = Forget(@, r)], UNCHANGED attempts
  PROVE  /\ cache' \in [Servers -> Seq(Entry)]
         /\ \A u \in Servers : Len(cache'[u]) <= CacheSize
         /\ CountsHold'
<1> USE OutboxAssumption DEF IInv
<1>1. /\ Forget(cache[s], r) \in Seq(Entry)
      /\ Len(Forget(cache[s], r)) <= Len(cache[s])
  BY ForgetType DEF TypeOK
<1>2. Forget(cache[s], r) \in Seq(Counted(attempts))
  BY ForgetType DEF CountsHold
<1>3. Len(cache[s]) \in Nat /\ Len(Forget(cache[s], r)) \in Nat
  BY <1>1, LenProperties DEF TypeOK
<1>4. \A u \in Servers : cache'[u] = IF u = s THEN Forget(cache[s], r) ELSE cache[u]
  BY DEF TypeOK
<1>5. \A u \in Servers : cache'[u] \in Seq(Counted(attempts)) /\ Len(cache'[u]) <= CacheSize
  BY <1>1, <1>2, <1>3, <1>4 DEF TypeOK, CountsHold
<1>6. CountsHold'
  BY <1>5 DEF CountsHold, Counted
<1> QED BY <1>1, <1>5, <1>6 DEF TypeOK

\* A batch takes rows that no other batch holds.
LEMMA SelectInv ==
  ASSUME IInv, NEW s \in Servers, Select(s)
  PROVE  IInv'
<1> USE OutboxAssumption DEF IInv
<1> DEFINE free  == {r \in Records : Pending(r) /\ ~Locked(r)}
           batch == {r \in free : Cardinality({t \in free : createdAt[t] < createdAt[r]})
                                    < BatchSize}
           t     == [held |-> batch, todo |-> batch, good |-> {}, poison |-> {}]
<1>0. UNCHANGED <<now, tables, requests, cache, servers, attempts, faults>>
  BY DEF Select
<1>1. batch \subseteq free
  OBVIOUS
<1>2. \/ EndBatch(s)
      \/ Goto(s, "rows") /\ txn' = [txn EXCEPT ![s] = t]
  BY DEF Select
<1> HIDE DEF batch
<1>3. \A r \in Records : Pending(r) => Pending(r)'
  BY <1>0 DEF Pending, tables
<1>4. mover' \in [Servers -> {"off", "drain", "rows", "create", "sleep"}]
  BY <1>2 DEF EndBatch, Goto, AfterBatch, TypeOK
<1>5. txn' \in [Servers -> TxnType] /\ Batches' /\ Apart' /\ Exhausted'
  <2>1. CASE EndBatch(s)
    BY <1>0, <1>3, <2>1, EmptyBatch DEF EndBatch
  <2>2. CASE txn' = [txn EXCEPT ![s] = t]
    <3>1. /\ t \in TxnType /\ t.held = batch /\ t.todo = batch
          /\ t.good = {} /\ t.poison = {}
      BY <1>1 DEF TxnType
    <3>2. \A r \in t.held : Pending(r)
      BY <1>1, <3>1
    <3>3. \A u \in Servers \ {s} : t.held \cap txn[u].held = {}
      BY <1>1, <3>1 DEF Locked
    <3> HIDE DEF t
    <3>4. txn' \in [Servers -> TxnType] /\ Batches' /\ Apart'
      BY <1>3, <2>2, <3>1, <3>2, <3>3, BatchStep, ZenonT(60)
    <3>5. \A u \in Servers : txn'[u].poison = {} \/ txn'[u] = txn[u]
      BY <2>2, <3>1 DEF TypeOK
    <3> QED BY <1>0, <3>4, <3>5 DEF Exhausted
  <2> QED BY <1>2, <2>1, <2>2
<1>6. TypeOK'
  BY <1>0, <1>4, <1>5 DEF TypeOK, TxnType, tables, requests, servers
<1>7. Fresh' /\ LogTells' /\ AckedStored'
  BY <1>0, RecordsUntouched DEF tables, requests
<1>8. CountsHold' /\ GivenUpIsRetried'
  BY <1>0 DEF CountsHold, Counted, GivenUpIsRetried, tables
<1> QED BY <1>5, <1>6, <1>7, <1>8

\* A record that was stored, or is given up.
LEMMA SettledInv ==
  ASSUME IInv, NEW s \in Servers, NEW r \in Records, Store(s, r) \/ GiveUp(s, r)
  PROVE  IInv'
<1> USE OutboxAssumption DEF IInv
<1> DEFINE t == IF Store(s, r)
                THEN [txn[s] EXCEPT !.good = @ \cup {r}, !.todo = @ \ {r}]
                ELSE [txn[s] EXCEPT !.poison = @ \cup {r}, !.todo = @ \ {r}]
<1>0. /\ UNCHANGED <<now, tables, requests, mover, servers, attempts, faults>>
      /\ cache' = [cache EXCEPT ![s] = Forget(@, r)]
      /\ Row(s, r)
  BY DEF Store, GiveUp
<1>1. txn' = [txn EXCEPT ![s] = t]
  BY DEF Store, GiveUp, TypeOK
<1>2. /\ t \in TxnType /\ txn[s] \in TxnType /\ t.held = txn[s].held
      /\ t.todo = txn[s].todo \ {r}
      /\ \/ Store(s, r) /\ t.good = txn[s].good \cup {r} /\ t.poison = txn[s].poison
         \/ GiveUp(s, r) /\ t.good = txn[s].good /\ t.poison = txn[s].poison \cup {r}
  BY ZenonT(60) DEF TypeOK, TxnType
<1> HIDE DEF t
<1>3. r \in txn[s].todo
  BY <1>0 DEF Row
<1>4. txn' \in [Servers -> TxnType] /\ Batches' /\ Apart'
  <2>1. /\ t.todo \cup t.good \cup t.poison \subseteq t.held
        /\ t.good \cap t.poison = {}
        /\ t.todo \cap (t.good \cup t.poison) = {}
        /\ \A x \in t.held : Pending(x)
    BY <1>2, <1>3 DEF Batches
  <2>2. \A u \in Servers \ {s} : t.held \cap txn[u].held = {}
    BY <1>2 DEF Apart
  <2>3. \A x \in Records : Pending(x) => Pending(x)'
    BY <1>0 DEF Pending, tables
  <2> QED BY <1>1, <1>2, <2>1, <2>2, <2>3, BatchStep
<1>5. Exhausted'
  <2>1. GiveUp(s, r) => attempts[r] = MaxRetry
    <3>1. Count(cache[s], r) \in 0..MaxRetry /\ Count(cache[s], r) <= attempts[r]
      BY CountBound DEF CountsHold, TypeOK
    <3> QED BY <3>1 DEF GiveUp, Retried, TypeOK
  <2>2. \A x \in t.poison : attempts[x] = MaxRetry
    BY <1>2, <2>1 DEF Exhausted
  <2>3. \A u \in Servers : txn'[u] = IF u = s THEN t ELSE txn[u]
    BY <1>1 DEF TypeOK
  <2> QED BY <1>0, <2>2, <2>3 DEF Exhausted
<1>6. /\ cache' \in [Servers -> Seq(Entry)]
      /\ \A u \in Servers : Len(cache'[u]) <= CacheSize
      /\ CountsHold'
  BY <1>0, ForgetInv
<1>7. TypeOK'
  BY <1>0, <1>4, <1>6 DEF TypeOK, TxnType, tables, requests, servers
<1>8. Fresh' /\ LogTells' /\ AckedStored'
  BY <1>0, RecordsUntouched DEF tables, requests
<1>9. GivenUpIsRetried'
  BY <1>0 DEF GivenUpIsRetried, tables
<1> QED BY <1>4, <1>5, <1>6, <1>7, <1>8, <1>9

\* A failed insert or a failed creation of a partition.
LEMMA FailureInv ==
  ASSUME IInv, NEW s \in Servers, NEW r \in Records, StoreFails(s, r) \/ CreateFails(s, r)
  PROVE  IInv'
<1> USE OutboxAssumption DEF IInv
<1>0. /\ UNCHANGED <<now, tables, requests, servers>>
      /\ Row(s, r) /\ Retried(s, r) /\ Failed(s, r)
  BY DEF StoreFails, CreateFails
<1>1. /\ mover' \in [Servers -> {"off", "drain", "rows", "create", "sleep"}]
      /\ faults' \in 0..MaxFaults
  BY DEF StoreFails, CreateFails, Goto, Fault, TypeOK
<1>2. /\ txn' \in [Servers -> TxnType] /\ Batches' /\ Apart'
      /\ cache' \in [Servers -> Seq(Entry)]
      /\ \A u \in Servers : Len(cache'[u]) <= CacheSize
      /\ attempts' \in [Records -> 0..MaxRetry]
      /\ CountsHold' /\ Exhausted' /\ GivenUpIsRetried'
  BY <1>0, FailedInv DEF tables
<1>3. TypeOK'
  BY <1>0, <1>1, <1>2 DEF TypeOK, TxnType, tables, requests, servers
<1>4. Fresh' /\ LogTells' /\ AckedStored'
  BY <1>0, RecordsUntouched DEF tables, requests
<1> QED BY <1>2, <1>3, <1>4

\* Steps that touch neither records nor batches nor counts.
LEMMA QuietInv ==
  ASSUME IInv,
         UNCHANGED <<request, month, createdAt, acked, outbox, logged, txn, attempts>>,
         \/ UNCHANGED cache
         \/ \E s \in Servers : cache' = [cache EXCEPT ![s] = <<>>],
         now' \in 1..MaxMonth,
         partitions' \subseteq 1..MaxMonth,
         mover' \in [Servers -> {"off", "drain", "rows", "create", "sleep"}],
         booting' \subseteq Servers, flushing' \subseteq Servers,
         faults' \in 0..MaxFaults
  PROVE  IInv'
<1> USE OutboxAssumption DEF IInv
<1>1. /\ cache' \in [Servers -> Seq(Entry)]
      /\ \A u \in Servers : Len(cache'[u]) <= CacheSize
      /\ CountsHold'
  <2>1. CASE UNCHANGED cache
    BY <2>1 DEF TypeOK, CountsHold, Counted
  <2>2. CASE \E s \in Servers : cache' = [cache EXCEPT ![s] = <<>>]
    <3>1. /\ <<>> \in Seq(Entry) /\ Len(<<>>) = 0
          /\ <<>> \in Seq(Counted(attempts))
      BY EmptySeq
    <3>2. \A u \in Servers : cache'[u] = <<>> \/ cache'[u] = cache[u]
      BY <2>2 DEF TypeOK
    <3>3. CountsHold'
      BY <3>1, <3>2 DEF CountsHold, Counted
    <3> QED BY <2>2, <3>1, <3>2, <3>3 DEF TypeOK
  <2> QED BY <2>1, <2>2
<1>2. TypeOK'
  BY <1>1 DEF TypeOK
<1>3. Fresh' /\ LogTells' /\ AckedStored'
  BY RecordsUntouched
<1>4. Batches' /\ Apart' /\ Exhausted' /\ GivenUpIsRetried'
  BY DEF Batches, Apart, Exhausted, GivenUpIsRetried, Pending
<1> QED BY <1>1, <1>2, <1>3, <1>4

\* Waking up, starting, partitions and the calendar.
LEMMA QuietSteps ==
  ASSUME IInv, NEW s \in Servers,
         \/ \E r \in Records : NoPartition(s, r) \/ CreatePartition(s, r)
         \/ Wake(s) \/ Start(s) \/ EnsurePartitions(s) \/ NextMonth
  PROVE  IInv'
<1> USE OutboxAssumption DEF IInv
<1>1. ASSUME NEW r \in Records, NoPartition(s, r)
      PROVE  IInv'
  BY <1>1, QuietInv DEF NoPartition, Goto, TypeOK, tables, requests, servers
<1>2. ASSUME NEW r \in Records, CreatePartition(s, r)
      PROVE  IInv'
  <2>1. MonthOf(r) \in 1..MaxMonth
    <3>1. r[1] \in Requests
      BY DEF Records
    <3> QED BY <3>1 DEF MonthOf, TypeOK
  <2> QED BY <1>2, <2>1, QuietInv DEF CreatePartition, Goto, TypeOK, requests, servers
<1>3. CASE Wake(s)
  BY <1>3, QuietInv DEF Wake, Goto, TypeOK, tables, requests, servers
<1>4. CASE Start(s)
  BY <1>4, QuietInv DEF Start, Goto, TypeOK, tables, requests
<1>5. CASE EnsurePartitions(s)
  <2>1. Months(now) \subseteq 1..MaxMonth
    BY DEF Months, TypeOK
  <2>2. partitions' \subseteq 1..MaxMonth /\ faults' \in 0..MaxFaults
    <3>1. \/ partitions' = partitions \cup Months(now) /\ UNCHANGED faults
          \/ Fault /\ UNCHANGED partitions
      BY <1>5 DEF EnsurePartitions
    <3>2. partitions' \subseteq 1..MaxMonth
      BY <2>1, <3>1 DEF TypeOK
    <3>3. faults' \in 0..MaxFaults
      BY <3>1 DEF Fault, TypeOK
    <3> QED BY <3>2, <3>3
  <2>3. /\ UNCHANGED <<now, outbox, logged, requests, movers, flushing, attempts>>
        /\ booting' \subseteq Servers
    BY <1>5 DEF EnsurePartitions, TypeOK
  <2> QED BY <2>2, <2>3, QuietInv DEF TypeOK, requests, movers
<1>6. CASE NextMonth
  BY <1>6, QuietInv DEF NextMonth, TypeOK, tables, requests, movers, servers
<1> QED BY <1>1, <1>2, <1>3, <1>4, <1>5, <1>6

\* The batch is committed.
LEMMA CommitInv ==
  ASSUME IInv, NEW s \in Servers, Commit(s)
  PROVE  IInv'
<1> USE OutboxAssumption DEF IInv
<1>0. /\ UNCHANGED <<now, partitions, requests, cache, servers, attempts, faults>>
      /\ logged' = logged \cup txn[s].good
      /\ outbox' = [r \in Records |-> IF r \in txn[s].good THEN "deleted"
                                      ELSE IF r \in txn[s].poison THEN "processed"
                                      ELSE outbox[r]]
      /\ txn' = [txn EXCEPT ![s] = NoTxn]
  BY DEF Commit, Moved, EndBatch
<1>1. /\ txn[s].good \subseteq txn[s].held /\ txn[s].poison \subseteq txn[s].held
      /\ txn[s].good \cap txn[s].poison = {} /\ txn[s].held \subseteq Records
      /\ \A r \in txn[s].held : outbox[r] = "pending"
  BY DEF Batches, Pending, TypeOK
<1>2. /\ NoTxn \in TxnType
      /\ NoTxn.held = {} /\ NoTxn.todo = {} /\ NoTxn.good = {} /\ NoTxn.poison = {}
  BY DEF NoTxn, TxnType
<1>3. /\ txn' \in [Servers -> TxnType]
      /\ \A u \in Servers : txn'[u] = IF u = s THEN NoTxn ELSE txn[u]
  BY <1>0, <1>2 DEF TypeOK, TxnType
<1>4. TypeOK'
  <2>1. mover' \in [Servers -> {"off", "drain", "rows", "create", "sleep"}]
    BY DEF Commit, EndBatch, Goto, AfterBatch, TypeOK
  <2>2. outbox' \in [Records -> {"none", "pending", "processed", "deleted"}]
    BY <1>0 DEF TypeOK
  <2> QED BY <1>0, <1>1, <1>3, <2>1, <2>2 DEF TypeOK, TxnType, requests, servers
<1>5. Fresh' /\ LogTells' /\ AckedStored'
  <2>1. Fresh'
    BY <1>0, <1>1, RecordTypes DEF Fresh, requests
  <2>2. LogTells'
    BY <1>0, <1>1 DEF LogTells
  <2>3. AckedStored'
    BY <1>0 DEF AckedStored, TypeOK, requests
  <2> QED BY <2>1, <2>2, <2>3
<1>6. Batches'
  <2>1. ASSUME NEW u \in Servers, u # s
        PROVE  \A r \in txn[u].held : outbox'[r] = "pending"
    <3>1. \A r \in txn[u].held : r \in Records /\ outbox[r] = "pending" /\ r \notin txn[s].held
      BY <2>1 DEF Apart, Batches, Pending, TypeOK
    <3> QED BY <1>0, <1>1, <3>1
  <2> QED BY <1>2, <1>3, <2>1 DEF Batches, Pending
<1>7. Apart'
  BY <1>2, <1>3 DEF Apart
<1>8. CountsHold' /\ Exhausted'
  BY <1>0, <1>2, <1>3 DEF CountsHold, Counted, Exhausted
<1>9. GivenUpIsRetried'
  BY <1>0 DEF GivenUpIsRetried, Exhausted
<1> QED BY <1>4, <1>5, <1>6, <1>7, <1>8, <1>9

\* The batch is rolled back.
LEMMA RollbackInv ==
  ASSUME IInv, NEW s \in Servers, BatchFails(s) \/ Stop(s) \/ FlushTimeout(s)
  PROVE  IInv'
<1> USE OutboxAssumption DEF IInv
<1>0. /\ UNCHANGED <<now, tables, requests, cache, booting, attempts>>
      /\ txn' = [txn EXCEPT ![s] = NoTxn]
  BY DEF BatchFails, Stop, FlushTimeout, EndBatch, servers
<1>1. /\ mover' \in [Servers -> {"off", "drain", "rows", "create", "sleep"}]
      /\ faults' \in 0..MaxFaults
      /\ flushing' \subseteq Servers
  <2>1. AfterBatch(s) \in {"off", "drain", "sleep"}
    BY DEF AfterBatch
  <2>2. CASE BatchFails(s)
    BY <2>1, <2>2 DEF BatchFails, EndBatch, Goto, Fault, servers, TypeOK
  <2>3. CASE Stop(s)
    BY <2>3 DEF Stop, Goto, Fault, TypeOK
  <2>4. CASE FlushTimeout(s)
    BY <2>1, <2>4 DEF FlushTimeout, EndBatch, Goto, servers, TypeOK
  <2> QED BY <2>2, <2>3, <2>4
<1>2. txn' \in [Servers -> TxnType] /\ Batches' /\ Apart' /\ Exhausted'
  BY <1>0, EmptyBatch DEF Pending, tables
<1>3. TypeOK'
  BY <1>0, <1>1, <1>2 DEF TypeOK, TxnType, tables, requests
<1>4. Fresh' /\ LogTells' /\ AckedStored'
  BY <1>0, RecordsUntouched DEF tables, requests
<1>5. CountsHold' /\ GivenUpIsRetried'
  BY <1>0 DEF CountsHold, Counted, GivenUpIsRetried, tables
<1> QED BY <1>2, <1>3, <1>4, <1>5

\* A crash may leave rows of the inserts it cut short.
LEMMA CrashInv ==
  ASSUME IInv, NEW s \in Servers, Crash(s)
  PROVE  IInv'
<1> USE OutboxAssumption DEF IInv
<1> DEFINE cut == {q \in Requests : ServerOf[q] = s /\ request[q] \in {"app", "log", "last"}}
           onWay == {Record(q) : q \in {p \in cut : InFlight(p)}}
<1>0. /\ UNCHANGED <<now, partitions, logged, month, createdAt, acked, cache, flushing, attempts>>
      /\ request' = [q \in Requests |-> IF q \in cut THEN "done" ELSE request[q]]
      /\ txn' = [txn EXCEPT ![s] = NoTxn]
  BY DEF Crash
<1>1. PICK kept \in SUBSET onWay :
        outbox' = [r \in Records |-> IF r \in kept THEN "pending" ELSE outbox[r]]
  BY DEF Crash
<1>2. \A r \in kept : \E q \in cut : r = Record(q) /\ r \in Records /\ outbox[r] = "none"
  <2> SUFFICES ASSUME NEW r \in kept
               PROVE  \E q \in cut : r = Record(q) /\ r \in Records /\ outbox[r] = "none"
    OBVIOUS
  <2>1. PICK q \in cut : InFlight(q) /\ r = Record(q)
    OBVIOUS
  <2>2. outbox[Record(q)] = "none"
    BY <2>1 DEF InFlight, Record, Fresh
  <2> QED BY <2>1, <2>2, RecordTypes
<1> HIDE DEF onWay
<1>3. outbox' \in [Records -> {"none", "pending", "processed", "deleted"}]
  BY <1>1 DEF TypeOK
<1>4. \A r \in Records : outbox'[r] = outbox[r] \/ (outbox[r] = "none" /\ outbox'[r] = "pending")
  BY <1>1, <1>2
<1>5. txn' \in [Servers -> TxnType] /\ Batches' /\ Apart' /\ Exhausted'
  <2>1. \A r \in Records : Pending(r) => Pending(r)'
    BY <1>4 DEF Pending
  <2> QED BY <1>0, <2>1, EmptyBatch
<1>6. TypeOK'
  <2>1. /\ mover' \in [Servers -> {"off", "drain", "rows", "create", "sleep"}]
        /\ faults' \in 0..MaxFaults
        /\ booting' \subseteq Servers
    BY DEF Crash, Goto, Fault, TypeOK
  <2>2. request' \in [Requests -> {"idle", "app", "log", "last", "done"}]
    BY <1>0 DEF TypeOK
  <2> QED BY <1>0, <1>3, <1>5, <2>1, <2>2 DEF TypeOK, TxnType
<1>7. Fresh'
  <2> SUFFICES ASSUME NEW q \in Requests, q \notin cut
               PROVE  outbox'[<<q, 1>>] = outbox[<<q, 1>>] /\ outbox'[<<q, 2>>] = outbox[<<q, 2>>]
    BY <1>0, RecordTypes DEF Fresh
  <2>1. <<q, 1>> \notin kept /\ <<q, 2>> \notin kept
    BY <1>2 DEF Record
  <2> QED BY <1>1, <2>1, RecordTypes
<1>8. LogTells' /\ AckedStored' /\ GivenUpIsRetried'
  BY <1>0, <1>4 DEF LogTells, AckedStored, GivenUpIsRetried, TypeOK
<1>9. CountsHold'
  BY <1>0 DEF CountsHold, Counted
<1> QED BY <1>5, <1>6, <1>7, <1>8, <1>9

-----------------------------------------------------------------------------
(* The theorems.                                                           *)

\* The invariant is about the variables of the specification only.
LEMMA StutterInv == IInv /\ UNCHANGED vars => IInv'
<1> SUFFICES ASSUME IInv, UNCHANGED vars PROVE IInv'
  OBVIOUS
<1> USE DEF vars, tables, requests, movers, servers, IInv
<1>1. TypeOK'
  BY DEF TypeOK
<1>2. Fresh' /\ LogTells' /\ AckedStored'
  BY RecordsUntouched
<1>3. Batches' /\ Apart' /\ Exhausted' /\ GivenUpIsRetried'
  BY DEF Batches, Apart, Exhausted, GivenUpIsRetried, Pending
<1>4. CountsHold'
  BY DEF CountsHold, Counted
<1> QED BY <1>1, <1>2, <1>3, <1>4

\* The invariant is inductive.
LEMMA StepInv == IInv /\ [Next]_vars => IInv'
<1> SUFFICES ASSUME IInv, Next PROVE IInv'
  BY StutterInv
<1>1. ASSUME NEW q \in Requests, RequestStep(q)
      PROVE  IInv'
  BY <1>1, RequestInv
<1>2. ASSUME NEW s \in Servers, MoverStep(s)
      PROVE  IInv'
  BY <1>2, SelectInv, SettledInv, FailureInv, QuietSteps, CommitInv DEF MoverStep, RowStep
<1>3. ASSUME NEW s \in Servers, ServerStep(s)
      PROVE  IInv'
  BY <1>3, QuietSteps, RollbackInv, CrashInv, FailureInv DEF ServerStep
<1>4. CASE NextMonth
  BY <1>4, QuietInv, OutboxAssumption
  DEF NextMonth, IInv, TypeOK, tables, requests, movers, servers
<1> QED BY <1>1, <1>2, <1>3, <1>4 DEF Next

\* It holds in every reachable state.
LEMMA Invariance == Spec => []IInv
<1> QED BY InitInv, StepInv, PTL DEF Spec

\* A record whose insert returned an id is in the outbox, in the log or given
\* up, whatever was rolled back or crashed (audit_outbox_service.py:597, the
\* delete of the stored records at the end of a batch).
THEOREM NothingLost == Spec => []AckedIsKept
<1>1. IInv => AckedIsKept
  BY DEF IInv, TypeOK, LogTells, AckedStored, AckedIsKept
<1> QED BY <1>1, Invariance, PTL

\* The batches of all servers hold pending rows that no other one holds
\* (audit_outbox_service.py:440, FOR UPDATE SKIP LOCKED), and no cache of retry
\* counts exceeds its bound and no count the limit (audit_outbox_service.py:125,
\* LRURetryCache.increment).
THEOREM BatchesApart == Spec => []OutboxInv
<1>1. IInv => TypeOK
  BY DEF IInv
<1>2. IInv => HeldOnce
  BY DEF IInv, TypeOK, LogTells, Batches, Apart, Pending, HeldOnce
<1> QED BY <1>1, <1>2, Invariance, PTL DEF OutboxInv

\* Nothing is given up before its last attempt failed, although counts are
\* evicted, cleared before the commit and lost (audit_outbox_service.py:466).
THEOREM GivenUpAfterRetries == Spec => []GivenUpIsRetried
<1>1. IInv => GivenUpIsRetried
  BY DEF IInv
<1> QED BY <1>1, Invariance, PTL

-----------------------------------------------------------------------------
(* Refinement.                                                             *)

\* What a row says of the fate of its record.
FateOf(row) ==
  IF row = "deleted" THEN "logged" ELSE IF row = "processed" THEN "given up" ELSE row

\* Under the invariant a row tells the fate of its record.
LEMMA FateOfRow ==
  ASSUME IInv, IInv'
  PROVE  /\ fateOf = [r \in Records |-> FateOf(outbox[r])]
         /\ fateOf' = [r \in Records |-> FateOf(outbox'[r])]
<1>1. fateOf = [r \in Records |-> FateOf(outbox[r])]
  <2>1. \A r \in Records : /\ r \in logged <=> outbox[r] = "deleted"
                           /\ outbox[r] \in {"none", "pending", "processed", "deleted"}
    BY DEF IInv, LogTells, TypeOK
  <2> QED BY <2>1 DEF fateOf, FateOf
<1>2. fateOf' = [r \in Records |-> FateOf(outbox'[r])]
  <2>1. \A r \in Records : /\ r \in logged' <=> outbox'[r] = "deleted"
                           /\ outbox'[r] \in {"none", "pending", "processed", "deleted"}
    BY DEF IInv, LogTells, TypeOK
  <2> QED BY <2>1 DEF fateOf, FateOf
<1> QED BY <1>1, <1>2

\* Rows that appear are a capture.
LEMMA InsertsCapture ==
  ASSUME IInv, IInv',
         \A r \in Records : outbox'[r] = outbox[r] \/ (outbox[r] = "none" /\ outbox'[r] = "pending")
  PROVE  Fate!Capture
<1> DEFINE S == {r \in Records : outbox[r] = "none" /\ outbox'[r] = "pending"}
<1>1. /\ fateOf = [r \in Records |-> FateOf(outbox[r])]
      /\ fateOf' = [r \in Records |-> FateOf(outbox'[r])]
  BY FateOfRow
<1>2. S \in SUBSET Fate!With("none")
  BY <1>1 DEF Fate!With, FateOf
<1>3. fateOf' = [r \in Records |-> IF r \in S THEN "pending" ELSE fateOf[r]]
  BY <1>1 DEF FateOf
<1> QED BY <1>2, <1>3 DEF Fate!Capture

\* A commit settles what the batch stored and gave up.
LEMMA CommitSettles ==
  ASSUME IInv, IInv', NEW s \in Servers, Commit(s)
  PROVE  Fate!Settle
<1>1. /\ fateOf = [r \in Records |-> FateOf(outbox[r])]
      /\ fateOf' = [r \in Records |-> FateOf(outbox'[r])]
  BY FateOfRow
<1>2. /\ txn[s].good \subseteq Records /\ txn[s].poison \subseteq Records
      /\ txn[s].good \cap txn[s].poison = {}
      /\ \A r \in txn[s].good \cup txn[s].poison : outbox[r] = "pending"
  BY DEF IInv, Batches, Pending, TypeOK
<1>3. txn[s].good \in SUBSET Fate!With("pending") /\ txn[s].poison \in SUBSET Fate!With("pending")
  BY <1>1, <1>2 DEF Fate!With, FateOf
<1>4. outbox' = [r \in Records |-> IF r \in txn[s].good THEN "deleted"
                                   ELSE IF r \in txn[s].poison THEN "processed" ELSE outbox[r]]
  BY DEF Commit, Moved
<1>5. fateOf' = [r \in Records |-> IF r \in txn[s].good THEN "logged"
                                   ELSE IF r \in txn[s].poison THEN "given up" ELSE fateOf[r]]
  BY <1>1, <1>4 DEF FateOf
<1> QED BY <1>2, <1>3, <1>5 DEF Fate!Settle

\* Every step is a capture, a settlement or none of the log's business.
LEMMA StepRefines ==
  IInv /\ IInv' /\ [Next]_vars => [Fate!Capture \/ Fate!Settle]_fateOf
<1> SUFFICES ASSUME IInv, IInv', [Next]_vars
             PROVE  Fate!Capture \/ Fate!Settle \/ UNCHANGED fateOf
  OBVIOUS
<1>0. CASE UNCHANGED outbox
  BY <1>0, InsertsCapture
<1>1. ASSUME NEW q \in Requests, RequestStep(q)
      PROVE  Fate!Capture
  <2>1. Record(q) \in Records /\ (InFlight(q) => outbox[Record(q)] = "none")
    BY RecordTypes DEF IInv, Record, InFlight, Fresh
  <2>2. \/ UNCHANGED outbox
        \/ InFlight(q) /\ outbox' = [outbox EXCEPT ![Record(q)] = "pending"]
    BY <1>1 DEF RequestStep, Begin, AppEnds, InsertDone, InsertFails, ClientGone, tables
  <2> QED BY <2>1, <2>2, InsertsCapture, ZenonT(60) DEF IInv, TypeOK
<1>2. ASSUME NEW s \in Servers, MoverStep(s)
      PROVE  UNCHANGED outbox \/ Fate!Settle
  BY <1>2, CommitSettles
  DEF MoverStep, RowStep, Select, GiveUp, Store, StoreFails, NoPartition, CreatePartition,
      Wake, tables
<1>3. ASSUME NEW s \in Servers, ServerStep(s)
      PROVE  UNCHANGED outbox \/ Fate!Capture
  <2>1. CASE Crash(s)
    <3> DEFINE cut == {q \in Requests : ServerOf[q] = s /\ request[q] \in {"app", "log", "last"}}
    <3>1. PICK kept \in SUBSET {Record(q) : q \in {p \in cut : InFlight(p)}} :
            outbox' = [r \in Records |-> IF r \in kept THEN "pending" ELSE outbox[r]]
      BY <2>1 DEF Crash
    <3>2. ASSUME NEW r \in kept
          PROVE  outbox[r] = "none"
      <4>1. PICK q \in cut : InFlight(q) /\ r = Record(q)
        OBVIOUS
      <4> QED BY <4>1 DEF IInv, InFlight, Record, Fresh
    <3> QED BY <3>1, <3>2, InsertsCapture
  <2>2. CASE ~Crash(s)
    BY <1>3, <2>2
    DEF ServerStep, Start, EnsurePartitions, Stop, FlushTimeout, CreateFails, BatchFails, tables
  <2> QED BY <2>1, <2>2
<1>4. CASE NextMonth
  BY <1>0, <1>4 DEF NextMonth, tables
<1>5. CASE UNCHANGED vars
  BY <1>0, <1>5 DEF vars, tables
<1> QED BY <1>0, <1>1, <1>2, <1>3, <1>4, <1>5 DEF Next

\* The initial states are ones of AuditFate.
LEMMA InitRefines == Init => Fate!Init
BY DEF Init, Fate!Init, fateOf

\* The outbox implements AuditFate: a captured record is logged or given up,
\* once and for good, through batches that are rolled back, repeated and shared
\* among servers (audit_outbox_service.py:423, _move_batch).
THEOREM RefinesFate == Spec => ImplementsFate
<1> QED BY InitRefines, Invariance, StepRefines, PTL DEF Spec, ImplementsFate, Fate!Spec
=============================================================================
