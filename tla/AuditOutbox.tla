----------------------------- MODULE AuditOutbox -----------------------------
(***************************************************************************)
(* Audit records on their way from a request to the partitioned table      *)
(* audit_logs (middleware/audit.py, services/audit_outbox_service.py,      *)
(* services/partition_service.py): the middleware inserts a record into    *)
(* the outbox table, and the mover of each server takes batches out of it. *)
(*                                                                         *)
(* A batch is one database transaction with a savepoint per record; its    *)
(* effects are kept in txn until it commits.  The counts of failures are   *)
(* kept in memory and survive a rollback.  A new partition is created on a *)
(* connection of its own while the transaction of the batch stays open.    *)
(***************************************************************************)
EXTENDS Naturals, FiniteSets, SequencesExt

CONSTANTS
  Servers, Requests,
  ServerOf,     \* the server a request is sent to
  Bad,          \* records the audit table rejects
  BatchSize,    \* BATCH_SIZE
  CacheSize,    \* MAX_RETRY_CACHE_SIZE
  MaxRetry,     \* MAX_RETRY_COUNT
  MonthsAhead,  \* DEFAULT_MONTHS_AHEAD
  MaxMonth,     \* bound on the months that pass
  MaxFaults     \* bound on database errors, lost clients, stops and crashes

\* A request leaves a record, and a second one when its client goes away while
\* the first is inserted.
Records == Requests \X {1, 2}

ASSUME OutboxAssumption ==
  /\ IsFiniteSet(Requests)
  /\ ServerOf \in [Requests -> Servers]
  /\ Bad \subseteq Records
  /\ BatchSize \in Nat \ {0}
  /\ MaxRetry \in Nat \ {0}
  /\ CacheSize \in Nat \ {0}
  /\ MonthsAhead \in Nat
  /\ MaxMonth \in Nat \ {0}
  /\ MaxFaults \in Nat

VARIABLES
  now,         \* the current month
  partitions,  \* months for which audit_logs has a partition
  request,     \* where each request is
  month,       \* the month each request began in
  createdAt,   \* created_at of each record, 0 before
  outbox,      \* the rows of audit_logs_outbox
  logged,      \* the rows of audit_logs
  mover,       \* where each server's mover is
  txn,         \* the open transaction of its batch
  cache,       \* its LRURetryCache, oldest entry first
  booting,     \* servers that have not ensured the partitions yet
  flushing,    \* servers that stop and move a last batch
  acked,       \* records whose insert returned an id (history)
  attempts,    \* failed attempts at each record, up to MaxRetry (history)
  faults       \* errors, lost clients, stops and crashes so far

tables   == <<partitions, outbox, logged>>
requests == <<request, month, createdAt, acked>>
movers   == <<mover, txn, cache>>
servers  == <<booting, flushing>>
vars     == <<now, tables, requests, movers, servers, attempts, faults>>

NoTxn == [held |-> {}, todo |-> {}, good |-> {}, poison |-> {}]

Record(q)   == <<q, IF request[q] = "log" THEN 1 ELSE 2>>
MonthOf(r)  == month[r[1]]
Pending(r)  == outbox[r] = "pending"
LockIgnored(r) == FALSE    \* mutant of Locked: SELECT without FOR UPDATE
Locked(r)   == \E s \in Servers : r \in txn[s].held
Serves(s)   == mover[s] # "off" /\ s \notin booting \cup flushing
Fault       == faults < MaxFaults /\ faults' = faults + 1

\* The rows an insert that was cut short may have left behind.
InFlight(q) == request[q] \in {"log", "last"}

-----------------------------------------------------------------------------
(* LRURetryCache.                                                          *)

EntryOf(c, r) == {i \in 1..Len(c) : c[i].id = r}

Count(c, r) == IF EntryOf(c, r) = {} THEN 0 ELSE c[CHOOSE i \in EntryOf(c, r) : TRUE].n

Forget(c, r) ==
  IF EntryOf(c, r) = {} THEN c ELSE RemoveAt(c, CHOOSE i \in EntryOf(c, r) : TRUE)

\* The entry moves to the end; a new one may push out the oldest.
Increment(c, r) ==
  LET d == Append(Forget(c, r), [id |-> r, n |-> Count(c, r) + 1])
  IN  IF Len(d) > CacheSize THEN Tail(d) ELSE d

-----------------------------------------------------------------------------
(* AuditMiddleware and AuditOutboxService.insert.                          *)

Begin(q) ==
  /\ request[q] = "idle"
  /\ Serves(ServerOf[q])
  /\ request' = [request EXCEPT ![q] = "app"]
  /\ month' = [month EXCEPT ![q] = now]
  /\ UNCHANGED <<now, tables, createdAt, acked, movers, servers, attempts, faults>>

\* The next value of created_at.
Clock == Cardinality({r \in Records : createdAt[r] > 0}) + 1

\* The application returned, or it raised or was cancelled: then the record is
\* inserted in an except clause.  created_at is the start of the transaction.
AppEnds(q) ==
  /\ request[q] = "app"
  /\ \E clause \in {<<"log", 1>>, <<"last", 2>>} :
       /\ request' = [request EXCEPT ![q] = clause[1]]
       /\ createdAt' = [createdAt EXCEPT ![<<q, clause[2]>>] = Clock]
  /\ UNCHANGED <<now, tables, month, acked, movers, servers, attempts, faults>>

InsertDone(q) ==
  /\ InFlight(q)
  /\ outbox' = [outbox EXCEPT ![Record(q)] = "pending"]
  /\ acked' = acked \cup {Record(q)}
  /\ request' = [request EXCEPT ![q] = "done"]
  /\ UNCHANGED <<now, partitions, logged, month, createdAt, movers, servers, attempts, faults>>

\* An error or the time limit: insert() returns None, whether or not the row
\* was committed.
InsertFails(q) ==
  /\ InFlight(q)
  /\ Fault
  /\ outbox' \in {outbox, [outbox EXCEPT ![Record(q)] = "pending"]}
  /\ request' = [request EXCEPT ![q] = "done"]
  /\ UNCHANGED <<now, partitions, logged, month, createdAt, acked, movers, servers, attempts>>

\* The client goes away during the insert: in the try block the request is
\* logged again by the except clause.
ClientGone(q) ==
  /\ InFlight(q)
  /\ Fault
  /\ outbox' \in {outbox, [outbox EXCEPT ![Record(q)] = "pending"]}
  /\ IF request[q] = "log"
     THEN /\ request' = [request EXCEPT ![q] = "last"]
          /\ createdAt' = [createdAt EXCEPT ![<<q, 2>>] = Clock]
     ELSE /\ request' = [request EXCEPT ![q] = "done"]
          /\ UNCHANGED createdAt
  /\ UNCHANGED <<now, partitions, logged, month, acked, movers, servers, attempts>>

-----------------------------------------------------------------------------
(* _mover_loop and _move_batch.                                            *)

Goto(s, pc) == mover' = [mover EXCEPT ![s] = pc]

\* Without a moved record the loop sleeps; a flush moves one batch only.
AfterBatch(s) ==
  IF s \in flushing THEN "off" ELSE IF txn[s].good # {} THEN "drain" ELSE "sleep"

EndBatch(s) == Goto(s, AfterBatch(s)) /\ txn' = [txn EXCEPT ![s] = NoTxn]

\* SELECT ... ORDER BY created_at LIMIT FOR UPDATE SKIP LOCKED.
Select(s) ==
  LET free  == {r \in Records : Pending(r) /\ ~Locked(r)}
      batch == {r \in free : Cardinality({t \in free : createdAt[t] < createdAt[r]})
                                < BatchSize}
  IN  /\ mover[s] = "drain"
      /\ IF batch = {} THEN EndBatch(s)
         ELSE /\ Goto(s, "rows")
              /\ txn' = [txn EXCEPT ![s] =
                           [held |-> batch, todo |-> batch, good |-> {}, poison |-> {}]]
      /\ UNCHANGED <<now, tables, requests, cache, servers, attempts, faults>>

\* The record of the batch that is under way.
Row(s, r) ==
  /\ r \in txn[s].todo
  /\ \A t \in txn[s].todo : createdAt[r] <= createdAt[t]

\* A mutant of Retried: one attempt too few.
RetriedOnceLess(s, r) == Count(cache[s], r) + 1 < MaxRetry

Retried(s, r) == Count(cache[s], r) < MaxRetry

\* Too many failures: the record will be marked processed.
GiveUp(s, r) ==
  /\ mover[s] = "rows"
  /\ Row(s, r)
  /\ ~Retried(s, r)
  /\ txn' = [txn EXCEPT ![s].poison = @ \cup {r}, ![s].todo = @ \ {r}]
  /\ cache' = [cache EXCEPT ![s] = Forget(@, r)]
  /\ UNCHANGED <<now, tables, requests, mover, servers, attempts, faults>>

\* The insert into audit_logs: the savepoint commits.
Store(s, r) ==
  /\ mover[s] = "rows"
  /\ Row(s, r)
  /\ Retried(s, r)
  /\ MonthOf(r) \in partitions
  /\ r \notin Bad
  /\ txn' = [txn EXCEPT ![s].good = @ \cup {r}, ![s].todo = @ \ {r}]
  /\ cache' = [cache EXCEPT ![s] = Forget(@, r)]
  /\ UNCHANGED <<now, tables, requests, mover, servers, attempts, faults>>

\* Mutant of Failed: the attempt is not counted.
FailedUncounted(s, r) ==
  /\ txn' = [txn EXCEPT ![s].todo = @ \ {r}]
  /\ attempts' = [attempts EXCEPT ![r] = IF @ < MaxRetry THEN @ + 1 ELSE @]
  /\ UNCHANGED cache

\* A failed attempt at record r.
Failed(s, r) ==
  /\ txn' = [txn EXCEPT ![s].todo = @ \ {r}]
  /\ cache' = [cache EXCEPT ![s] = Increment(@, r)]
  /\ attempts' = [attempts EXCEPT ![r] = IF @ < MaxRetry THEN @ + 1 ELSE @]

\* The insert fails: the savepoint is rolled back and the attempt counted.
StoreFails(s, r) ==
  /\ mover[s] = "rows"
  /\ Row(s, r)
  /\ Retried(s, r)
  /\ \/ MonthOf(r) \in partitions /\ r \in Bad /\ UNCHANGED faults
     \/ Fault
  /\ Failed(s, r)
  /\ UNCHANGED <<now, tables, requests, mover, servers>>

\* There is no partition for the record: one will be created.
NoPartition(s, r) ==
  /\ mover[s] = "rows"
  /\ Row(s, r)
  /\ Retried(s, r)
  /\ MonthOf(r) \notin partitions
  /\ Goto(s, "create")
  /\ UNCHANGED <<now, tables, requests, txn, cache, servers, attempts, faults>>

\* CREATE TABLE ... PARTITION OF takes an exclusive lock on audit_logs, which
\* every open transaction with an insert into it keeps from being granted.
ExclusiveLock == \A s \in Servers : txn[s].good = {}

\* create_partition_for_date; the insert is then tried again.
CreatePartition(s, r) ==
  /\ mover[s] = "create"
  /\ Row(s, r)
  /\ MonthOf(r) \in partitions \/ ExclusiveLock
  /\ partitions' = partitions \cup {MonthOf(r)}
  /\ Goto(s, "rows")
  /\ UNCHANGED <<now, outbox, logged, requests, txn, cache, servers, attempts, faults>>

CreateFails(s, r) ==
  /\ mover[s] = "create"
  /\ Row(s, r)
  /\ Retried(s, r)
  /\ Fault
  /\ Failed(s, r)
  /\ Goto(s, "rows")
  /\ UNCHANGED <<now, tables, requests, servers>>

\* The rows after the batch, and two mutants: the whole batch is deleted; the
\* stored records are marked like those given up and not deleted.
AllDeleted(s) == [r \in Records |-> IF r \in txn[s].held THEN "deleted" ELSE outbox[r]]

AllMarked(s) ==
  [r \in Records |-> IF r \in txn[s].good \cup txn[s].poison THEN "processed"
                     ELSE outbox[r]]

Moved(s) ==
  [r \in Records |-> IF r \in txn[s].good THEN "deleted"
                     ELSE IF r \in txn[s].poison THEN "processed" ELSE outbox[r]]

\* DELETE of the stored records, UPDATE of those given up, COMMIT.
Commit(s) ==
  /\ mover[s] = "rows"
  /\ txn[s].todo = {}
  /\ logged' = logged \cup txn[s].good
  /\ outbox' = Moved(s)
  /\ EndBatch(s)
  /\ UNCHANGED <<now, partitions, requests, cache, servers, attempts, faults>>

\* A statement outside the savepoints or the COMMIT fails: everything is rolled
\* back but the counts, and the loop goes on as if the records had been moved.
BatchFails(s) ==
  /\ mover[s] \in {"drain", "rows"}
  /\ Fault
  /\ EndBatch(s)
  /\ UNCHANGED <<now, tables, requests, cache, servers, attempts>>

Wake(s) ==
  /\ mover[s] = "sleep"
  /\ Goto(s, "drain")
  /\ UNCHANGED <<now, tables, requests, txn, cache, servers, attempts, faults>>

-----------------------------------------------------------------------------
(* Start, stop and crash of a server; the calendar.                        *)

Start(s) ==
  /\ mover[s] = "off"
  /\ Goto(s, "drain")
  /\ cache' = [cache EXCEPT ![s] = <<>>]
  /\ booting' = booting \cup {s}
  /\ flushing' = flushing \ {s}
  /\ UNCHANGED <<now, tables, requests, txn, attempts, faults>>

\* The month and those ahead of it, as far as the bound goes.
Months(m) == {k \in m..(m + MonthsAhead) : k <= MaxMonth}

\* ensure_future_partitions; an error is only a warning.
EnsurePartitions(s) ==
  LET months == Months(now) IN
  /\ s \in booting
  /\ booting' = booting \ {s}
  /\ \/ /\ months \subseteq partitions \/ ExclusiveLock
        /\ partitions' = partitions \cup months
        /\ UNCHANGED faults
     \/ Fault /\ UNCHANGED partitions
  /\ UNCHANGED <<now, outbox, logged, requests, movers, flushing, attempts>>

\* stop_mover: the mover is cancelled wherever it waits and its transaction is
\* rolled back; a last batch follows.
Stop(s) ==
  /\ Serves(s)
  /\ \A q \in Requests : ServerOf[q] = s => request[q] \in {"idle", "done"}
  /\ Fault
  /\ flushing' = flushing \cup {s}
  /\ Goto(s, "drain")
  /\ txn' = [txn EXCEPT ![s] = NoTxn]
  /\ UNCHANGED <<now, tables, requests, cache, booting, attempts>>

\* FLUSH_TIMEOUT_SECONDS are over.
FlushTimeout(s) ==
  /\ s \in flushing
  /\ mover[s] \in {"drain", "rows", "create"}
  /\ EndBatch(s)
  /\ UNCHANGED <<now, tables, requests, cache, servers, attempts, faults>>

\* Open transactions are rolled back; an insert that was on its way may have
\* been committed.
Crash(s) ==
  LET cut == {q \in Requests : ServerOf[q] = s /\ request[q] \in {"app", "log", "last"}} IN
  /\ mover[s] # "off"
  /\ Fault
  /\ Goto(s, "off")
  /\ txn' = [txn EXCEPT ![s] = NoTxn]
  /\ booting' = booting \ {s}
  /\ request' = [q \in Requests |-> IF q \in cut THEN "done" ELSE request[q]]
  /\ \E kept \in SUBSET {Record(q) : q \in {p \in cut : InFlight(p)}} :
       outbox' = [r \in Records |-> IF r \in kept THEN "pending" ELSE outbox[r]]
  /\ UNCHANGED <<now, partitions, logged, month, createdAt, acked, cache, flushing, attempts>>

NextMonth ==
  /\ now < MaxMonth
  /\ now' = now + 1
  /\ UNCHANGED <<tables, requests, movers, servers, attempts, faults>>

-----------------------------------------------------------------------------
\* The migration creates the partitions of the first months.
Init ==
  /\ now = 1
  /\ partitions = Months(1)
  /\ request = [q \in Requests |-> "idle"]
  /\ month = [q \in Requests |-> 1]
  /\ createdAt = [r \in Records |-> 0]
  /\ outbox = [r \in Records |-> "none"]
  /\ logged = {}
  /\ mover = [s \in Servers |-> "off"]
  /\ txn = [s \in Servers |-> NoTxn]
  /\ cache = [s \in Servers |-> <<>>]
  /\ booting = {} /\ flushing = {}
  /\ acked = {}
  /\ attempts = [r \in Records |-> 0]
  /\ faults = 0

RequestStep(q) ==
  Begin(q) \/ AppEnds(q) \/ InsertDone(q) \/ InsertFails(q) \/ ClientGone(q)

RowStep(s) ==
  \E r \in Records :
    \/ GiveUp(s, r) \/ Store(s, r) \/ StoreFails(s, r)
    \/ NoPartition(s, r) \/ CreatePartition(s, r)

MoverStep(s) == Select(s) \/ RowStep(s) \/ Commit(s) \/ Wake(s)

ServerStep(s) ==
  \/ Start(s) \/ EnsurePartitions(s) \/ Stop(s) \/ FlushTimeout(s) \/ Crash(s)
  \/ BatchFails(s) \/ \E r \in Records : CreateFails(s, r)

Next ==
  \/ \E q \in Requests : RequestStep(q)
  \/ \E s \in Servers : MoverStep(s) \/ ServerStep(s)
  \/ NextMonth

Spec == Init /\ [][Next]_vars

\* Servers are started again, their movers run, a flush does not outlast its
\* time limit, and the partitions are ensured at the start.
Fairness ==
  \A s \in Servers : /\ WF_vars(MoverStep(s)) /\ WF_vars(Start(s))
                     /\ WF_vars(FlushTimeout(s)) /\ WF_vars(EnsurePartitions(s))

FairSpec == Spec /\ Fairness

-----------------------------------------------------------------------------
(* Properties.                                                             *)

Entry == [id : Records, n : 1..MaxRetry]

\* The types of the variables; the cache keeps to its bound.
TypeOK ==
  /\ now \in 1..MaxMonth
  /\ partitions \subseteq 1..MaxMonth
  /\ request \in [Requests -> {"idle", "app", "log", "last", "done"}]
  /\ month \in [Requests -> 1..MaxMonth]
  /\ createdAt \in [Records -> Nat]
  /\ outbox \in [Records -> {"none", "pending", "processed", "deleted"}]
  /\ logged \subseteq Records
  /\ mover \in [Servers -> {"off", "drain", "rows", "create", "sleep"}]
  /\ txn \in [Servers -> [held : SUBSET Records, todo : SUBSET Records,
                          good : SUBSET Records, poison : SUBSET Records]]
  /\ cache \in [Servers -> Seq(Entry)]
  /\ \A s \in Servers : Len(cache[s]) <= CacheSize
  /\ booting \subseteq Servers /\ flushing \subseteq Servers
  /\ acked \subseteq Records
  /\ attempts \in [Records -> 0..MaxRetry]
  /\ faults \in 0..MaxFaults

\* A record whose insert returned an id is never lost: it waits in the outbox,
\* is in the log, or was given up, whatever crashed or was rolled back meanwhile
\* (orm.py:912 "no data is lost in a crash of the process").
AckedIsKept ==
  \A r \in acked : outbox[r] \in {"pending", "processed"} \/ r \in logged

\* The servers' open batches do not overlap and hold pending records only, so
\* that what they commit has not been moved by the other.
HeldOnce ==
  /\ \A s, t \in Servers : s # t => txn[s].held \cap txn[t].held = {}
  /\ \A s \in Servers : \A r \in txn[s].held : Pending(r) /\ r \notin logged

OutboxInv == TypeOK /\ HeldOnce

\* A record is given up only after it has failed MaxRetry times, although the
\* counts are cleared before the commit, evicted and lost with the process.
GivenUpIsRetried ==
  \A r \in Records : outbox[r] = "processed" => attempts[r] = MaxRetry

\* A mover that waits for a lock its own transaction keeps from being granted.
SelfBlocked(s) ==
  /\ mover[s] = "create"
  /\ \E r \in txn[s].todo : Row(s, r) /\ MonthOf(r) \notin partitions
  /\ txn[s].good # {}

\* The outbox empties: records that fail do not hold up those behind them for
\* ever, unless a mover blocks itself.  (Each record enters the outbox once, so
\* that this is the same as every record leaving it.)
OutboxDrains ==
  (\E r \in Records : Pending(r))
    ~> (\A r \in Records : ~Pending(r)) \/ \E s \in Servers : SelfBlocked(s)

\* docs/audit-logging.md:40 "auto-creates missing partitions when inserts fail":
\* a missing partition never keeps a record in the outbox.
MissingPartitionIsCreated ==
  \A s \in Servers : mover[s] = "create" ~> mover[s] # "create"

\* The fate of each record, as AuditFate has it.
fateOf == [r \in Records |->
             IF r \in logged THEN IF outbox[r] = "deleted" THEN "logged" ELSE "twice"
             ELSE CASE outbox[r] = "processed" -> "given up"
                    [] outbox[r] = "deleted"   -> "lost"
                    [] OTHER                   -> outbox[r]]

Fate == INSTANCE AuditFate WITH fate <- fateOf

\* A record moves from the outbox to the log in one step, once, and stays where
\* it is: the batches, their savepoints, rollbacks and repeated attempts implement
\* AuditFate.
ImplementsFate == Fate!Spec
=============================================================================
