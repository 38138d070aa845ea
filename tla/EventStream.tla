----------------------------- MODULE EventStream -----------------------------
(***************************************************************************)
(* The events of one run on their way to a client: the task numbers them,  *)
(* puts them into the broker and writes them to the table run_events in    *)
(* batches; a client streams them, loses the connection and reconnects     *)
(* with Last-Event-ID (services/streaming_service.py, services/            *)
(* event_store.py, and their callers in api/runs.py).                      *)
(*                                                                         *)
(* The broker's queue never fills here: module RunBroker has its limits    *)
(* and several streams, this one the numbers and the two ways to a client. *)
(* It begins when the task has set the run to running.                     *)
(***************************************************************************)
EXTENDS Naturals, FiniteSets, FiniteSetsExt, Sequences

CONSTANTS
  BatchSize,    \* EVENT_STORE_BATCH_SIZE
  Modes,        \* what becomes of the events of the stream modes asked for
  MaxEvents,    \* bound on the events of the graph
  MaxConnects,  \* bound on the connections of the client
  Faults        \* inserts fail and the server restarts

ASSUME StreamAssumption ==
  /\ BatchSize \in Nat \ {0}
  /\ Modes \subseteq {"filtered", "live", "storable"}
  /\ MaxEvents \in Nat
  /\ MaxConnects \in Nat
  /\ Faults \in BOOLEAN

VARIABLES
  row,        \* status of the run's row
  task,       \* where execute_run_async is; "lost" if it did not get to its end
  outcome,    \* how its try block ends
  emitted,    \* its event_counter
  shown,      \* events that passed the filter for interrupt updates (history)
  storable,   \* those of them with a stream mode that is stored (history)
  counter,    \* StreamingService.event_counters[run_id]
  registered, finished, queue,    \* the broker
  batch,      \* _storage_batches[run_id]
  inserting,  \* the batch handed to store_events
  stored,     \* sequence numbers in run_events
  canceller,  \* the request that cancels or interrupts the run
  client,     \* the client's connection
  seen,       \* events the client has received, in order (history)
  connects    \* connections so far, and the events emitted before the first

taskVars == <<row, task, outcome>>
numbers  == <<emitted, shown, storable>>
broker   == <<registered, finished, queue>>
storage  == <<batch, inserting, stored>>
clients  == <<client, seen, connects>>
vars == <<taskVars, numbers, counter, broker, storage, canceller, clients>>

Item(kind, n) == [kind |-> kind, seq |-> n]
NoItem == Item("none", 0)
Off    == [pc |-> "off", lastSent |-> 0, status |-> "none", pending |-> {}, item |-> NoItem]

Seen   == {seen[i] : i \in 1..Len(seen)}
LastId == IF seen = <<>> THEN 0 ELSE seen[Len(seen)]

-----------------------------------------------------------------------------
(* The broker and the numbers.                                             *)

\* broker.put with room: refused once the broker is finished; an end event
\* finishes it.
Put(item) ==
  /\ registered' = TRUE
  /\ queue' = IF finished THEN queue ELSE Append(queue, item)
  /\ finished' = (finished \/ item.kind = "end")

\* signal_run_cancelled, signal_run_error: the next number, an end event, and
\* cleanup_broker.
SignalEnd ==
  /\ counter' = counter + 1
  /\ Put(Item("end", counter + 1))

\* A cleanup that keeps a broker with events in its queue open.
CloseBrokerIfEmpty ==
  /\ finished' = (finished \/ (registered /\ queue = <<>>))
  /\ UNCHANGED <<registered, queue>>

\* cleanup_broker: marks the broker finished, if there is one.
CloseBroker ==
  /\ finished' = (finished \/ registered)
  /\ UNCHANGED <<registered, queue>>

-----------------------------------------------------------------------------
(* execute_run_async.                                                      *)

\* _flush_storage_batch: without force only a full batch is inserted; it is taken
\* out before the insert begins.
BatchFull(b) == Cardinality(b) >= BatchSize
TakeBatch(b) == inserting' = b /\ batch' = {}

\* The next event of the graph.  put_to_broker moves the counter forward even
\* for an event that is filtered; store_event_from_raw keeps only the modes
\* values, updates and messages; a full batch is taken out and inserted.
EmitEvent ==
  LET n == emitted + 1 IN
  /\ task = "exec"
  /\ emitted < MaxEvents
  /\ emitted' = n
  /\ counter' = Max({counter, n})
  /\ \E kind \in Modes :
       /\ shown' = IF kind = "filtered" THEN shown ELSE shown \cup {n}
       /\ storable' = IF kind = "storable" THEN storable \cup {n} ELSE storable
       /\ IF kind = "filtered"
          THEN registered' = TRUE /\ UNCHANGED <<finished, queue>>
          ELSE Put(Item("event", n))
       /\ IF kind = "storable" /\ BatchFull(batch \cup {n})
          THEN TakeBatch(batch \cup {n}) /\ task' = "insert"
          ELSE /\ batch' = IF kind = "storable" THEN batch \cup {n} ELSE batch
               /\ UNCHANGED <<inserting, task>>
  /\ UNCHANGED <<row, outcome, stored, canceller, clients>>

\* A flush that swallows the error of the insert.
InsertSwallowed ==
  /\ task' = "exec"
  /\ UNCHANGED <<outcome, stored>>

\* store_events raises: the run fails, and the batch was taken out before.
InsertFails ==
  /\ task' = "end"
  /\ outcome' = "failed"
  /\ UNCHANGED stored

\* The insert commits as a whole or fails.
Insert ==
  /\ task = "insert"
  /\ inserting' = {}
  /\ \/ /\ stored' = stored \cup inserting
        /\ task' = "exec"
        /\ UNCHANGED outcome
     \/ Faults /\ InsertFails
  /\ UNCHANGED <<row, numbers, counter, broker, batch, canceller, clients>>

EndGraph ==
  /\ task = "exec"
  /\ task' = "end"
  /\ outcome' \in {"completed", "interrupted", "failed"}
  /\ UNCHANGED <<row, numbers, counter, broker, storage, canceller, clients>>

\* task.cancel(), also while an insert is under way: it may have committed.
CancelTask ==
  /\ task \in {"exec", "insert"}
  /\ task' = "end"
  /\ outcome' = "cancelled"
  /\ stored' \in {stored, stored \cup inserting}
  /\ inserting' = {}
  /\ UNCHANGED <<row, numbers, counter, broker, batch, canceller, clients>>

WriteStatus ==
  /\ task = "end"
  /\ row' = outcome
  /\ task' = IF outcome \in {"failed", "cancelled"} THEN "signal" ELSE "cleanup"
  /\ UNCHANGED <<outcome, numbers, counter, broker, storage, canceller, clients>>

TaskSignal ==
  /\ task = "signal"
  /\ SignalEnd
  /\ task' = "cleanup"
  /\ UNCHANGED <<row, outcome, numbers, storage, canceller, clients>>

\* cleanup_run: insert what is left, then close the broker.
CleanUp ==
  /\ task = "cleanup"
  /\ IF batch = {}
     THEN CloseBroker /\ task' = "done" /\ UNCHANGED <<batch, inserting>>
     ELSE TakeBatch(batch) /\ task' = "flush" /\ UNCHANGED broker
  /\ UNCHANGED <<row, outcome, numbers, counter, stored, canceller, clients>>

\* An insert that fails, or a second cancellation during it, leaves the broker
\* open.
Flush ==
  /\ task = "flush"
  /\ inserting' = {}
  /\ \/ /\ task' = "done"
        /\ stored' = stored \cup inserting
        /\ CloseBroker
     \/ /\ Faults
        /\ task' = "lost"
        /\ stored' \in {stored, stored \cup inserting}
        /\ UNCHANGED broker
  /\ UNCHANGED <<row, outcome, numbers, counter, batch, canceller, clients>>

-----------------------------------------------------------------------------
(* cancel_run and interrupt_run of a request, and a restart.               *)

CancelRun ==
  /\ canceller = "idle"
  /\ canceller' = "signalled"
  /\ SignalEnd
  /\ UNCHANGED <<taskVars, numbers, storage, clients>>

MarkRun ==
  /\ canceller = "signalled"
  /\ canceller' = "done"
  /\ row' \in {"cancelled", "interrupted"}
  /\ UNCHANGED <<task, outcome, numbers, counter, broker, storage, clients>>

\* Only the tables survive.
Restart ==
  /\ Faults
  /\ task' = "lost"
  /\ canceller' = "done"
  /\ counter' = 0
  /\ registered' = FALSE /\ finished' = FALSE /\ queue' = <<>>
  /\ batch' = {} /\ inserting' = {}
  /\ client' = IF client.pc \in {"closed", "ended"} THEN client ELSE Off
  /\ UNCHANGED <<row, outcome, numbers, stored, seen, connects>>

-----------------------------------------------------------------------------
(* stream_run and stream_run_execution.                                    *)

\* The endpoint reads the row: a run that is over gets an end event and no
\* replay.  The stream that creates the run does not look.
Connect ==
  /\ client.pc = "off"
  /\ connects.count < MaxConnects
  /\ \E creating \in BOOLEAN :
       /\ creating => connects.count = 0 /\ emitted = 0
       /\ client' = [Off EXCEPT
            !.pc = IF ~creating /\ row \in {"completed", "failed", "cancelled"}
                   THEN "ended" ELSE "query",
            !.lastSent = LastId,
            !.status = row]
  /\ connects' = IF connects.count = 0 THEN [count |-> 1, before |-> emitted]
                 ELSE [connects EXCEPT !.count = @ + 1]
  /\ UNCHANGED <<taskVars, numbers, counter, broker, storage, canceller, seen>>

\* stream_events_since / stream_all_events: the rows the statement sees.
Query ==
  /\ client.pc = "query"
  /\ client' = [client EXCEPT !.pc = "replay",
                              !.pending = {n \in stored : n > client.lastSent}]
  /\ UNCHANGED <<taskVars, numbers, counter, broker, storage, canceller, seen, connects>>

\* A replayed event does not move last_sent_sequence.
ReplayNext ==
  /\ client.pc = "replay"
  /\ client.pending # {}
  /\ LET n == Min(client.pending) IN
       /\ seen' = Append(seen, n)
       /\ client' = [client EXCEPT !.pending = @ \ {n}]
  /\ UNCHANGED <<taskVars, numbers, counter, broker, storage, canceller, connects>>

\* The live part: the broker is created if there is none.  Nothing is streamed
\* if the run was over and its broker is finished.
GoLive ==
  /\ client.pc = "replay"
  /\ client.pending = {}
  /\ registered' = TRUE
  /\ client' = [client EXCEPT !.pc =
       IF client.status \in {"completed", "failed", "cancelled", "interrupted"} /\ finished
       THEN "closed" ELSE "live"]
  /\ UNCHANGED <<taskVars, numbers, counter, finished, queue, storage, canceller,
                 seen, connects>>

\* The next item: skipped when its number is not above last_sent_sequence, else
\* handed to the connection.  An end event ends the iteration either way.
Take ==
  /\ client.pc = "live"
  /\ queue # <<>>
  /\ queue' = Tail(queue)
  /\ LET item == Head(queue) IN
     client' = IF item.seq > client.lastSent
               THEN [client EXCEPT !.pc = "sending", !.item = item]
               ELSE [client EXCEPT !.pc = IF item.kind = "end" THEN "closed" ELSE "live"]
  /\ UNCHANGED <<taskVars, numbers, counter, registered, finished, storage, canceller,
                 seen, connects>>

Deliver ==
  /\ client.pc = "sending"
  /\ seen' = IF client.item.kind = "end" THEN seen ELSE Append(seen, client.item.seq)
  /\ client' = [client EXCEPT
       !.pc = IF client.item.kind = "end" THEN "closed" ELSE "live",
       !.lastSent = client.item.seq,
       !.item = NoItem]
  /\ UNCHANGED <<taskVars, numbers, counter, broker, storage, canceller, connects>>

\* A poll that only asks whether the broker is finished.
PollEndEarly ==
  /\ client.pc = "live"
  /\ finished
  /\ client' = [client EXCEPT !.pc = "closed"]
  /\ UNCHANGED <<taskVars, numbers, counter, broker, storage, canceller, seen, connects>>

\* The poll finds the broker finished and empty.
PollEnd ==
  /\ client.pc = "live"
  /\ finished
  /\ queue = <<>>
  /\ client' = [client EXCEPT !.pc = "closed"]
  /\ UNCHANGED <<taskVars, numbers, counter, broker, storage, canceller, seen, connects>>

\* The connection breaks: an item on its way is gone.
Disconnect ==
  /\ client.pc \in {"query", "replay", "live", "sending"}
  /\ connects.count < MaxConnects
  /\ client' = Off
  /\ UNCHANGED <<taskVars, numbers, counter, broker, storage, canceller, seen, connects>>

-----------------------------------------------------------------------------
Init ==
  /\ row = "running" /\ task = "exec" /\ outcome = "none"
  /\ emitted = 0 /\ shown = {} /\ storable = {}
  /\ counter = 0
  /\ registered = FALSE /\ finished = FALSE /\ queue = <<>>
  /\ batch = {} /\ inserting = {} /\ stored = {}
  /\ canceller = "idle"
  /\ client = Off /\ seen = <<>>
  /\ connects = [count |-> 0, before |-> 0]

TaskStep == \/ EmitEvent \/ Insert \/ EndGraph \/ WriteStatus \/ TaskSignal
            \/ CleanUp \/ Flush

StreamStep == Query \/ ReplayNext \/ GoLive \/ Take \/ Deliver \/ PollEnd

Next ==
  \/ TaskStep \/ StreamStep
  \/ CancelTask \/ CancelRun \/ MarkRun \/ Connect \/ Disconnect
  \/ Restart

Spec == Init /\ [][Next]_vars

\* The event loop runs the task and the stream; the graph ends (EmitEvent is
\* bounded by MaxEvents).
Fairness == WF_vars(TaskStep) /\ WF_vars(StreamStep)
FairSpec == Spec /\ Fairness

-----------------------------------------------------------------------------
(* Properties.                                                             *)

Numbers == 0..(MaxEvents + 3)

\* The types of the variables.
TypeOK ==
  /\ row \in {"running", "completed", "interrupted", "failed", "cancelled"}
  /\ task \in {"exec", "insert", "end", "signal", "cleanup", "flush", "done", "lost"}
  /\ outcome \in {"none", "completed", "interrupted", "failed", "cancelled"}
  /\ emitted \in 0..MaxEvents
  /\ shown \subseteq 1..emitted /\ storable \subseteq shown
  /\ counter \in Numbers
  /\ registered \in BOOLEAN /\ finished \in BOOLEAN
  /\ queue \in Seq([kind : {"event", "end"}, seq : Numbers])
  /\ batch \subseteq storable /\ inserting \subseteq storable /\ stored \subseteq storable
  /\ Cardinality(batch) < BatchSize
  /\ canceller \in {"idle", "signalled", "done"}
  /\ client \in [pc : {"off", "query", "replay", "live", "sending", "closed", "ended"},
                 lastSent : Numbers,
                 status : {"none", "running", "completed", "interrupted", "failed", "cancelled"},
                 pending : SUBSET (1..MaxEvents),
                 item : [kind : {"none", "event", "end"}, seq : Numbers]]
  /\ seen \in Seq(1..MaxEvents)
  /\ connects \in [count : 0..MaxConnects, before : 0..MaxEvents]

\* The table run_events has no holes: whatever insert failed, was cancelled or
\* was lost in a restart, a stored event has all earlier storable ones before it.
\* stream_events_since relies on it: a client resumes after the last number.
StoredIsPrefix ==
  \A n \in stored : \A m \in storable : m < n => m \in stored

\* A storable event is in the pending batch, in the insert under way or in the
\* table, and in one of them only, until an insert is lost with its run.
InOnePlace ==
  /\ batch \cap inserting = {} /\ batch \cap stored = {} /\ inserting \cap stored = {}
  /\ task \in {"exec", "insert"} => storable = batch \cup inserting \cup stored

\* The clean-up closes the broker of a run that ended by itself after all its
\* events are in the table: a client that sees the stream end can replay them.
ClosedIsStored ==
  /\ finished /\ canceller = "idle"
  /\ outcome \in {"completed", "interrupted"}
  => stored = storable

\* The way of an event into the table: in order, without holes, in one place, and
\* before the stream is seen to end.
StoreInv == TypeOK /\ StoredIsPrefix /\ InOnePlace /\ ClosedIsStored

\* A client that was there before the first event and never lost its connection
\* has seen every event when the stream of the run ends, unless a request cut
\* it short, whatever is stored, replayed and skipped on the way.
SteadyClientSeesAll ==
  /\ connects.count = 1 /\ connects.before = 0
  /\ client.pc = "closed" /\ canceller = "idle"
  /\ task # "lost"
  => Seen = shown

\* A stream of a run that has emitted something ends: when the run is over the
\* client is not left waiting, unless the server was restarted or the flush of the
\* clean-up failed before the broker was closed.
StreamsEnd ==
  (client.pc \in {"query", "replay", "live", "sending"} /\ emitted > 0)
    ~> \/ client.pc \in {"off", "closed", "ended"}
       \/ task = "lost"

-----------------------------------------------------------------------------
(* What the comments say and the code does not keep.                       *)

\* streaming_service.py:387 no duplicates: events that were sent already are
\* skipped by their number.
NoDuplicates == \A i, j \in 1..Len(seen) : seen[i] = seen[j] => i = j

\* streaming_service.py:438 the replay recovers the events a client missed
\* before it reconnected: at the end of the stream of a completed run it has
\* them all.
ReconnectRecovers ==
  client.pc = "closed" /\ outcome = "completed" /\ canceller = "idle" /\ task = "done"
    => storable \subseteq Seen

=============================================================================
