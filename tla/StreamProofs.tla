---------------------------- MODULE StreamProofs ----------------------------
(***************************************************************************)
(* What a client of a run is shown, for any batch size and any number of   *)
(* events, chunks and tasks: the table of events has no holes, an ended    *)
(* stream of a completed run is all stored, and a client that was there    *)
(* from the beginning has seen everything; the replay of the rows shows    *)
(* the frames of the stream; an artifact of A2A is the whole answer, and a *)
(* message of A2A that is made one of the graph has all its parts.         *)
(***************************************************************************)
EXTENDS EventStream, EventFrames, A2AExecutor, SequenceLemmas,
        SequenceTheorems, FiniteSetTheorems, TLAPS

---------------------------------------------------------------------------
(* The events of a run                                                     *)

Statuses == {"running", "completed", "interrupted", "failed", "cancelled"}
Items    == [kind : {"event", "end"}, seq : Numbers]
ClientRows ==
    [pc : {"off", "query", "replay", "live", "sending", "closed", "ended"},
     lastSent : Numbers, status : Statuses \cup {"none"}, pending : SUBSET (1..MaxEvents),
     item : [kind : {"none", "event", "end"}, seq : Numbers]]

TaskTypes ==
    /\ row \in Statuses
    /\ task \in {"exec", "insert", "end", "signal", "cleanup", "flush", "done", "lost"}
    /\ outcome \in {"none", "completed", "interrupted", "failed", "cancelled"}
    /\ emitted \in 0..MaxEvents
    /\ shown \subseteq 1..emitted /\ storable \subseteq shown
    /\ batch \subseteq storable /\ inserting \subseteq storable /\ stored \subseteq storable
    /\ Cardinality(batch) < BatchSize
    /\ canceller \in {"idle", "signalled", "done"}
    /\ registered \in BOOLEAN /\ finished \in BOOLEAN

\* Beside the events only the two signals move the counter.
Signals == (IF task \in {"cleanup", "flush", "done", "lost"} THEN 1 ELSE 0)
           + (IF canceller = "idle" THEN 0 ELSE 1)
CounterBound == counter \in Nat /\ counter <= emitted + Signals

\* Where the task is tells where the storable events are: the table has them all,
\* but for a batch and an insert that are never there together.
Places ==
    /\ task \in {"exec", "end", "signal", "cleanup", "done", "lost"} => inserting = {}
    /\ task \in {"insert", "flush", "done", "lost"} => batch = {}
    /\ task \in {"exec", "insert", "flush"} => storable = batch \cup inserting \cup stored
    /\ batch # {} => storable = batch \cup stored
    /\ batch \cap stored = {} /\ inserting \cap stored = {}

\* What the outcome tells: only an insert that failed or was cancelled loses events.
Ending ==
    /\ task \in {"exec", "insert"} => outcome = "none"
    /\ task \in {"end", "signal", "cleanup", "flush", "done"} => outcome # "none"
    /\ task = "signal" => outcome \in {"failed", "cancelled"}
    /\ outcome \in {"completed", "interrupted"} /\ task # "lost" =>
          storable = batch \cup inserting \cup stored
    /\ finished /\ canceller = "idle" =>
          task \in {"cleanup", "flush", "done", "lost"}
    /\ finished /\ canceller = "idle" /\ outcome \in {"completed", "interrupted"} =>
          task \in {"done", "lost"} /\ stored = storable
    /\ task \in {"exec", "insert", "end"} /\ canceller = "idle" => row = "running"

StoreIInv == TaskTypes /\ CounterBound /\ Places /\ StoredIsPrefix /\ Ending

\* Nothing reaches a client but what passed the filter.
OnlyShown ==
    /\ queue \in Seq(Items)
    /\ client \in ClientRows
    /\ seen \in Seq(1..MaxEvents)
    /\ connects \in [count : 0..MaxConnects, before : 0..MaxEvents]
    /\ \A i \in 1..Len(queue) : queue[i].kind = "event" => queue[i].seq \in shown
    /\ client.pc = "sending" => client.item.kind \in {"event", "end"}
    /\ client.item.kind = "event" => client.item.seq \in shown
    /\ client.pending \subseteq shown
    /\ \A i \in 1..Len(seen) : seen[i] \in shown

\* The client never lost its connection, nobody cancelled the run, and the server
\* was not restarted.
Steady ==
    /\ connects.count = 0 \/ (connects.count = 1 /\ client.pc # "off")
    /\ canceller = "idle" /\ task # "lost"

IsSending(n) == client.pc = "sending" /\ client.item = Item("event", n)
IsQueued(n)  == \E i \in 1..Len(queue) : queue[i] = Item("event", n)

(***************************************************************************)
(* Of a steady client: every event is queued, on its way or seen; the      *)
(* events in the queue are newer than all that were taken, so that none is *)
(* skipped, and the end is the last item.                                  *)
(***************************************************************************)
Accounted ==
    Steady =>
        /\ \A n \in shown : IsQueued(n) \/ IsSending(n) \/ n \in Seen
        /\ \A i, j \in 1..Len(queue) : i < j => queue[i].kind = "event"
        /\ \A i, j \in 1..Len(queue) :
              i < j /\ queue[j].kind = "event" => queue[i].seq < queue[j].seq
        /\ client.pc # "closed" => client.lastSent \in {0} \cup shown
        /\ client.pc # "closed" =>
              \A i \in 1..Len(queue) : queue[i].kind = "event" => client.lastSent < queue[i].seq
        /\ client.pc = "sending" =>
              \A i \in 1..Len(queue) : queue[i].kind = "event" => client.item.seq < queue[i].seq
        /\ client.pc = "sending" /\ client.item.kind = "end" => queue = <<>> /\ finished
        /\ \A i \in 1..Len(queue) : queue[i].kind = "end" => finished
        /\ connects.count = 0 => client = Off /\ seen = <<>>
        /\ connects.count = 1 /\ connects.before = 0 /\ client.status # "running" =>
              shown = {} /\ task \notin {"exec", "insert"}
        /\ client.pc = "closed" => finished
        /\ connects.before = 0 /\ client.pc = "closed" => shown \subseteq Seen

StreamIInv == StoreIInv /\ OnlyShown /\ Accounted

---------------------------------------------------------------------------
LEMMA LeastNat ==
    ASSUME NEW T, T \subseteq Nat, T # {}
    PROVE  \E n \in T : \A m \in T : n <= m
<1> DEFINE R == OpToRel(<, Nat)
<1>1. IsWellFoundedOn(R, Nat)
  BY NatLessThanWellFounded
<1>2. \A x, y \in Nat : <<x, y>> \in R <=> x < y
  BY DEF OpToRel
<1> HIDE DEF R
<1>3. PICK n \in T : \A y \in T : ~ (<<y, n>> \in R)
  BY <1>1, WFMin
<1>4. ASSUME NEW m \in T PROVE n <= m
  <2>1. n \in Nat /\ m \in Nat /\ ~(m < n)
    BY <1>2, <1>3
  <2> QED BY <2>1
<1> QED BY <1>4

LEMMA MinIsIn ==
    ASSUME NEW T, T \subseteq Nat, T # {}
    PROVE  Min(T) \in T
BY LeastNat DEF Min

LEMMA MaxOfTwo ==
    ASSUME NEW m \in Nat, NEW n \in Nat
    PROVE  Max({m, n}) = IF m < n THEN n ELSE m
<1> DEFINE x == IF m < n THEN n ELSE m
<1>1. x \in {m, n} /\ \A y \in {m, n} : x >= y
  OBVIOUS
<1>2. \A y, z \in {m, n} : (\A u \in {m, n} : y >= u) /\ (\A u \in {m, n} : z >= u) => y = z
  OBVIOUS
<1>3. Max({m, n}) = CHOOSE y \in {m, n} : \A u \in {m, n} : y >= u
  BY DEF Max
<1> HIDE DEF x
<1>4. Max({m, n}) \in {m, n} /\ \A u \in {m, n} : Max({m, n}) >= u
  BY <1>1, <1>3
<1>5. Max({m, n}) = x
  BY <1>1, <1>2, <1>4
<1> QED BY <1>5 DEF x

LEMMA NumbersBound == MaxEvents \in Nat /\ Numbers \subseteq Nat /\ 0 \in Numbers
BY StreamAssumption DEF Numbers

LEMMA EmptyBatch == Cardinality({}) < BatchSize
BY FS_EmptySet, StreamAssumption

---------------------------------------------------------------------------
LEMMA StoreBegins == Init => StoreIInv
<1> SUFFICES ASSUME Init PROVE StoreIInv
  OBVIOUS
<1>1. TaskTypes
  <2>1. Cardinality(batch) < BatchSize
    BY EmptyBatch DEF Init
  <2>2. emitted \in 0..MaxEvents
    BY NumbersBound DEF Init
  <2> QED BY <2>1, <2>2 DEF Init, TaskTypes, Statuses
<1>2. CounterBound
  BY DEF Init, CounterBound, Signals
<1> QED BY <1>1, <1>2 DEF Init, StoreIInv, Places, StoredIsPrefix, Ending

\* A step that leaves the task, the numbers and the table alone.
LEMMA StoreStays ==
    ASSUME StoreIInv,
           UNCHANGED <<taskVars, numbers, counter, finished, storage, canceller>>,
           registered' \in BOOLEAN
    PROVE  StoreIInv'
BY DEF StoreIInv, TaskTypes, CounterBound, Signals, Places, StoredIsPrefix, Ending,
       taskVars, numbers, storage

LEMMA PutEvent ==
    ASSUME finished \in BOOLEAN, NEW n, Put(Item("event", n))
    PROVE  registered' = TRUE /\ finished' = finished
<1>1. Item("event", n).kind = "event"
  BY DEF Item
<1>2. finished' = (finished \/ Item("event", n).kind = "end") /\ registered' = TRUE
  BY Zenon DEF Put
<1>3. (finished \/ Item("event", n).kind = "end") = finished
  BY <1>1
<1> QED BY <1>2, <1>3, Zenon

LEMMA EmitStores ==
    ASSUME StoreIInv, EmitEvent
    PROVE  StoreIInv'
<1> DEFINE n == emitted + 1
<1>1. /\ task = "exec" /\ emitted < MaxEvents /\ emitted' = n /\ counter' = Max({counter, n})
      /\ UNCHANGED <<row, outcome, stored, canceller>>
      /\ finished' = finished /\ registered' \in BOOLEAN
  <2>1. finished' = finished /\ registered' = TRUE
    <3>1. \/ registered' = TRUE /\ UNCHANGED <<finished, queue>>
          \/ Put(Item("event", emitted + 1))
      BY DEF EmitEvent
    <3> QED BY <3>1, PutEvent DEF StoreIInv, TaskTypes
  <2>2. /\ task = "exec" /\ emitted < MaxEvents /\ emitted' = n /\ counter' = Max({counter, n})
        /\ UNCHANGED <<row, outcome, stored, canceller>>
    BY DEF EmitEvent
  <2> QED BY <2>1, <2>2
<1>2. /\ TaskTypes /\ inserting = {} /\ storable = batch \cup stored /\ outcome = "none"
      /\ n \in 1..MaxEvents /\ n \notin shown /\ \A m \in shown : m < n
  <2>1. TaskTypes /\ inserting = {} /\ storable = batch \cup stored /\ outcome = "none"
    BY <1>1 DEF StoreIInv, Places, Ending
  <2>2. emitted \in 0..MaxEvents /\ emitted < MaxEvents /\ shown \subseteq 1..emitted
    BY <1>1, <2>1 DEF TaskTypes
  <2> QED BY <2>1, <2>2, NumbersBound
<1>3. PICK kind \in Modes :
        /\ shown' = IF kind = "filtered" THEN shown ELSE shown \cup {n}
        /\ storable' = IF kind = "storable" THEN storable \cup {n} ELSE storable
        /\ IF kind = "storable" /\ BatchFull(batch \cup {n})
           THEN TakeBatch(batch \cup {n}) /\ task' = "insert"
           ELSE /\ batch' = IF kind = "storable" THEN batch \cup {n} ELSE batch
                /\ UNCHANGED <<inserting, task>>
  BY DEF EmitEvent
<1> HIDE DEF n
<1>4. Cardinality(batch') < BatchSize
  <2>1. CASE kind = "storable" /\ BatchFull(batch \cup {n})
    BY <1>3, <2>1, EmptyBatch DEF TakeBatch
  <2>2. CASE kind # "storable"
    BY <1>2, <1>3, <2>2 DEF TaskTypes
  <2>3. CASE kind = "storable" /\ ~BatchFull(batch \cup {n})
    <3>1. batch \cup {n} \subseteq 1..MaxEvents
      BY <1>2, NumbersBound DEF TaskTypes
    <3>2. Cardinality(batch \cup {n}) \in Nat
      <4>1. IsFiniteSet(1..MaxEvents)
        BY NumbersBound, FS_Interval
      <4>2. IsFiniteSet(batch \cup {n})
        BY <3>1, <4>1, FS_Subset
      <4> QED BY <4>2, FS_CardinalityType
    <3> QED BY <1>3, <2>3, <3>2, StreamAssumption DEF BatchFull
  <2> QED BY <2>1, <2>2, <2>3
<1>5. TaskTypes'
  <2>1. /\ shown' \subseteq shown \cup {n} /\ storable' \subseteq shown'
        /\ batch' \subseteq storable' /\ inserting' \subseteq storable' /\ stored' \subseteq storable'
    BY <1>1, <1>2, <1>3 DEF TaskTypes, TakeBatch
  <2>2. emitted' \in 0..MaxEvents /\ shown' \subseteq 1..emitted'
    BY <1>1, <1>2, <2>1, NumbersBound DEF TaskTypes, n
  <2> QED BY <1>1, <1>2, <1>3, <1>4, <2>1, <2>2 DEF TaskTypes, TakeBatch
<1>6. CounterBound'
  <2>1. /\ counter \in Nat /\ emitted \in Nat /\ n \in Nat /\ Signals \in Nat
        /\ counter <= emitted + Signals
    BY <1>2, NumbersBound DEF StoreIInv, CounterBound, TaskTypes, Signals, n
  <2>2. Signals' = Signals
    BY <1>1, <1>3 DEF Signals, TakeBatch
  <2>3. counter' = IF counter < n THEN n ELSE counter
    BY <1>1, <2>1, MaxOfTwo
  <2>4. emitted' = n /\ n = emitted + 1
    BY <1>1 DEF n
  <2> HIDE DEF n
  <2>5. counter' \in Nat /\ counter' <= n + Signals
    BY <2>1, <2>3, <2>4
  <2> QED BY <2>2, <2>4, <2>5 DEF CounterBound
<1>7. Places' /\ StoredIsPrefix'
  <2>1. /\ Places /\ StoredIsPrefix /\ batch \subseteq shown /\ stored \subseteq shown
        /\ shown \subseteq Nat /\ n \in Nat
    BY <1>2, NumbersBound DEF StoreIInv, TaskTypes
  <2>2. StoredIsPrefix'
    <3>1. SUFFICES ASSUME NEW p \in stored, NEW m \in storable', m < p PROVE m \in stored
      BY <1>1 DEF StoredIsPrefix
    <3>2. p \in Nat /\ p < n
      BY <1>2, <2>1
    <3>3. m # n /\ m \in storable \cup {n}
      BY <1>3, <2>1, <3>1, <3>2
    <3> QED BY <2>1, <3>1, <3>3 DEF StoredIsPrefix
  <2>3. CASE kind = "storable" /\ BatchFull(batch \cup {n})
    <3>1. /\ inserting' = batch \cup {n} /\ batch' = {} /\ task' = "insert"
          /\ storable' = storable \cup {n} /\ stored' = stored
      BY <1>1, <1>3, <2>3 DEF TakeBatch
    <3>2. batch \cap stored = {}
      BY <2>1 DEF Places
    <3>3. n \notin stored /\ storable = batch \cup stored
      BY <1>2, <2>1
    <3>4. inserting' \cap stored' = {} /\ batch' \cap stored' = {}
      BY <3>1, <3>2, <3>3
    <3>5. storable' = batch' \cup inserting' \cup stored'
      BY <3>1, <3>3
    <3>6. task' = "insert" /\ batch' = {}
      BY <3>1
    <3> QED BY <2>2, <3>4, <3>5, <3>6 DEF Places
  <2>4. CASE ~(kind = "storable" /\ BatchFull(batch \cup {n}))
    BY <1>1, <1>2, <1>3, <2>1, <2>2, <2>4 DEF Places
  <2> QED BY <2>2, <2>3, <2>4
<1>8. Ending'
  BY <1>1, <1>2, <1>3 DEF StoreIInv, Ending, TakeBatch
<1> QED BY <1>5, <1>6, <1>7, <1>8 DEF StoreIInv

\* The steps of the task that put no event.
LEMMA TaskStores ==
    ASSUME StoreIInv, Insert \/ EndGraph \/ WriteStatus \/ CleanUp \/ Flush \/ CancelTask
    PROVE  StoreIInv'
<1>1. TaskTypes'
  <2>1. CASE Insert
    BY <2>1 DEF StoreIInv, TaskTypes, Insert, InsertFails, numbers, broker, clients
  <2>2. CASE EndGraph
    BY <2>2 DEF StoreIInv, TaskTypes, EndGraph, numbers, broker, storage, clients
  <2>3. CASE WriteStatus
    BY <2>3 DEF StoreIInv, TaskTypes, WriteStatus, numbers, broker, storage, clients, Ending, Statuses
  <2>4. CASE CleanUp
    BY <2>4, EmptyBatch DEF StoreIInv, TaskTypes, CleanUp, CloseBroker, TakeBatch, numbers, broker, clients
  <2>5. CASE Flush
    BY <2>5 DEF StoreIInv, TaskTypes, Flush, CloseBroker, numbers, broker, clients
  <2>6. CASE CancelTask
    BY <2>6 DEF StoreIInv, TaskTypes, CancelTask, numbers, broker, clients
  <2> QED BY <2>1, <2>2, <2>3, <2>4, <2>5, <2>6
<1>2. CounterBound'
  <2>1. UNCHANGED <<emitted, counter, canceller>>
    BY DEF Insert, EndGraph, WriteStatus, CleanUp, Flush, CancelTask, numbers
  <2>2. emitted \in Nat
    BY NumbersBound DEF StoreIInv, TaskTypes
  <2>3. task \in {"cleanup", "flush", "done", "lost"} => task' \in {"cleanup", "flush", "done", "lost"}
    BY DEF Insert, InsertFails, EndGraph, WriteStatus, CleanUp, Flush, CancelTask, numbers
  <2> QED BY <2>1, <2>2, <2>3 DEF StoreIInv, CounterBound, Signals
<1>3. Places' /\ StoredIsPrefix'
  BY DEF StoreIInv, TaskTypes, Places, StoredIsPrefix, Insert, InsertFails, EndGraph, WriteStatus,
         CleanUp, TakeBatch, Flush, CancelTask, numbers, storage
<1>4. Ending'
  <2>1. CASE Insert \/ EndGraph
    BY <2>1 DEF StoreIInv, TaskTypes, Places, Ending, Insert, InsertFails, EndGraph, numbers, broker,
       storage
  <2>2. CASE WriteStatus \/ CancelTask
    BY <2>2 DEF StoreIInv, TaskTypes, Places, Ending, WriteStatus, CancelTask, numbers, broker, storage
  <2>3. CASE CleanUp
    <3>1. /\ task = "cleanup" /\ inserting = {} /\ finished \in BOOLEAN
          /\ batch # {} => storable = batch \cup stored
          /\ outcome \in {"completed", "interrupted"} => storable = batch \cup inserting \cup stored
          /\ outcome # "none"
      BY <2>3 DEF CleanUp, StoreIInv, TaskTypes, Places, Ending
    <3>2. CASE batch = {}
      BY <2>3, <3>1, <3>2 DEF Ending, CleanUp, CloseBroker, numbers
    <3>3. CASE batch # {}
      <4>1. /\ task' = "flush" /\ inserting' = batch /\ batch' = {}
            /\ UNCHANGED <<row, outcome, storable, stored, canceller, finished>>
        BY <2>3, <3>3 DEF CleanUp, TakeBatch, broker, numbers
      <4>2. ~(finished /\ canceller = "idle" /\ outcome \in {"completed", "interrupted"})
        BY <3>1 DEF StoreIInv, Ending
      <4> QED BY <3>1, <4>1, <4>2 DEF Ending
    <3> QED BY <3>2, <3>3
  <2>4. CASE Flush
    <3>1. /\ task = "flush" /\ finished \in BOOLEAN /\ outcome # "none" /\ batch = {}
          /\ storable = batch \cup inserting \cup stored
      BY <2>4 DEF Flush, StoreIInv, TaskTypes, Places, Ending
    <3>2. ~(finished /\ canceller = "idle" /\ outcome \in {"completed", "interrupted"})
      BY <3>1 DEF StoreIInv, Ending
    <3>3. /\ UNCHANGED <<row, outcome, storable, canceller, batch>> /\ inserting' = {}
          /\ \/ task' = "done" /\ stored' = stored \cup inserting
             \/ task' = "lost" /\ finished' = finished
      BY <2>4 DEF Flush, numbers, broker
    <3> QED BY <3>1, <3>2, <3>3 DEF Ending
  <2> QED BY <2>1, <2>2, <2>3, <2>4
<1> QED BY <1>1, <1>2, <1>3, <1>4 DEF StoreIInv

LEMMA SignalsStore ==
    ASSUME StoreIInv, TaskSignal \/ CancelRun \/ MarkRun
    PROVE  StoreIInv'
<1>1. TaskTypes'
  BY DEF StoreIInv, TaskTypes, TaskSignal, CancelRun, MarkRun, SignalEnd, Put, numbers, storage,
         taskVars, broker, Statuses, Item
<1>2. CounterBound'
  <2>1. emitted \in Nat /\ UNCHANGED emitted
    BY NumbersBound DEF StoreIInv, TaskTypes, TaskSignal, CancelRun, MarkRun, numbers
  <2> QED BY <2>1 DEF StoreIInv, CounterBound, Signals, TaskSignal, CancelRun, MarkRun, SignalEnd,
                      taskVars
<1>3. Places' /\ StoredIsPrefix'
  BY DEF StoreIInv, Places, StoredIsPrefix, TaskSignal, CancelRun, MarkRun, numbers, storage, taskVars
<1>4. Ending'
  BY DEF StoreIInv, Ending, TaskSignal, CancelRun, MarkRun, SignalEnd, Put, numbers, storage, taskVars,
         broker, Item
<1> QED BY <1>1, <1>2, <1>3, <1>4 DEF StoreIInv

LEMMA RestartStores ==
    ASSUME StoreIInv, Restart
    PROVE  StoreIInv'
<1>1. TaskTypes'
  BY EmptyBatch DEF StoreIInv, TaskTypes, Restart, numbers
<1>2. CounterBound'
  BY NumbersBound DEF StoreIInv, TaskTypes, CounterBound, Signals, Restart, numbers
<1>3. Places' /\ StoredIsPrefix' /\ Ending'
  BY DEF StoreIInv, Places, StoredIsPrefix, Ending, Restart, numbers
<1> QED BY <1>1, <1>2, <1>3 DEF StoreIInv

---------------------------------------------------------------------------
LEMMA SeenAppend ==
    ASSUME NEW S, seen \in Seq(S), NEW x \in S, seen' = Append(seen, x)
    PROVE  Seen' = Seen \cup {x} /\ seen' \in Seq(S)
<1>1. /\ seen' \in Seq(S) /\ Len(seen') = Len(seen) + 1 /\ Len(seen) \in Nat
      /\ \A i \in 1..Len(seen) : seen'[i] = seen[i]
      /\ seen'[Len(seen) + 1] = x
  OBVIOUS
<1>2. ASSUME NEW y \in Seen' PROVE y \in Seen \cup {x}
  <2>1. PICK i \in 1..Len(seen') : y = seen'[i]
    BY <1>2 DEF Seen
  <2>2. CASE i \in 1..Len(seen)
    BY <1>1, <2>1, <2>2 DEF Seen
  <2>3. CASE i = Len(seen) + 1
    BY <1>1, <2>1, <2>3
  <2> QED BY <1>1, <2>1, <2>2, <2>3
<1>3. ASSUME NEW y \in Seen PROVE y \in Seen'
  <2>1. PICK i \in 1..Len(seen) : y = seen[i]
    BY <1>3 DEF Seen
  <2>2. i \in 1..Len(seen') /\ y = seen'[i]
    BY <1>1, <2>1
  <2> QED BY <2>2 DEF Seen
<1>4. x \in Seen'
  BY <1>1 DEF Seen
<1> QED BY <1>1, <1>2, <1>3, <1>4

LEMMA StreamBegins == Init => OnlyShown /\ Accounted
<1> SUFFICES ASSUME Init PROVE OnlyShown /\ Accounted
  OBVIOUS
<1>1. client = Off /\ seen = <<>> /\ queue = <<>> /\ connects = [count |-> 0, before |-> 0]
      /\ shown = {} /\ finished = FALSE
  BY DEF Init
<1>2. Off \in ClientRows
  BY NumbersBound DEF Off, ClientRows, NoItem, Item, Statuses
<1>3. /\ client.pc = "off" /\ client.pending = {} /\ client.item.kind = "none" /\ client.lastSent = 0
      /\ Len(queue) = 0 /\ Len(seen) = 0 /\ queue \in Seq(Items) /\ seen \in Seq(1..MaxEvents)
      /\ connects.count = 0
  BY <1>1 DEF Off, NoItem, Item
<1>4. connects \in [count : 0..MaxConnects, before : 0..MaxEvents]
  BY <1>1, StreamAssumption
<1>5. OnlyShown
  BY <1>1, <1>2, <1>3, <1>4 DEF OnlyShown
<1>6. Accounted
  BY <1>1, <1>3 DEF Accounted
<1> QED BY <1>5, <1>6

\* A step of the task that puts nothing and of a client that does nothing.
LEMMA ClientStays ==
    ASSUME OnlyShown, Accounted, UNCHANGED <<queue, client, seen, connects, shown>>,
           finished \in BOOLEAN, finished => finished',
           canceller' = "idle" => canceller = "idle",
           task' # "lost" => task # "lost",
           task \notin {"exec", "insert"} => task' \notin {"exec", "insert"}
    PROVE  OnlyShown' /\ Accounted'
<1>1. OnlyShown'
  BY DEF OnlyShown
<1>2. Steady' => Steady
  BY DEF Steady
<1>3. Seen' = Seen /\ \A n : (IsQueued(n)' <=> IsQueued(n)) /\ (IsSending(n)' <=> IsSending(n))
  BY DEF Seen, IsQueued, IsSending
<1>4. Accounted'
  BY <1>2, <1>3 DEF Accounted
<1> QED BY <1>1, <1>4

LEMMA QuietSteps ==
    ASSUME StreamIInv, Insert \/ EndGraph \/ WriteStatus \/ CleanUp \/ Flush \/ CancelTask \/ MarkRun
    PROVE  OnlyShown' /\ Accounted'
<1>1. finished \in BOOLEAN
  BY DEF StreamIInv, StoreIInv, TaskTypes
<1>2. UNCHANGED <<queue, client, seen, connects, shown>>
  BY DEF Insert, EndGraph, WriteStatus, CleanUp, Flush, CancelTask, MarkRun, numbers, broker, clients,
         CloseBroker
<1>3. finished => finished'
  BY DEF Insert, EndGraph, WriteStatus, CleanUp, Flush, CancelTask, MarkRun, broker, CloseBroker
<1>4. canceller' = "idle" => canceller = "idle"
  BY DEF Insert, EndGraph, WriteStatus, CleanUp, Flush, CancelTask, MarkRun
<1>5. /\ task' # "lost" => task # "lost"
      /\ task \notin {"exec", "insert"} => task' \notin {"exec", "insert"}
  BY DEF Insert, InsertFails, EndGraph, WriteStatus, CleanUp, Flush, CancelTask, MarkRun
<1> QED BY <1>1, <1>2, <1>3, <1>4, <1>5, ClientStays DEF StreamIInv

LEMMA RestartStreams ==
    ASSUME StreamIInv, Restart
    PROVE  OnlyShown' /\ Accounted'
<1>1. ~Steady'
  BY DEF Restart, Steady
<1>2. Off \in ClientRows
  BY NumbersBound DEF Off, ClientRows, NoItem, Item, Statuses
<1>3. Off.pc # "sending" /\ Off.item.kind # "event" /\ Off.pending = {}
  BY DEF Off, NoItem, Item
<1>4. queue' = <<>> /\ client' \in {Off, client} /\ UNCHANGED <<seen, connects, shown>>
  BY DEF Restart, numbers
<1>5. queue' \in Seq(Items) /\ Len(queue') = 0
  BY <1>4
<1>6. OnlyShown'
  BY <1>2, <1>3, <1>4, <1>5 DEF OnlyShown, StreamIInv
<1> QED BY <1>1, <1>6 DEF Accounted

\* An item put at the end of the queue.
LEMMA QueueAppend ==
    ASSUME queue \in Seq(Items), NEW item \in Items, queue' = Append(queue, item)
    PROVE  /\ queue' \in Seq(Items) /\ Len(queue') = Len(queue) + 1 /\ Len(queue) \in Nat
           /\ \A i \in 1..Len(queue) : queue'[i] = queue[i]
           /\ queue'[Len(queue) + 1] = item
OBVIOUS

LEMMA SignalStreams ==
    ASSUME StreamIInv, TaskSignal \/ CancelRun
    PROVE  OnlyShown' /\ Accounted'
<1> DEFINE item == Item("end", counter + 1)
<1>1. /\ queue' = IF finished THEN queue ELSE Append(queue, item)
      /\ UNCHANGED <<client, seen, connects, shown>>
  BY DEF TaskSignal, CancelRun, SignalEnd, Put, numbers, clients
<1>2. item \in Items /\ item.kind = "end"
  <2>1. counter \in Nat /\ counter <= emitted + Signals /\ emitted \in 0..MaxEvents
    BY DEF StreamIInv, StoreIInv, CounterBound, TaskTypes
  <2>2. Signals <= 2 /\ Signals \in Nat
    BY DEF Signals
  <2>3. counter + 1 \in Numbers
    BY <2>1, <2>2, NumbersBound DEF Numbers
  <2> QED BY <2>3 DEF Items, Item
<1> HIDE DEF item
<1>3. OnlyShown /\ queue \in Seq(Items)
  BY DEF StreamIInv, OnlyShown
<1>4. ~finished => /\ queue' \in Seq(Items) /\ Len(queue') = Len(queue) + 1 /\ Len(queue) \in Nat
                   /\ \A i \in 1..Len(queue) : queue'[i] = queue[i]
                   /\ queue'[Len(queue) + 1] = item
  BY <1>1, <1>2, <1>3, QueueAppend
<1>5. OnlyShown'
  <2>1. CASE finished
    BY <1>1, <1>3, <2>1 DEF OnlyShown
  <2>2. CASE ~finished
    <3>1. queue' \in Seq(Items)
      BY <1>4, <2>2
    <3>2. ASSUME NEW i \in 1..Len(queue'), queue'[i].kind = "event" PROVE queue'[i].seq \in shown
      <4>1. i \in 1..Len(queue)
        BY <1>2, <1>4, <2>2, <3>2
      <4> QED BY <1>3, <1>4, <2>2, <3>2, <4>1 DEF OnlyShown
    <3> QED BY <1>1, <1>3, <3>1, <3>2 DEF OnlyShown
  <2> QED BY <2>1, <2>2
<1>6. Accounted'
  <2>1. SUFFICES ASSUME Steady' PROVE Accounted'
    BY DEF Accounted
  <2>2. TaskSignal
    BY <2>1 DEF Steady, CancelRun
  <2>3. /\ task = "signal" /\ task' = "cleanup" /\ canceller = "idle" /\ UNCHANGED canceller
        /\ Steady
    BY <1>1, <2>1, <2>2 DEF TaskSignal, Steady
  <2>4. finished \in BOOLEAN /\ ~finished
    BY <2>3 DEF StreamIInv, StoreIInv, Ending, TaskTypes
  <2>5. finished'
    BY <2>2 DEF TaskSignal, SignalEnd, Put, Item
  <2>6. Seen' = Seen /\ \A n : IsSending(n)' <=> IsSending(n)
    BY <1>1 DEF Seen, IsSending
  <2>7. \A n : IsQueued(n) => IsQueued(n)'
    BY <1>4, <2>4 DEF IsQueued
  <2>8. \A i \in 1..Len(queue) : queue[i].kind = "event"
    <3>1. \A i \in 1..Len(queue) : queue[i] \in Items /\ queue[i].kind # "end"
      BY <1>3, <2>3, <2>4 DEF StreamIInv, Accounted
    <3> QED BY <3>1 DEF Items
  <2>9. \A i \in 1..Len(queue') : queue'[i].kind = "event" => i \in 1..Len(queue) /\ queue'[i] = queue[i]
    BY <1>2, <1>4, <2>4
  <2>10. \A i, j \in 1..Len(queue') : i < j => i \in 1..Len(queue) /\ queue'[i] = queue[i]
    BY <1>4, <2>4
  <2>11. ~(client.pc = "sending" /\ client.item.kind = "end") /\ client.pc # "closed"
    BY <2>3, <2>4 DEF StreamIInv, Accounted
  <2> HIDE DEF item
  <2>12. Accounted /\ UNCHANGED <<client, seen, connects, shown>>
    BY <1>1 DEF StreamIInv
  <2>13. \A i, j \in 1..Len(queue') : i < j => queue'[i].kind = "event"
    BY <2>8, <2>10
  <2>14. \A i, j \in 1..Len(queue') :
            i < j /\ queue'[j].kind = "event" => queue'[i].seq < queue'[j].seq
    <3>1. SUFFICES ASSUME NEW i \in 1..Len(queue'), NEW j \in 1..Len(queue'), i < j,
                          queue'[j].kind = "event"
                   PROVE  queue'[i].seq < queue'[j].seq
      OBVIOUS
    <3>2. i \in 1..Len(queue) /\ j \in 1..Len(queue) /\ queue'[i] = queue[i] /\ queue'[j] = queue[j]
      BY <2>9, <2>10, <3>1
    <3> QED BY <2>3, <2>12, <3>1, <3>2 DEF Accounted
  <2> QED BY <2>3, <2>5, <2>6, <2>7, <2>9, <2>11, <2>12, <2>13, <2>14 DEF Accounted
<1> QED BY <1>5, <1>6

LEMMA EmitStreams ==
    ASSUME StreamIInv, EmitEvent
    PROVE  OnlyShown' /\ Accounted'
<1> PICK n : n = emitted + 1
  OBVIOUS
<1> DEFINE item == Item("event", n)
<1>1. /\ UNCHANGED <<client, seen, connects, canceller>> /\ task = "exec" /\ task' \in {"exec", "insert"}
      /\ emitted' = n /\ n \in 1..MaxEvents
  BY NumbersBound DEF EmitEvent, clients, TakeBatch, StreamIInv, StoreIInv, TaskTypes
<1>2. /\ OnlyShown /\ Accounted /\ queue \in Seq(Items) /\ finished \in BOOLEAN
      /\ shown \subseteq 1..emitted /\ emitted \in Nat /\ shown \subseteq Nat
      /\ (canceller = "idle" => ~finished)
  BY <1>1, NumbersBound DEF StreamIInv, OnlyShown, StoreIInv, TaskTypes, Ending
<1>3. item \in Items /\ item.kind = "event" /\ item.seq = n
  BY <1>1, NumbersBound DEF Items, Item, Numbers
<1>4. CASE shown' = shown /\ UNCHANGED <<finished, queue>>
  BY <1>1, <1>2, <1>4, ClientStays
<1>5. CASE shown' = shown \cup {n} /\ Put(item)
  <2>1. queue' = IF finished THEN queue ELSE Append(queue, item)
    BY <1>5 DEF Put
  <2>2. finished' = finished
    BY <1>2, <1>5, PutEvent DEF item
  <2>3. n \in Nat /\ 0 < n /\ n \notin shown /\ \A m \in shown : m < n
    BY <1>1, <1>2
  <2> HIDE DEF item
  <2>4. ~finished => /\ queue' \in Seq(Items) /\ Len(queue') = Len(queue) + 1 /\ Len(queue) \in Nat
                     /\ \A i \in 1..Len(queue) : queue'[i] = queue[i]
                     /\ queue'[Len(queue) + 1] = item
    BY <1>2, <1>3, <2>1, QueueAppend
  <2>5. OnlyShown'
    <3>1. CASE finished
      BY <1>1, <1>2, <1>5, <2>1, <3>1 DEF OnlyShown
    <3>2. CASE ~finished
      <4>1. queue' \in Seq(Items)
        BY <2>4, <3>2
      <4>2. ASSUME NEW i \in 1..Len(queue'), queue'[i].kind = "event" PROVE queue'[i].seq \in shown'
        <5>1. CASE i \in 1..Len(queue)
          BY <1>2, <1>5, <2>4, <3>2, <4>2, <5>1 DEF OnlyShown
        <5>2. CASE i = Len(queue) + 1
          BY <1>3, <1>5, <2>4, <3>2, <5>2
        <5> QED BY <2>4, <3>2, <5>1, <5>2
      <4> QED BY <1>1, <1>2, <1>5, <4>1, <4>2 DEF OnlyShown
    <3> QED BY <3>1, <3>2
  <2>6. Accounted'
    <3>1. SUFFICES ASSUME Steady' PROVE Accounted'
      BY DEF Accounted
    <3>2. canceller = "idle" /\ ~finished /\ Steady
      BY <1>1, <1>2, <3>1 DEF Steady
    <3>3. Seen' = Seen /\ \A m : IsSending(m)' <=> IsSending(m)
      BY <1>1 DEF Seen, IsSending
    <3>4. (\A m : IsQueued(m) => IsQueued(m)') /\ IsQueued(n)'
      BY <2>4, <3>2 DEF IsQueued, item
    <3>5. \A m \in shown' : IsQueued(m)' \/ IsSending(m)' \/ m \in Seen'
      BY <1>2, <1>5, <3>2, <3>3, <3>4 DEF Accounted
    <3>6. \A i \in 1..Len(queue') : \/ i \in 1..Len(queue) /\ queue'[i] = queue[i]
                                    \/ i = Len(queue) + 1 /\ queue'[i] = item
      BY <2>4, <3>2
    <3>7. \A i \in 1..Len(queue) : queue[i].kind = "event" /\ queue[i].seq \in shown /\ queue[i].seq < n
      <4>1. \A i \in 1..Len(queue) : queue[i] \in Items /\ queue[i].kind # "end"
        BY <1>2, <3>2 DEF Accounted
      <4>2. \A i \in 1..Len(queue) : queue[i].kind = "event"
        BY <4>1 DEF Items
      <4> QED BY <1>2, <2>3, <4>2 DEF OnlyShown
    <3>8. \A i \in 1..Len(queue') : queue'[i].kind = "event"
      BY <1>3, <3>6, <3>7
    <3>9. \A i, j \in 1..Len(queue') : i < j => queue'[i].seq < queue'[j].seq
      <4>1. SUFFICES ASSUME NEW i \in 1..Len(queue'), NEW j \in 1..Len(queue'), i < j
                     PROVE  queue'[i].seq < queue'[j].seq
        OBVIOUS
      <4>2. i \in 1..Len(queue) /\ queue'[i] = queue[i]
        BY <2>4, <3>2, <3>6, <4>1
      <4>3. CASE j \in 1..Len(queue) /\ queue'[j] = queue[j]
        BY <1>2, <3>2, <3>7, <4>1, <4>2, <4>3 DEF Accounted
      <4>4. CASE queue'[j] = item
        BY <1>3, <3>7, <4>2, <4>4
      <4> QED BY <3>6, <4>3, <4>4
    <3>10. client.pc # "closed"
      BY <1>2, <3>2 DEF Accounted
    <3>11. \A i \in 1..Len(queue') : client.lastSent < queue'[i].seq
      <4>1. client.lastSent \in {0} \cup shown /\ client.lastSent < n
        BY <1>2, <2>3, <3>2, <3>10 DEF Accounted
      <4>2. \A i \in 1..Len(queue) : client.lastSent < queue[i].seq
        BY <1>2, <3>2, <3>7, <3>10 DEF Accounted
      <4> QED BY <1>3, <3>6, <4>1, <4>2
    <3>12. client.pc = "sending" => /\ client.item.kind = "event"
                                    /\ \A i \in 1..Len(queue') : client.item.seq < queue'[i].seq
      <4>1. SUFFICES ASSUME client.pc = "sending"
                     PROVE  /\ client.item.kind = "event"
                            /\ \A i \in 1..Len(queue') : client.item.seq < queue'[i].seq
        OBVIOUS
      <4>2. client.item.kind = "event"
        BY <1>2, <3>2, <4>1 DEF OnlyShown, Accounted
      <4>3. client.item.seq < n
        BY <1>2, <2>3, <4>2 DEF OnlyShown
      <4>4. \A i \in 1..Len(queue) : client.item.seq < queue[i].seq
        BY <1>2, <3>2, <3>7, <4>1 DEF Accounted
      <4> QED BY <1>3, <3>6, <4>2, <4>3, <4>4
    <3>13. connects.count = 0 => client = Off /\ seen = <<>>
      BY <1>2, <3>2 DEF Accounted
    <3>14. ~(connects.count = 1 /\ connects.before = 0 /\ client.status # "running")
      BY <1>1, <1>2, <3>2 DEF Accounted
    <3>15. client.lastSent \in {0} \cup shown'
      BY <1>2, <1>5, <3>2, <3>10 DEF Accounted
    <3> QED BY <1>1, <3>5, <3>8, <3>9, <3>10, <3>11, <3>12, <3>13, <3>14, <3>15 DEF Accounted
  <2> QED BY <2>5, <2>6
<1>6. \/ shown' = shown /\ UNCHANGED <<finished, queue>>
      \/ shown' = shown \cup {n} /\ Put(item)
  BY DEF EmitEvent
<1> QED BY <1>4, <1>5, <1>6

---------------------------------------------------------------------------
(* The steps of the client leave the task and the numbers alone.           *)

Quiet == UNCHANGED <<taskVars, numbers, counter, finished, storage, canceller>>

LEMMA QuietMeans ==
    ASSUME Quiet
    PROVE  UNCHANGED <<row, task, outcome, emitted, shown, storable, counter, finished, batch, inserting,
                       stored, canceller>>
BY DEF Quiet, taskVars, numbers, storage

LEMMA LastIn ==
    ASSUME NEW S, NEW s \in Seq(S), s # <<>>
    PROVE  s[Len(s)] \in S
<1>1. Len(s) \in Nat \ {0}
  BY EmptySeq
<1>2. Len(s) \in 1..Len(s)
  BY <1>1
<1> QED BY <1>2, ElementOfSeq

LEMMA ConnectStreams ==
    ASSUME StreamIInv, Connect
    PROVE  OnlyShown' /\ Accounted'
<1>1. /\ UNCHANGED <<row, task, shown, finished, canceller, queue, seen, emitted>>
      /\ client.pc = "off" /\ connects.count < MaxConnects
      /\ connects' = IF connects.count = 0 THEN [count |-> 1, before |-> emitted]
                     ELSE [connects EXCEPT !.count = @ + 1]
  BY DEF Connect, taskVars, numbers, broker
<1>2. /\ OnlyShown /\ Accounted /\ shown \subseteq 1..emitted /\ emitted \in 0..MaxEvents
      /\ row \in Statuses
  BY DEF StreamIInv, StoreIInv, TaskTypes
<1>3. PICK pc \in {"ended", "query"} :
        client' = [Off EXCEPT !.pc = pc, !.lastSent = LastId, !.status = row]
  BY DEF Connect
<1>4. LastId \in Numbers /\ (seen = <<>> => LastId = 0)
  <2>1. CASE seen = <<>>
    BY <2>1, NumbersBound DEF LastId
  <2>2. CASE seen # <<>>
    <3>1. seen \in Seq(1..MaxEvents)
      BY <1>2 DEF OnlyShown
    <3>3. seen[Len(seen)] \in 1..MaxEvents
      BY <2>2, <3>1, LastIn
    <3> QED BY <2>2, <3>3, NumbersBound DEF LastId, Numbers
  <2> QED BY <2>1, <2>2
<1>5. /\ client'.pc = pc /\ client'.lastSent = LastId /\ client'.status = row
      /\ client'.pending = {} /\ client'.item = NoItem /\ client' \in ClientRows
  BY <1>2, <1>3, <1>4, NumbersBound DEF Off, ClientRows, NoItem, Item
<1>6. /\ connects' \in [count : 0..MaxConnects, before : 0..MaxEvents]
      /\ connects'.count = connects.count + 1 /\ connects.count \in Nat
      /\ connects.count = 0 => connects'.before = emitted
  <2>1. connects \in [count : 0..MaxConnects, before : 0..MaxEvents]
    BY <1>2 DEF OnlyShown
  <2>2. connects.count \in Nat /\ connects.count + 1 \in 0..MaxConnects /\ connects.before \in 0..MaxEvents
    BY <1>1, <2>1, StreamAssumption
  <2>3. CASE connects.count = 0
    BY <1>1, <1>2, <2>2, <2>3
  <2>4. CASE connects.count # 0
    <3>1. connects' = [connects EXCEPT !.count = @ + 1]
      BY <1>1, <2>4
    <3> QED BY <2>1, <2>2, <2>4, <3>1
  <2> QED BY <2>3, <2>4
<1>7. OnlyShown'
  BY <1>1, <1>2, <1>5, <1>6 DEF OnlyShown, NoItem, Item
<1>8. Accounted'
  <2>1. SUFFICES ASSUME Steady' PROVE Accounted'
    BY DEF Accounted
  <2>2. connects.count = 0 /\ connects'.count = 1 /\ canceller = "idle" /\ task # "lost"
    BY <1>1, <1>6, <2>1 DEF Steady
  <2>3. Steady /\ client = Off /\ seen = <<>> /\ LastId = 0
    BY <1>2, <1>4, <2>2 DEF Steady, Accounted
  <2>4. Seen' = Seen /\ (\A n : IsQueued(n)' <=> IsQueued(n)) /\ \A n : ~IsSending(n)
    BY <1>1, <2>3 DEF Seen, IsQueued, IsSending, Off
  <2>5. connects'.before = 0 => shown = {}
    BY <1>2, <1>6, <2>2
  <2>6. row # "running" => task \notin {"exec", "insert"}
    BY <2>2 DEF StreamIInv, StoreIInv, Ending
  <2>7. client.pc # "closed" /\ client.lastSent = 0 /\ client.pc # "sending"
    BY <2>3 DEF Off
  <2>8. client'.pc \notin {"closed", "sending"} /\ client'.lastSent = 0 /\ client'.status = row
    BY <1>3, <1>5, <2>3
  <2> QED BY <1>1, <1>2, <2>2, <2>3, <2>4, <2>5, <2>6, <2>7, <2>8 DEF Accounted
<1> QED BY <1>7, <1>8

\* A step of a client that takes nothing from the queue, is not sending and does not
\* end, unless nothing is missing.
LEMMA ClientMoves ==
    ASSUME StreamIInv, Quiet, UNCHANGED <<queue, seen, connects>>, client' \in ClientRows,
           client.pc \notin {"off", "sending", "closed"}, client'.pc \notin {"off", "sending"},
           client'.lastSent = client.lastSent, client'.status = client.status,
           client'.item = client.item, client'.pending \subseteq shown,
           client'.pc = "closed" => finished /\ (Steady /\ connects.before = 0 => shown \subseteq Seen)
    PROVE  OnlyShown' /\ Accounted'
<1>1. UNCHANGED <<shown, finished, canceller, task>>
  BY QuietMeans
<1>2. OnlyShown'
  BY <1>1 DEF StreamIInv, OnlyShown
<1>3. Accounted'
  <2>1. SUFFICES ASSUME Steady' PROVE Accounted'
    BY DEF Accounted
  <2>2. Steady
    BY <1>1, <2>1 DEF Steady
  <2>3. Seen' = Seen /\ (\A n : IsQueued(n)' <=> IsQueued(n)) /\ \A n : ~IsSending(n)
    BY DEF Seen, IsQueued, IsSending
  <2>4. connects.count # 0
    BY <2>2 DEF StreamIInv, Accounted, Off
  <2> QED BY <1>1, <2>2, <2>3, <2>4 DEF StreamIInv, Accounted
<1> QED BY <1>2, <1>3

LEMMA QueryStreams ==
    ASSUME StreamIInv, Query
    PROVE  OnlyShown' /\ Accounted'
<1>1. Quiet /\ UNCHANGED <<queue, seen, connects>> /\ client.pc = "query"
  BY DEF Query, Quiet, broker
<1>2. client \in ClientRows /\ stored \subseteq shown /\ shown \subseteq 1..MaxEvents
  BY NumbersBound DEF StreamIInv, OnlyShown, StoreIInv, TaskTypes
<1>3. client' = [client EXCEPT !.pc = "replay", !.pending = {n \in stored : n > client.lastSent}]
  BY DEF Query
<1>4. \A T : T \subseteq 1..MaxEvents =>
         LET c == [client EXCEPT !.pc = "replay", !.pending = T] IN
         /\ c \in ClientRows /\ c.pc = "replay" /\ c.lastSent = client.lastSent
         /\ c.status = client.status /\ c.item = client.item /\ c.pending = T
  BY <1>2 DEF ClientRows
<1>5. {n \in stored : n > client.lastSent} \subseteq shown
  BY <1>2
<1>6. /\ client' \in ClientRows /\ client'.pc = "replay" /\ client'.lastSent = client.lastSent
      /\ client'.status = client.status /\ client'.item = client.item /\ client'.pending \subseteq shown
  <2>1. PICK T : T = {n \in stored : n > client.lastSent}
    OBVIOUS
  <2>2. T \subseteq shown /\ T \subseteq 1..MaxEvents /\ client' = [client EXCEPT !.pc = "replay", !.pending = T]
    BY <1>2, <1>3, <1>5, <2>1
  <2> QED BY <1>4, <2>2
<1> QED BY <1>1, <1>6, ClientMoves

LEMMA GoLiveStreams ==
    ASSUME StreamIInv, GoLive
    PROVE  OnlyShown' /\ Accounted'
<1>1. Quiet /\ UNCHANGED <<queue, seen, connects>> /\ client.pc = "replay"
  BY DEF GoLive, Quiet
<1>2. client \in ClientRows
  BY DEF StreamIInv, OnlyShown
<1>3. PICK p \in {"live", "closed"} :
        p = IF client.status \in {"completed", "failed", "cancelled", "interrupted"} /\ finished
            THEN "closed" ELSE "live"
  OBVIOUS
<1>4. p = "closed" => finished /\ client.status # "running"
  BY <1>3
<1>5. client' = [client EXCEPT !.pc = p]
  BY <1>3 DEF GoLive
<1>6. \A x \in {"live", "closed"} :
         LET c == [client EXCEPT !.pc = x] IN
         /\ c \in ClientRows /\ c.pc = x /\ c.lastSent = client.lastSent
         /\ c.status = client.status /\ c.item = client.item /\ c.pending = client.pending
  BY <1>2 DEF ClientRows
<1>7. /\ client' \in ClientRows /\ client'.pc = p /\ client'.lastSent = client.lastSent
      /\ client'.status = client.status /\ client'.item = client.item
      /\ client'.pending = client.pending
  BY <1>5, <1>6
<1>8. p = "closed" /\ Steady /\ connects.before = 0 => shown \subseteq Seen
  <2>1. SUFFICES ASSUME p = "closed", Steady, connects.before = 0 PROVE shown = {}
    OBVIOUS
  <2>2. Off.pc # "replay" /\ connects.count \in {0, 1}
    BY <2>1 DEF Off, Steady
  <2>3. connects.count = 1
    BY <1>1, <2>1, <2>2 DEF StreamIInv, Accounted
  <2>4. client.status # "running"
    BY <1>4, <2>1
  <2> QED BY <2>1, <2>3, <2>4 DEF StreamIInv, Accounted
<1>9. client'.pc \notin {"off", "sending"} /\ client'.pending \subseteq shown
  <2>1. client.pending \subseteq shown
    BY DEF StreamIInv, OnlyShown
  <2> QED BY <1>7, <2>1
<1>10. client'.pc = "closed" => finished /\ (Steady /\ connects.before = 0 => shown \subseteq Seen)
  BY <1>4, <1>7, <1>8
<1> QED BY <1>1, <1>7, <1>9, <1>10, ClientMoves

LEMMA PollEndStreams ==
    ASSUME StreamIInv, PollEnd
    PROVE  OnlyShown' /\ Accounted'
<1>1. Quiet /\ UNCHANGED <<queue, seen, connects>> /\ client.pc = "live" /\ finished /\ queue = <<>>
  BY DEF PollEnd, Quiet, broker
<1>2. client \in ClientRows /\ client.pending \subseteq shown
  BY DEF StreamIInv, OnlyShown
<1>3. client' = [client EXCEPT !.pc = "closed"]
  BY DEF PollEnd
<1>4. /\ client' \in ClientRows /\ client'.pc = "closed" /\ client'.lastSent = client.lastSent
      /\ client'.status = client.status /\ client'.item = client.item
      /\ client'.pending = client.pending
  BY <1>2, <1>3 DEF ClientRows
<1>5. \A n : ~IsQueued(n) /\ ~IsSending(n)
  BY <1>1 DEF IsQueued, IsSending
<1>6. Steady => shown \subseteq Seen
  BY <1>5 DEF StreamIInv, Accounted
<1> QED BY <1>1, <1>2, <1>4, <1>6, ClientMoves

LEMMA ReplayStreams ==
    ASSUME StreamIInv, ReplayNext
    PROVE  OnlyShown' /\ Accounted'
<1>1. /\ Quiet /\ UNCHANGED <<queue, connects>> /\ client.pc = "replay"
      /\ UNCHANGED <<shown, finished, canceller, task>>
  BY QuietMeans DEF ReplayNext, Quiet, broker
<1>2. /\ OnlyShown /\ client \in ClientRows /\ client.pending \subseteq shown /\ shown \subseteq 1..MaxEvents
      /\ client.pending # {}
  BY NumbersBound DEF StreamIInv, OnlyShown, StoreIInv, TaskTypes, ReplayNext
<1>3. PICK n : n = Min(client.pending)
  OBVIOUS
<1>4. seen' = Append(seen, n) /\ client' = [client EXCEPT !.pending = client.pending \ {n}]
  BY <1>3 DEF ReplayNext
<1>5. n \in client.pending /\ n \in shown
  <2>1. 1..MaxEvents \subseteq Nat
    BY NumbersBound
  <2>2. client.pending \subseteq Nat
    BY <1>2, <2>1
  <2>3. Min(client.pending) \in client.pending
    BY <1>2, <2>2, MinIsIn
  <2> QED BY <1>2, <1>3, <2>3
<1>6. /\ client' \in ClientRows /\ client'.pc = "replay" /\ client'.lastSent = client.lastSent
      /\ client'.status = client.status /\ client'.item = client.item
      /\ client'.pending \subseteq shown
  BY <1>1, <1>2, <1>4 DEF ClientRows
<1>7. /\ Seen' = Seen \cup {n} /\ seen' \in Seq(1..MaxEvents) /\ Len(seen') = Len(seen) + 1
      /\ \A i \in 1..Len(seen') : seen'[i] \in shown
  <2>1. seen \in Seq(1..MaxEvents) /\ n \in 1..MaxEvents /\ \A i \in 1..Len(seen) : seen[i] \in shown
    BY <1>2, <1>5 DEF OnlyShown
  <2> QED BY <1>4, <1>5, <2>1, SeenAppend, SMTT(40)
<1>8. OnlyShown'
  BY <1>1, <1>2, <1>6, <1>7 DEF OnlyShown
<1>9. Accounted'
  <2>1. SUFFICES ASSUME Steady' PROVE Accounted'
    BY DEF Accounted
  <2>2. Steady /\ Accounted /\ client.pc \notin {"off", "sending", "closed"}
    BY <1>1, <2>1 DEF Steady, StreamIInv
  <2>3. (\A m : IsQueued(m)' <=> IsQueued(m)) /\ \A m : ~IsSending(m)
    BY <1>1 DEF IsQueued, IsSending
  <2>4. connects.count # 0
    BY <2>2 DEF Accounted, Off
  <2> QED BY <1>1, <1>6, <1>7, <2>2, <2>3, <2>4 DEF Accounted
<1> QED BY <1>8, <1>9

LEMMA DisconnectStreams ==
    ASSUME StreamIInv, Disconnect
    PROVE  OnlyShown' /\ Accounted'
<1>1. /\ Quiet /\ UNCHANGED <<queue, seen, connects>> /\ client' = Off
      /\ client.pc \in {"query", "replay", "live", "sending"}
      /\ UNCHANGED <<shown, finished, canceller, task>>
  BY QuietMeans DEF Disconnect, Quiet, broker
<1>2. Off \in ClientRows /\ Off.pc = "off" /\ Off.item.kind = "none" /\ Off.pending = {}
  BY NumbersBound DEF Off, ClientRows, NoItem, Item, Statuses
<1>3. OnlyShown'
  BY <1>1, <1>2 DEF StreamIInv, OnlyShown
<1>4. ~Steady'
  <2>1. SUFFICES ASSUME Steady' PROVE FALSE
    OBVIOUS
  <2>2. connects.count = 0 /\ Steady
    BY <1>1, <1>2, <2>1 DEF Steady
  <2>3. client = Off
    BY <2>2 DEF StreamIInv, Accounted
  <2> QED BY <1>1, <1>2, <2>3
<1> QED BY <1>3, <1>4 DEF Accounted

LEMMA QueueTail ==
    ASSUME queue \in Seq(Items), queue # <<>>, queue' = Tail(queue)
    PROVE  /\ queue' \in Seq(Items) /\ Len(queue) \in Nat \ {0} /\ Len(queue') = Len(queue) - 1
           /\ \A i \in 1..Len(queue') : i + 1 \in 1..Len(queue) /\ queue'[i] = queue[i + 1]
           /\ Head(queue) = queue[1] /\ 1 \in 1..Len(queue)
<1>1. Len(queue) \in Nat \ {0}
  BY EmptySeq
<1>2. /\ Head(queue) = queue[1] /\ Tail(queue) \in Seq(Items) /\ Len(Tail(queue)) = Len(queue) - 1
      /\ \A i \in 1..Len(Tail(queue)) : Tail(queue)[i] = queue[i + 1]
  BY HeadTailProperties
<1> QED BY <1>1, <1>2

LEMMA TakeStreams ==
    ASSUME StreamIInv, Take
    PROVE  OnlyShown' /\ Accounted'
<1>1. /\ UNCHANGED <<shown, finished, canceller, task, seen, connects>>
      /\ client.pc = "live" /\ queue # <<>> /\ queue' = Tail(queue)
  BY DEF Take, taskVars, numbers, storage
<1>2. OnlyShown /\ Accounted /\ queue \in Seq(Items) /\ client \in ClientRows /\ finished \in BOOLEAN
  BY DEF StreamIInv, OnlyShown, StoreIInv, TaskTypes
<1>3. /\ queue' \in Seq(Items) /\ Len(queue) \in Nat \ {0} /\ Len(queue') = Len(queue) - 1
      /\ \A i \in 1..Len(queue') : i + 1 \in 1..Len(queue) /\ queue'[i] = queue[i + 1]
      /\ Head(queue) = queue[1] /\ 1 \in 1..Len(queue)
  BY <1>1, <1>2, QueueTail
<1>4. PICK item \in Items : item = Head(queue)
  BY <1>2, <1>3
<1>5. \/ item.seq > client.lastSent /\ client' = [client EXCEPT !.pc = "sending", !.item = item]
      \/ /\ ~(item.seq > client.lastSent)
         /\ client' = [client EXCEPT !.pc = IF item.kind = "end" THEN "closed" ELSE "live"]
  BY <1>4 DEF Take
<1>6. /\ item.kind \in {"event", "end"} /\ item.seq \in Nat /\ queue[1] = item
      /\ item.kind = "event" => item.seq \in shown
  <2>1. item.kind \in {"event", "end"} /\ item.seq \in Nat
    BY NumbersBound DEF Items
  <2> QED BY <1>2, <1>3, <1>4, <2>1 DEF OnlyShown
<1>7. \A i \in 1..Len(queue') : queue'[i].kind = "event" => queue'[i].seq \in shown
  BY <1>2, <1>3 DEF OnlyShown
<1>8. (\A n : IsQueued(n) => IsQueued(n)' \/ item = Item("event", n)) /\ \A n : ~IsSending(n)
  <2>1. ASSUME NEW n, IsQueued(n), item # Item("event", n) PROVE IsQueued(n)'
    <3>1. PICK i \in 1..Len(queue) : queue[i] = Item("event", n)
      BY <2>1 DEF IsQueued
    <3>2. i # 1
      BY <1>6, <2>1, <3>1
    <3>3. i - 1 \in 1..Len(queue') /\ (i - 1) + 1 = i
      BY <1>3, <3>2
    <3>4. queue'[i - 1] = Item("event", n)
      BY <1>3, <3>1, <3>3
    <3> QED BY <3>3, <3>4 DEF IsQueued
  <2>2. \A n : ~IsSending(n)
    BY <1>1 DEF IsSending
  <2> QED BY <2>1, <2>2
\* What the queue says of a steady client, after its head was taken.
<1>9. Steady =>
        /\ \A i, j \in 1..Len(queue') : i < j => queue'[i].kind = "event"
        /\ \A i, j \in 1..Len(queue') :
              i < j /\ queue'[j].kind = "event" => queue'[i].seq < queue'[j].seq
        /\ \A i \in 1..Len(queue') : queue'[i].kind = "event" =>
              client.lastSent < queue'[i].seq /\ item.seq < queue'[i].seq
        /\ \A i \in 1..Len(queue') : queue'[i].kind = "end" => finished
        /\ item.kind = "end" => finished /\ queue' = <<>>
        /\ item.kind = "event" => client.lastSent < item.seq
        /\ client.lastSent \in {0} \cup shown
        /\ connects.count # 0
        /\ \A n \in shown : IsQueued(n)' \/ item = Item("event", n) \/ n \in Seen
  <2>1. SUFFICES ASSUME Steady
                 PROVE
        /\ \A i, j \in 1..Len(queue') : i < j => queue'[i].kind = "event"
        /\ \A i, j \in 1..Len(queue') :
              i < j /\ queue'[j].kind = "event" => queue'[i].seq < queue'[j].seq
        /\ \A i \in 1..Len(queue') : queue'[i].kind = "event" =>
              client.lastSent < queue'[i].seq /\ item.seq < queue'[i].seq
        /\ \A i \in 1..Len(queue') : queue'[i].kind = "end" => finished
        /\ item.kind = "end" => finished /\ queue' = <<>>
        /\ item.kind = "event" => client.lastSent < item.seq
        /\ client.lastSent \in {0} \cup shown
        /\ connects.count # 0
        /\ \A n \in shown : IsQueued(n)' \/ item = Item("event", n) \/ n \in Seen
    OBVIOUS
  <2>2. /\ \A i, j \in 1..Len(queue) : i < j => queue[i].kind = "event"
        /\ \A i, j \in 1..Len(queue) :
              i < j /\ queue[j].kind = "event" => queue[i].seq < queue[j].seq
        /\ \A i \in 1..Len(queue) : queue[i].kind = "event" => client.lastSent < queue[i].seq
        /\ \A i \in 1..Len(queue) : queue[i].kind = "end" => finished
        /\ client.lastSent \in {0} \cup shown
        /\ connects.count = 0 => client = Off
        /\ \A n \in shown : IsQueued(n) \/ IsSending(n) \/ n \in Seen
    BY <1>1, <1>2, <2>1 DEF Accounted
  <2>3. \A i, j \in 1..Len(queue') : i < j => queue'[i].kind = "event"
    <3>1. SUFFICES ASSUME NEW i \in 1..Len(queue'), NEW j \in 1..Len(queue'), i < j
                   PROVE  queue'[i].kind = "event"
      OBVIOUS
    <3>2. i + 1 < j + 1 /\ i + 1 \in 1..Len(queue) /\ j + 1 \in 1..Len(queue) /\ queue'[i] = queue[i + 1]
      BY <1>3, <3>1
    <3> QED BY <2>2, <3>2
  <2>4. \A i, j \in 1..Len(queue') :
              i < j /\ queue'[j].kind = "event" => queue'[i].seq < queue'[j].seq
    <3>1. SUFFICES ASSUME NEW i \in 1..Len(queue'), NEW j \in 1..Len(queue'), i < j,
                          queue'[j].kind = "event"
                   PROVE  queue'[i].seq < queue'[j].seq
      OBVIOUS
    <3>2. i + 1 < j + 1 /\ i + 1 \in 1..Len(queue) /\ j + 1 \in 1..Len(queue)
          /\ queue'[i] = queue[i + 1] /\ queue'[j] = queue[j + 1]
      BY <1>3, <3>1
    <3> QED BY <2>2, <3>1, <3>2
  <2>5. ASSUME NEW i \in 1..Len(queue'), queue'[i].kind = "event"
        PROVE  client.lastSent < queue'[i].seq /\ item.seq < queue'[i].seq
    <3>1. 1 < i + 1 /\ i + 1 \in 1..Len(queue) /\ queue'[i] = queue[i + 1]
      BY <1>3
    <3> QED BY <1>3, <1>6, <2>2, <2>5, <3>1
  <2>6. \A i \in 1..Len(queue') : queue'[i].kind = "end" => finished
    BY <1>3, <2>2
  <2>7. item.kind = "end" => finished /\ queue' = <<>>
    <3>1. SUFFICES ASSUME item.kind = "end" PROVE finished /\ queue' = <<>>
      OBVIOUS
    <3>2. queue[1].kind # "event"
      BY <1>6, <3>1
    <3>3. Len(queue) = 1
      <4>1. SUFFICES ASSUME Len(queue) # 1 PROVE FALSE
        OBVIOUS
      <4>2. 2 \in 1..Len(queue) /\ 1 < 2
        BY <1>3, <4>1
      <4> QED BY <1>3, <2>2, <3>2, <4>2
    <3>4. Len(queue') = 0 /\ finished
      BY <1>3, <1>6, <2>2, <3>1, <3>3
    <3> QED BY <1>3, <3>4, EmptySeq
  <2>8. item.kind = "event" => client.lastSent < item.seq
    BY <1>3, <1>6, <2>2
  <2>9. connects.count # 0
    BY <1>1, <2>2 DEF Off
  <2>10. \A n \in shown : IsQueued(n)' \/ item = Item("event", n) \/ n \in Seen
    BY <1>8, <2>2
  <2> QED BY <2>2, <2>3, <2>4, <2>5, <2>6, <2>7, <2>8, <2>9, <2>10
<1>10. CASE item.seq > client.lastSent /\ client' = [client EXCEPT !.pc = "sending", !.item = item]
  <2>1. /\ client' \in ClientRows /\ client'.pc = "sending" /\ client'.lastSent = client.lastSent
        /\ client'.status = client.status /\ client'.item = item /\ client'.pending = client.pending
    <3>1. item \in [kind : {"none", "event", "end"}, seq : Numbers]
      BY DEF Items
    <3> QED BY <1>2, <1>10, <3>1 DEF ClientRows
  <2>2. OnlyShown'
    BY <1>1, <1>2, <1>3, <1>6, <1>7, <2>1 DEF OnlyShown
  <2>3. Accounted'
    <3>1. SUFFICES ASSUME Steady' PROVE Accounted'
      BY DEF Accounted
    <3>2. Steady
      BY <1>1, <3>1 DEF Steady
    <3>3. Seen' = Seen /\ \A n : item = Item("event", n) => IsSending(n)'
      BY <1>1, <2>1 DEF Seen, IsSending
    <3>4. connects.count = 1 /\ connects.before = 0 /\ client.status # "running" =>
              shown = {} /\ task \notin {"exec", "insert"}
      BY <1>2, <3>2 DEF Accounted
    <3>5. \A n \in shown : IsQueued(n)' \/ IsSending(n)' \/ n \in Seen
      BY <1>9, <3>2, <3>3
    <3> QED BY <1>1, <1>9, <2>1, <3>2, <3>3, <3>4, <3>5 DEF Accounted
  <2> QED BY <2>2, <2>3
<1>11. CASE /\ ~(item.seq > client.lastSent)
            /\ client' = [client EXCEPT !.pc = IF item.kind = "end" THEN "closed" ELSE "live"]
  <2>1. PICK p \in {"closed", "live"} : p = IF item.kind = "end" THEN "closed" ELSE "live"
    OBVIOUS
  <2>2. \A x \in {"closed", "live"} :
          LET c == [client EXCEPT !.pc = x] IN
          /\ c \in ClientRows /\ c.pc = x /\ c.lastSent = client.lastSent
          /\ c.status = client.status /\ c.item = client.item /\ c.pending = client.pending
    BY <1>2 DEF ClientRows
  <2>3. client' = [client EXCEPT !.pc = p]
    BY <1>11, <2>1
  <2>4. /\ client' \in ClientRows /\ client'.pc = p /\ client'.lastSent = client.lastSent
        /\ client'.status = client.status /\ client'.item = client.item
        /\ client'.pending = client.pending
    BY <2>2, <2>3
  <2>5. client'.pc # "sending" /\ client'.pc # "off"
    BY <2>1, <2>4
  <2>6. OnlyShown'
    BY <1>1, <1>2, <1>3, <1>7, <2>4, <2>5 DEF OnlyShown
  <2>7. Accounted'
    <3>1. SUFFICES ASSUME Steady' PROVE Accounted'
      BY DEF Accounted
    <3>2. Steady
      BY <1>1, <3>1 DEF Steady
    <3>3. item.kind # "event"
      <4>1. client.lastSent \in Nat
        BY <1>2, NumbersBound DEF ClientRows
      <4> QED BY <1>6, <1>9, <1>11, <3>2, <4>1
    <3>4. item.kind = "end" /\ p = "closed" /\ finished /\ queue' = <<>>
      BY <1>6, <1>9, <2>1, <3>2, <3>3
    <3>5. \A n : item # Item("event", n) /\ ~IsQueued(n)'
      BY <3>3, <3>4 DEF Item, IsQueued
    <3>6. shown \subseteq Seen /\ Seen' = Seen
      BY <1>1, <1>9, <3>2, <3>5 DEF Seen
    <3>7. connects.count = 1 /\ connects.before = 0 /\ client.status # "running" =>
              shown = {} /\ task \notin {"exec", "insert"}
      BY <1>2, <3>2 DEF Accounted
    <3> QED BY <1>1, <1>9, <2>4, <2>5, <3>2, <3>4, <3>6, <3>7 DEF Accounted
  <2> QED BY <2>6, <2>7
<1> QED BY <1>5, <1>10, <1>11

LEMMA DeliverStreams ==
    ASSUME StreamIInv, Deliver
    PROVE  OnlyShown' /\ Accounted'
<1>1. /\ UNCHANGED <<shown, finished, canceller, task, queue, connects>> /\ client.pc = "sending"
  BY DEF Deliver, taskVars, numbers, storage, broker
<1>2. /\ OnlyShown /\ Accounted /\ queue \in Seq(Items) /\ client \in ClientRows
      /\ seen \in Seq(1..MaxEvents) /\ shown \subseteq 1..MaxEvents
      /\ client.item.kind \in {"event", "end"} /\ client.pending \subseteq shown
      /\ client.item.kind = "event" => client.item.seq \in shown
  BY <1>1, NumbersBound DEF StreamIInv, OnlyShown, StoreIInv, TaskTypes
<1>3. PICK p \in {"closed", "live"} : p = IF client.item.kind = "end" THEN "closed" ELSE "live"
  OBVIOUS
<1>4. PICK n \in Numbers : n = client.item.seq
  BY <1>2 DEF ClientRows
<1>5. client' = [client EXCEPT !.pc = p, !.lastSent = n, !.item = NoItem]
  BY <1>3, <1>4 DEF Deliver
<1>6. seen' = IF client.item.kind = "end" THEN seen ELSE Append(seen, n)
  BY <1>4 DEF Deliver
<1>7. \A x \in {"closed", "live"} :
        LET c == [client EXCEPT !.pc = x, !.lastSent = n, !.item = NoItem] IN
        /\ c \in ClientRows /\ c.pc = x /\ c.lastSent = n
        /\ c.status = client.status /\ c.item = NoItem /\ c.pending = client.pending
  BY <1>2, NumbersBound DEF ClientRows, NoItem, Item
<1>8. /\ client' \in ClientRows /\ client'.pc = p /\ client'.lastSent = n
      /\ client'.status = client.status /\ client'.item = NoItem /\ client'.pending = client.pending
      /\ p # "sending" /\ p # "off" /\ NoItem.kind = "none"
  BY <1>5, <1>7 DEF NoItem, Item
<1>9. CASE client.item.kind = "end"
  <2>1. seen' = seen /\ p = "closed" /\ Seen' = Seen
    BY <1>3, <1>6, <1>9 DEF Seen
  <2>2. OnlyShown'
    BY <1>1, <1>2, <1>8, <2>1 DEF OnlyShown
  <2>3. Accounted'
    <3>1. SUFFICES ASSUME Steady' PROVE Accounted'
      BY DEF Accounted
    <3>2. Steady
      BY <1>1, <3>1 DEF Steady
    <3>3. queue = <<>> /\ finished
      BY <1>1, <1>2, <1>9, <3>2 DEF Accounted
    <3>4. \A m : ~IsQueued(m) /\ ~IsSending(m)
      BY <1>9, <3>3 DEF IsQueued, IsSending, Item
    <3>5. shown \subseteq Seen
      BY <1>2, <3>2, <3>4 DEF Accounted
    <3>6. connects.count # 0
      BY <1>1, <1>2, <3>2 DEF Accounted, Off
    <3> QED BY <1>1, <1>2, <1>8, <2>1, <3>2, <3>3, <3>5, <3>6 DEF Accounted
  <2> QED BY <2>2, <2>3
<1>10. CASE client.item.kind = "event"
  <2>1. seen' = Append(seen, n) /\ p = "live" /\ n \in shown
    BY <1>2, <1>3, <1>4, <1>6, <1>10
  <2>2. n \in 1..MaxEvents
    BY <1>2, <2>1
  <2>3. Seen' = Seen \cup {n} /\ seen' \in Seq(1..MaxEvents)
    BY <1>2, <2>1, <2>2, SeenAppend
  <2>4. \A i \in 1..Len(seen') : seen'[i] \in shown
    <3>1. \A i \in 1..Len(seen) : seen[i] \in shown
      BY <1>2 DEF OnlyShown
    <3> QED BY <1>2, <2>1, <2>2, <3>1
  <2>5. OnlyShown'
    BY <1>1, <1>2, <1>8, <2>3, <2>4 DEF OnlyShown
  <2>6. Accounted'
    <3>1. SUFFICES ASSUME Steady' PROVE Accounted'
      BY DEF Accounted
    <3>2. Steady /\ client'.pc = "live"
      BY <1>1, <1>8, <2>1, <3>1 DEF Steady
    <3>3. \A m : (IsQueued(m)' <=> IsQueued(m)) /\ (IsSending(m) => m \in Seen')
      BY <1>1, <1>4, <2>3 DEF IsQueued, IsSending, Item
    <3>4. \A m \in shown : IsQueued(m)' \/ m \in Seen'
      BY <1>2, <2>3, <3>2, <3>3 DEF Accounted
    <3>5. connects.count # 0
      BY <1>1, <1>2, <3>2 DEF Accounted, Off
    <3>6. \A i \in 1..Len(queue) : queue[i].kind = "event" => n < queue[i].seq
      BY <1>1, <1>2, <1>4, <3>2 DEF Accounted
    <3>7. client.pc # "closed"
      BY <1>1
    <3> QED BY <1>1, <1>2, <1>8, <2>1, <3>2, <3>4, <3>5, <3>6, <3>7, ZenonT(60) DEF Accounted
  <2> QED BY <2>5, <2>6
<1> QED BY <1>2, <1>9, <1>10

---------------------------------------------------------------------------
LEMMA StreamStep1 == StreamIInv /\ Next => StoreIInv'
<1> SUFFICES ASSUME StreamIInv, Next PROVE StoreIInv'
  OBVIOUS
<1>1. StoreIInv /\ registered \in BOOLEAN
  BY DEF StreamIInv, StoreIInv, TaskTypes
<1>2. CASE EmitEvent
  BY <1>1, <1>2, EmitStores
<1>3. CASE Insert \/ EndGraph \/ WriteStatus \/ CleanUp \/ Flush \/ CancelTask
  BY <1>1, <1>3, TaskStores
<1>4. CASE TaskSignal \/ CancelRun \/ MarkRun
  BY <1>1, <1>4, SignalsStore
<1>5. CASE Restart
  BY <1>1, <1>5, RestartStores
<1>6. CASE StreamStep \/ Connect \/ Disconnect
  <2>1. UNCHANGED <<taskVars, numbers, counter, finished, storage, canceller>>
    BY <1>6 DEF StreamStep, Query, ReplayNext, GoLive, Take, Deliver, PollEnd, Connect, Disconnect, broker
  <2>2. registered' \in {registered, TRUE}
    BY <1>6 DEF StreamStep, Query, ReplayNext, GoLive, Take, Deliver, PollEnd, Connect, Disconnect, broker
  <2> QED BY <1>1, <2>1, <2>2, StoreStays
<1> QED BY <1>2, <1>3, <1>4, <1>5, <1>6 DEF Next, TaskStep

LEMMA StreamStep2 == StreamIInv /\ Next => OnlyShown' /\ Accounted'
BY EmitStreams, QuietSteps, SignalStreams, RestartStreams, ConnectStreams, QueryStreams, GoLiveStreams,
   TakeStreams, DeliverStreams, PollEndStreams, ReplayStreams, DisconnectStreams
   DEF Next, TaskStep, StreamStep

LEMMA StreamStutters ==
    ASSUME StreamIInv, UNCHANGED vars
    PROVE  StreamIInv'
<1>1. /\ UNCHANGED <<taskVars, numbers, counter, finished, storage, canceller, registered>>
      /\ UNCHANGED <<queue, client, seen, connects, shown, finished, task, canceller>>
  BY DEF vars, broker, clients, numbers, taskVars
<1>2. StoreIInv /\ registered \in BOOLEAN /\ finished \in BOOLEAN /\ OnlyShown /\ Accounted
  BY DEF StreamIInv, StoreIInv, TaskTypes
<1>3. StoreIInv'
  BY <1>1, <1>2, StoreStays
<1>4. OnlyShown' /\ Accounted'
  BY <1>1, <1>2, ClientStays
<1> QED BY <1>3, <1>4 DEF StreamIInv

THEOREM StreamInductive == Spec => []StreamIInv
<1>1. Init => StreamIInv
  BY StoreBegins, StreamBegins DEF StreamIInv
<1>2. StreamIInv /\ [Next]_vars => StreamIInv'
  BY StreamStep1, StreamStep2, StreamStutters DEF StreamIInv
<1> QED BY <1>1, <1>2, PTL DEF Spec

\* The way of an event of a run into the table: whatever insert fails, is cancelled
\* or is lost with the server, the rows of run_events are the first storable events
\* of the run (store_events, _flush_storage_batch), each event is in one place only,
\* and a run that ended by itself closes its broker after its last event is stored
\* (cleanup_run).
THEOREM StreamStored == Spec => []StoreInv
<1>1. StreamIInv => StoreInv
  <2> SUFFICES ASSUME StreamIInv PROVE StoreInv
    OBVIOUS
  <2>1. counter \in Numbers
    <3>1. /\ counter \in Nat /\ counter <= emitted + Signals /\ emitted \in 0..MaxEvents
          /\ Signals \in Nat /\ Signals <= 2
      BY DEF StreamIInv, StoreIInv, CounterBound, TaskTypes, Signals
    <3> QED BY <3>1, NumbersBound DEF Numbers
  <2>2. TypeOK
    <3>1. queue \in Seq([kind : {"event", "end"}, seq : Numbers])
      BY DEF StreamIInv, OnlyShown, Items
    <3>2. client \in [pc : {"off", "query", "replay", "live", "sending", "closed", "ended"},
                      lastSent : Numbers,
                      status : {"none", "running", "completed", "interrupted", "failed", "cancelled"},
                      pending : SUBSET (1..MaxEvents),
                      item : [kind : {"none", "event", "end"}, seq : Numbers]]
      <4>1. Statuses \cup {"none"} =
              {"none", "running", "completed", "interrupted", "failed", "cancelled"}
        BY DEF Statuses
      <4> QED BY <4>1 DEF StreamIInv, OnlyShown, ClientRows
    <3>3. TaskTypes /\ seen \in Seq(1..MaxEvents)
          /\ connects \in [count : 0..MaxConnects, before : 0..MaxEvents]
      BY DEF StreamIInv, StoreIInv, OnlyShown
    <3> QED BY <2>1, <3>1, <3>2, <3>3 DEF TypeOK, TaskTypes, Statuses
  <2>3. InOnePlace
    <3>1. batch \cap inserting = {}
      BY DEF StreamIInv, StoreIInv, TaskTypes, Places
    <3> QED BY <3>1 DEF StreamIInv, StoreIInv, Places, InOnePlace
  <2>4. ClosedIsStored
    BY DEF StreamIInv, StoreIInv, Ending, ClosedIsStored
  <2> QED BY <2>2, <2>3, <2>4 DEF StreamIInv, StoreIInv, StoreInv
<1> QED BY <1>1, StreamInductive, PTL

\* A client that streams from before the first event and keeps its connection has
\* seen all that passed the filter, and nothing else, when its stream ends, unless a
\* request cancelled the run or the server lost it (stream_run_execution: replay,
\* then the live queue, skipping what is not above last_sent_sequence).
THEOREM SteadyClientSound == Spec => []SteadyClientSeesAll
<1>1. StreamIInv => SteadyClientSeesAll
  <2> SUFFICES ASSUME StreamIInv, connects.count = 1, connects.before = 0, client.pc = "closed",
                      canceller = "idle", task # "lost"
               PROVE  Seen = shown
    BY DEF SteadyClientSeesAll
  <2>1. Steady
    BY DEF Steady
  <2>2. shown \subseteq Seen
    BY <2>1 DEF StreamIInv, Accounted
  <2>3. Seen \subseteq shown
    BY DEF StreamIInv, OnlyShown, Seen
  <2> QED BY <2>2, <2>3
<1> QED BY <1>1, StreamInductive, PTL

---------------------------------------------------------------------------
(* The forms of an event.  The frames of the stream and the rows of the    *)
(* store are numbered by one counter, and each entry has its frame.        *)

Texts      == {"none", "state", "newer", "change", "interrupt", "breakpoint", "chunk", "hidden",
               "payload", "completed"}
GraphModes == {"values", "updates", "messages", "custom"}
RawEvents  == [mode : GraphModes, payload : Texts]
LiveFrames == [id : Nat, kind : GraphModes \cup {"end"}, payload : Texts]
KeptRows   == [id : Nat, event : {"messages"}, data : [message_chunk : Texts]]
              \cup [id : Nat, event : {"values"}, data : [chunk : Texts]]

FrameTypes ==
    /\ asked \in AskedModes /\ subgraphs \in BOOLEAN
    /\ stage \in {"streaming", "asking", "writing", "ended"}
    /\ eventCounter \in Nat /\ hasInterrupt \in BOOLEAN /\ waits \in BOOLEAN /\ unread \in BOOLEAN
    /\ graphEvents \in Seq(RawEvents) /\ live \in Seq(LiveFrames) /\ kept \in Seq(KeptRows)
    /\ result \in [status : {"running", "completed", "interrupted", "cancelled", "failed"},
                   output : Texts]
    /\ finalOutput \in Texts

\* Numbers rise up to the counter.
Rising(rows, n) ==
    /\ \A i \in 1..Len(rows) : rows[i].id <= n
    /\ \A i, j \in 1..Len(rows) : i < j => rows[i].id < rows[j].id

\* The frames that are stored and the rows, one to one.
Matched(frames, rows) ==
    /\ \A i \in 1..Len(frames) : Storable(frames[i]) =>
          \E j \in 1..Len(rows) : ShownAgain(frames[i], ReplayFrame(rows[j]))
    /\ \A j \in 1..Len(rows) :
          \E i \in 1..Len(frames) : Storable(frames[i]) /\ ShownAgain(frames[i], ReplayFrame(rows[j]))

\* What the events have told of an interrupt.
InterruptTold ==
    /\ hasInterrupt => waits
    /\ ~subgraphs /\ (\E i \in 1..Len(graphEvents) : HasKey(graphEvents[i].payload)) => hasInterrupt
    /\ stage = "writing" /\ waits /\ ~unread => hasInterrupt

\* The output is that of the last values so far.
OutputSoFar(yielded, output) ==
    LET values == {i \in 1..Len(yielded) : yielded[i].mode = "values"}
    IN  IF subgraphs \/ values = {} THEN output = NoOutput
        ELSE \E last \in values : (\A i \in values : i <= last) /\ output = yielded[last].payload

ResultWritten ==
    /\ stage = "ended" <=> result.status # "running"
    /\ result.status \in {"completed", "interrupted"} =>
          /\ result.status = "interrupted" <=> hasInterrupt
          /\ waits /\ ~unread => hasInterrupt
          /\ result.output = finalOutput

FramesIInv ==
    /\ FrameTypes /\ Rising(live, eventCounter) /\ Rising(kept, eventCounter)
    /\ Matched(live, kept) /\ InterruptTold /\ OutputSoFar(graphEvents, finalOutput)
    /\ ResultWritten

---------------------------------------------------------------------------
LEMMA RisingAppend ==
    ASSUME NEW S, NEW rows \in Seq(S), NEW n \in Nat, NEW entry \in S, entry.id = n + 1, Rising(rows, n),
           \A r \in S : r.id \in Nat
    PROVE  Rising(Append(rows, entry), n + 1)
<1> PICK more : more = Append(rows, entry)
  OBVIOUS
<1>1. /\ Len(rows) \in Nat /\ Len(more) = Len(rows) + 1 /\ more[Len(more)] = entry
      /\ \A i \in 1..Len(rows) : more[i] = rows[i] /\ rows[i].id \in Nat
  BY AppendProperties, ElementOfSeq
<1>2. \A i \in 1..Len(more) : i # Len(more) => i \in 1..Len(rows)
  BY <1>1
<1>3. ASSUME NEW i \in 1..Len(more) PROVE more[i].id <= n + 1
  BY <1>1, <1>2 DEF Rising
<1>4. ASSUME NEW i \in 1..Len(more), NEW j \in 1..Len(more), i < j PROVE more[i].id < more[j].id
  <2>1. i \in 1..Len(rows)
    BY <1>1, <1>4
  <2>2. CASE j = Len(more)
    BY <1>1, <2>1, <2>2 DEF Rising
  <2>3. CASE j # Len(more)
    BY <1>1, <1>2, <1>4, <2>1, <2>3 DEF Rising
  <2> QED BY <2>2, <2>3
<1> QED BY <1>3, <1>4 DEF Rising

LEMMA RisingLater ==
    ASSUME NEW S, NEW rows \in Seq(S), NEW n \in Nat, Rising(rows, n), \A r \in S : r.id \in Nat
    PROVE  Rising(rows, n + 1)
<1>1. \A i \in 1..Len(rows) : rows[i].id \in Nat
  BY ElementOfSeq
<1> QED BY <1>1 DEF Rising

LEMMA MatchedBoth ==
    ASSUME NEW frames \in Seq(LiveFrames), NEW rows \in Seq(KeptRows), Matched(frames, rows),
           NEW frame \in LiveFrames, NEW entry \in KeptRows, Storable(frame), ShownAgain(frame, ReplayFrame(entry))
    PROVE  Matched(Append(frames, frame), Append(rows, entry))
<1> PICK fs : fs = Append(frames, frame)
  OBVIOUS
<1> PICK rs : rs = Append(rows, entry)
  OBVIOUS
<1>1. /\ Len(frames) \in Nat /\ Len(fs) = Len(frames) + 1 /\ fs[Len(fs)] = frame
      /\ \A i \in 1..Len(frames) : fs[i] = frames[i]
  BY AppendProperties
<1>2. /\ Len(rows) \in Nat /\ Len(rs) = Len(rows) + 1 /\ rs[Len(rs)] = entry
      /\ \A i \in 1..Len(rows) : rs[i] = rows[i]
  BY AppendProperties
<1>3. /\ \A i \in 1..Len(fs) : i # Len(fs) => i \in 1..Len(frames)
      /\ \A i \in 1..Len(frames) : i \in 1..Len(fs)
      /\ \A i \in 1..Len(rs) : i # Len(rs) => i \in 1..Len(rows)
      /\ \A i \in 1..Len(rows) : i \in 1..Len(rs)
      /\ Len(fs) \in 1..Len(fs) /\ Len(rs) \in 1..Len(rs)
  BY <1>1, <1>2
<1>4. ASSUME NEW i \in 1..Len(fs), Storable(fs[i])
      PROVE  \E j \in 1..Len(rs) : ShownAgain(fs[i], ReplayFrame(rs[j]))
  <2>1. CASE i = Len(fs)
    BY <1>1, <1>2, <1>3, <2>1
  <2>2. CASE i # Len(fs)
    <3>1. PICK j \in 1..Len(rows) : ShownAgain(frames[i], ReplayFrame(rows[j]))
      BY <1>1, <1>3, <1>4, <2>2 DEF Matched
    <3>2. j \in 1..Len(rs) /\ rs[j] = rows[j] /\ fs[i] = frames[i]
      BY <1>1, <1>2, <1>3, <2>2
    <3> QED BY <3>1, <3>2
  <2> QED BY <2>1, <2>2
<1>5. ASSUME NEW j \in 1..Len(rs)
      PROVE  \E i \in 1..Len(fs) : Storable(fs[i]) /\ ShownAgain(fs[i], ReplayFrame(rs[j]))
  <2>1. CASE j = Len(rs)
    BY <1>1, <1>2, <1>3, <2>1
  <2>2. CASE j # Len(rs)
    <3>1. PICK i \in 1..Len(frames) : Storable(frames[i]) /\ ShownAgain(frames[i], ReplayFrame(rows[j]))
      BY <1>2, <1>3, <2>2 DEF Matched
    <3>2. i \in 1..Len(fs) /\ fs[i] = frames[i] /\ rs[j] = rows[j]
      BY <1>1, <1>2, <1>3, <2>2
    <3> QED BY <3>1, <3>2
  <2> QED BY <2>1, <2>2
<1> QED BY <1>4, <1>5 DEF Matched

LEMMA MatchedLive ==
    ASSUME NEW frames \in Seq(LiveFrames), NEW rows, Matched(frames, rows),
           NEW frame \in LiveFrames, ~Storable(frame)
    PROVE  Matched(Append(frames, frame), rows)
<1> PICK fs : fs = Append(frames, frame)
  OBVIOUS
<1>1. /\ Len(frames) \in Nat /\ Len(fs) = Len(frames) + 1 /\ fs[Len(fs)] = frame
      /\ \A i \in 1..Len(frames) : fs[i] = frames[i]
  BY AppendProperties
<1>2. /\ \A i \in 1..Len(fs) : i # Len(fs) => i \in 1..Len(frames)
      /\ \A i \in 1..Len(frames) : i \in 1..Len(fs)
  BY <1>1
<1>3. ASSUME NEW i \in 1..Len(fs), Storable(fs[i])
      PROVE  \E j \in 1..Len(rows) : ShownAgain(fs[i], ReplayFrame(rows[j]))
  <2>1. i # Len(fs)
    BY <1>1, <1>3
  <2> QED BY <1>1, <1>2, <1>3, <2>1 DEF Matched
<1>4. ASSUME NEW j \in 1..Len(rows)
      PROVE  \E i \in 1..Len(fs) : Storable(fs[i]) /\ ShownAgain(fs[i], ReplayFrame(rows[j]))
  <2>1. PICK i \in 1..Len(frames) : Storable(frames[i]) /\ ShownAgain(frames[i], ReplayFrame(rows[j]))
    BY DEF Matched
  <2>2. i \in 1..Len(fs) /\ fs[i] = frames[i]
    BY <1>1, <1>2
  <2> QED BY <2>1, <2>2
<1> QED BY <1>3, <1>4 DEF Matched

\* The frame and the entry of one event.
LEMMA OneEvent ==
    ASSUME NEW event \in RawEvents, NEW n \in Nat
    PROVE  /\ LiveFrame(n, Processed(event)) \in LiveFrames /\ LiveFrame(n, Processed(event)).id = n
           /\ Storable(LiveFrame(n, Processed(event))) <=> Stores(event)
           /\ Stores(event) => /\ StoredEvent(n, Processed(event)) \in KeptRows
                               /\ StoredEvent(n, Processed(event)).id = n
                               /\ ShownAgain(LiveFrame(n, Processed(event)),
                                             ReplayFrame(StoredEvent(n, Processed(event))))
<1> PICK processed : processed = Processed(event)
  OBVIOUS
<1>1. processed \in RawEvents /\ (processed.mode = event.mode \/ (event.mode = "updates" /\ processed.mode = "values"))
  BY DEF Processed, OnlyInterrupts, RawEvents, GraphModes
<1> PICK frame : frame = LiveFrame(n, processed)
  OBVIOUS
<1>2. /\ frame \in LiveFrames /\ frame.id = n /\ frame.payload = processed.payload
      /\ frame.kind = IF processed.mode = "updates" /\ HasKey(processed.payload) THEN "values" ELSE processed.mode
  <2>1. processed.mode \in GraphModes /\ processed.payload \in Texts /\ processed.mode # "end"
    BY <1>1 DEF RawEvents, GraphModes
  <2>2. CASE processed.mode = "updates" /\ HasKey(processed.payload)
    <3>1. frame = Frame(n, "values", processed.payload)
      BY <2>2 DEF LiveFrame
    <3> QED BY <2>1, <2>2, <3>1 DEF Frame, LiveFrames, GraphModes
  <2>3. CASE ~(processed.mode = "updates" /\ HasKey(processed.payload))
    <3>1. frame = Frame(n, processed.mode, processed.payload)
      BY <2>1, <2>3 DEF LiveFrame
    <3> QED BY <2>1, <2>3, <3>1 DEF Frame, LiveFrames
  <2> QED BY <2>2, <2>3
<1>3. Storable(frame) <=> Stores(event)
  BY <1>1, <1>2 DEF Storable, Stores, RawEvents, GraphModes
<1>4. ASSUME Stores(event)
      PROVE  /\ StoredEvent(n, processed) \in KeptRows /\ StoredEvent(n, processed).id = n
             /\ ShownAgain(frame, ReplayFrame(StoredEvent(n, processed)))
  <2>1. CASE processed.mode = "messages"
    <3> DEFINE entry == [id |-> n, event |-> "messages", data |-> [message_chunk |-> processed.payload]]
    <3>1. StoredEvent(n, processed) = entry
      BY <2>1 DEF StoredEvent
    <3>2. entry \in KeptRows /\ entry.id = n
      BY <1>1 DEF KeptRows, RawEvents
    <3>3. ReplayFrame(entry) = Frame(n, "messages", processed.payload)
      BY DEF ReplayFrame
    <3>4. frame = [id |-> n, kind |-> "messages", payload |-> processed.payload]
      BY <1>2, <2>1 DEF LiveFrames
    <3> QED BY <3>1, <3>2, <3>3, <3>4 DEF ShownAgain, Frame
  <2>2. CASE processed.mode # "messages"
    <3> DEFINE entry == [id |-> n, event |-> "values", data |-> [chunk |-> processed.payload]]
    <3>1. StoredEvent(n, processed) = entry
      BY <2>2 DEF StoredEvent
    <3>2. entry \in KeptRows /\ entry.id = n
      BY <1>1 DEF KeptRows, RawEvents
    <3>3. ReplayFrame(entry) = Frame(n, "values", [chunk |-> processed.payload])
      BY DEF ReplayFrame
    <3>4. frame.kind # "messages"
      BY <1>2, <2>2
    <3> QED BY <1>2, <3>1, <3>2, <3>3, <3>4 DEF ShownAgain, Frame
  <2> QED BY <2>1, <2>2
<1> QED BY <1>2, <1>3, <1>4

LEMMA FramesBegin == InitFrames => FramesIInv
<1> SUFFICES ASSUME InitFrames PROVE FramesIInv
  OBVIOUS
<1>1. /\ <<>> \in Seq(RawEvents) /\ <<>> \in Seq(LiveFrames) /\ <<>> \in Seq(KeptRows)
      /\ Len(<<>>) = 0 /\ 1..0 = {}
  OBVIOUS
<1> NoOutput \in Texts
  BY DEF NoOutput, Texts
<1>2. FrameTypes
  BY <1>1 DEF InitFrames, FrameTypes
<1>3. Rising(<<>>, 0) /\ Matched(<<>>, <<>>)
  BY <1>1 DEF Rising, Matched
<1>4. OutputSoFar(<<>>, NoOutput)
  BY <1>1 DEF OutputSoFar
<1>5. InterruptTold /\ ResultWritten
  BY <1>1 DEF InitFrames, InterruptTold, ResultWritten
<1> QED BY <1>2, <1>3, <1>4, <1>5 DEF FramesIInv, InitFrames

\* The events go on by one.
LEMMA OutputGoesOn ==
    ASSUME NEW yielded \in Seq(RawEvents), NEW event \in RawEvents, NEW output, OutputSoFar(yielded, output),
           NEW next, next = IF event.mode = "values" /\ ~subgraphs THEN event.payload ELSE output
    PROVE  OutputSoFar(Append(yielded, event), next)
<1> PICK more : more = Append(yielded, event)
  OBVIOUS
<1>1. /\ Len(yielded) \in Nat /\ Len(more) = Len(yielded) + 1 /\ more[Len(more)] = event
      /\ \A i \in 1..Len(yielded) : more[i] = yielded[i]
      /\ \A i \in 1..Len(more) : i # Len(more) => i \in 1..Len(yielded)
      /\ \A i \in 1..Len(yielded) : i \in 1..Len(more)
      /\ Len(more) \in 1..Len(more)
  BY AppendProperties
<1>2. CASE subgraphs
  BY <1>2 DEF OutputSoFar
<1>3. CASE ~subgraphs /\ event.mode = "values"
  <2>1. Len(more) \in {i \in 1..Len(more) : more[i].mode = "values"}
    BY <1>1, <1>3
  <2>2. \A i \in {k \in 1..Len(more) : more[k].mode = "values"} : i <= Len(more)
    BY <1>1
  <2> QED BY <1>1, <1>3, <2>1, <2>2 DEF OutputSoFar
<1>4. CASE ~subgraphs /\ event.mode # "values"
  <2>1. {i \in 1..Len(more) : more[i].mode = "values"} = {i \in 1..Len(yielded) : yielded[i].mode = "values"}
    BY <1>1, <1>4
  <2>2. \A i \in {k \in 1..Len(yielded) : yielded[k].mode = "values"} : more[i] = yielded[i]
    BY <1>1
  <2> QED BY <1>4, <2>1, <2>2 DEF OutputSoFar
<1> QED BY <1>2, <1>3, <1>4

LEMMA YieldSound ==
    ASSUME FramesIInv, YieldEvent
    PROVE  FramesIInv'
<1> PICK mode \in FinalModes : \E payload \in Payloads(mode) :
         /\ graphEvents' = Append(graphEvents, Event(mode, payload))
         /\ waits' = (waits \/ HasKey(payload))
         /\ IF ShouldSkip(Event(mode, payload))
            THEN UNCHANGED <<eventCounter, live, kept, hasInterrupt, finalOutput>>
            ELSE /\ eventCounter' = eventCounter + 1
                 /\ PutToBroker(Event(mode, payload)) /\ StoreFromRaw(Event(mode, payload))
                 /\ TakeInterrupt(Event(mode, payload)) /\ TakeOutput(Event(mode, payload))
  BY DEF YieldEvent
<1>1. PICK payload \in Payloads(mode) :
         /\ graphEvents' = Append(graphEvents, Event(mode, payload))
         /\ waits' = (waits \/ HasKey(payload))
         /\ IF ShouldSkip(Event(mode, payload))
            THEN UNCHANGED <<eventCounter, live, kept, hasInterrupt, finalOutput>>
            ELSE /\ eventCounter' = eventCounter + 1
                 /\ PutToBroker(Event(mode, payload)) /\ StoreFromRaw(Event(mode, payload))
                 /\ TakeInterrupt(Event(mode, payload)) /\ TakeOutput(Event(mode, payload))
  OBVIOUS
<1>2. stage = "streaming" /\ UNCHANGED <<asked, subgraphs, stage, unread, result>>
  BY DEF YieldEvent
<1> PICK event : event = Event(mode, payload)
  OBVIOUS
<1>3. event \in RawEvents /\ event.mode = mode /\ event.payload = payload
  <2>1. mode \in GraphModes
    BY FramesAssumption DEF FinalModes, FramesIInv, FrameTypes, GraphModes
  <2>2. payload \in {"state", "newer", "interrupt", "change", "breakpoint", "chunk", "hidden", "payload"}
    BY <2>1 DEF Payloads, GraphModes
  <2>3. payload \in Texts
    BY <2>2 DEF Texts
  <2> QED BY <2>1, <2>3 DEF Event, RawEvents
<1>4. event.payload = "hidden" => event.mode = "messages" /\ ~HasKey(event.payload)
  BY <1>3, FramesAssumption DEF FinalModes, FramesIInv, FrameTypes, Payloads, HasKey
<1>5. /\ FrameTypes /\ Rising(live, eventCounter) /\ Rising(kept, eventCounter)
      /\ Matched(live, kept) /\ InterruptTold /\ OutputSoFar(graphEvents, finalOutput)
      /\ ResultWritten
  BY DEF FramesIInv
<1>6. /\ live \in Seq(LiveFrames) /\ kept \in Seq(KeptRows) /\ graphEvents \in Seq(RawEvents)
      /\ eventCounter \in Nat /\ waits \in BOOLEAN /\ hasInterrupt \in BOOLEAN /\ finalOutput \in Texts
      /\ (\A r \in LiveFrames : r.id \in Nat) /\ (\A r \in KeptRows : r.id \in Nat)
  BY <1>5 DEF FrameTypes, LiveFrames, KeptRows
<1>7. /\ graphEvents' = Append(graphEvents, event) /\ graphEvents' \in Seq(RawEvents)
      /\ Len(graphEvents) \in Nat /\ Len(graphEvents') = Len(graphEvents) + 1
      /\ graphEvents'[Len(graphEvents')] = event
      /\ \A i \in 1..Len(graphEvents) : graphEvents'[i] = graphEvents[i]
      /\ \A i \in 1..Len(graphEvents') : i # Len(graphEvents') => i \in 1..Len(graphEvents)
  <2>1. graphEvents' = Append(graphEvents, event)
    BY <1>1
  <2> QED BY <1>3, <1>6, <2>1, AppendProperties
<1>8. waits' = (waits \/ HasKey(event.payload))
  BY <1>1, <1>3
<1>9. CASE event.payload = "hidden"
  <2>1. UNCHANGED <<eventCounter, live, kept, hasInterrupt, finalOutput>>
    BY <1>1, <1>9 DEF ShouldSkip
  <2>2. waits' = waits
    BY <1>4, <1>6, <1>8, <1>9
  <2>3. InterruptTold'
    <3>1. \A i \in 1..Len(graphEvents') : HasKey(graphEvents'[i].payload) =>
             i \in 1..Len(graphEvents) /\ HasKey(graphEvents[i].payload)
      BY <1>4, <1>7, <1>9
    <3> QED BY <1>2, <1>5, <2>1, <2>2, <3>1 DEF InterruptTold
  <2>4. OutputSoFar(graphEvents', finalOutput)
    <3>1. finalOutput = IF event.mode = "values" /\ ~subgraphs THEN event.payload ELSE finalOutput
      BY <1>4, <1>9
    <3> QED BY <1>3, <1>5, <1>6, <1>7, <3>1, OutputGoesOn
  <2>5. OutputSoFar(graphEvents, finalOutput)'
    BY <1>2, <2>1, <2>4 DEF OutputSoFar
  <2>6. FrameTypes' /\ ResultWritten'
    BY <1>2, <1>5, <1>7, <2>1, <2>2 DEF FrameTypes, ResultWritten
  <2> QED BY <1>5, <2>1, <2>3, <2>5, <2>6 DEF FramesIInv
<1>10. CASE event.payload # "hidden"
  <2> PICK n \in Nat : n = eventCounter + 1
    BY <1>6
  <2>1. /\ eventCounter' = n /\ PutToBroker(event) /\ StoreFromRaw(event)
        /\ TakeInterrupt(event) /\ TakeOutput(event)
    BY <1>1, <1>3, <1>10 DEF ShouldSkip
  <2> PICK frame : frame = LiveFrame(n, Processed(event))
    OBVIOUS
  <2> PICK entry : entry = StoredEvent(n, Processed(event))
    OBVIOUS
  <2>2. /\ frame \in LiveFrames /\ frame.id = n /\ (Storable(frame) <=> Stores(event))
        /\ Stores(event) => entry \in KeptRows /\ entry.id = n /\ ShownAgain(frame, ReplayFrame(entry))
    BY <1>3, OneEvent
  <2>3. /\ live' = IF Filtered(event) THEN live ELSE Append(live, frame)
        /\ kept' = IF Filtered(event) \/ ~Stores(event) THEN kept ELSE Append(kept, entry)
    BY <2>1 DEF PutToBroker, StoreFromRaw
  <2>4. live' \in Seq(LiveFrames) /\ Rising(live', n)
    <3>1. Rising(live, n) /\ Rising(Append(live, frame), n)
      BY <1>5, <1>6, <2>2, RisingAppend, RisingLater
    <3> QED BY <1>6, <2>2, <2>3, <3>1
  <2>5. kept' \in Seq(KeptRows) /\ Rising(kept', n)
    <3>1. Rising(kept, n)
      BY <1>5, <1>6, RisingLater
    <3>2. Stores(event) => Rising(Append(kept, entry), n) /\ Append(kept, entry) \in Seq(KeptRows)
      BY <1>5, <1>6, <2>2, RisingAppend
    <3> QED BY <1>6, <2>3, <3>1, <3>2
  <2>6. Matched(live', kept')
    <3>1. CASE Filtered(event)
      BY <1>5, <2>3, <3>1
    <3>2. CASE ~Filtered(event) /\ Stores(event)
      BY <1>5, <1>6, <2>2, <2>3, <3>2, MatchedBoth
    <3>3. CASE ~Filtered(event) /\ ~Stores(event)
      BY <1>5, <1>6, <2>2, <2>3, <3>3, MatchedLive
    <3> QED BY <3>1, <3>2, <3>3
  <2>7. hasInterrupt' = (hasInterrupt \/ (~subgraphs /\ HasKey(event.payload)))
        /\ finalOutput' = IF event.mode = "values" /\ ~subgraphs THEN event.payload ELSE finalOutput
    BY <2>1 DEF TakeInterrupt, TakeOutput
  <2>8. InterruptTold'
    <3>1. hasInterrupt' => waits'
      BY <1>5, <1>8, <2>7 DEF InterruptTold
    <3>2. ASSUME ~subgraphs, NEW i \in 1..Len(graphEvents'), HasKey(graphEvents'[i].payload)
          PROVE  hasInterrupt'
      <4>1. CASE i = Len(graphEvents')
        BY <1>7, <2>7, <3>2, <4>1
      <4>2. CASE i # Len(graphEvents')
        BY <1>5, <1>7, <2>7, <3>2, <4>2 DEF InterruptTold
      <4> QED BY <4>1, <4>2
    <3> QED BY <1>2, <3>1, <3>2 DEF InterruptTold
  <2>9. OutputSoFar(graphEvents, finalOutput)'
    <3>1. OutputSoFar(Append(graphEvents, event), finalOutput')
      BY <1>3, <1>5, <1>6, <2>7, OutputGoesOn
    <3>2. OutputSoFar(graphEvents', finalOutput')
      BY <1>7, <3>1
    <3> QED BY <1>2, <3>2 DEF OutputSoFar
  <2>10. ResultWritten'
    BY <1>2, <1>5 DEF ResultWritten
  <2>11. FrameTypes'
    <3>1. finalOutput' \in Texts /\ hasInterrupt' \in BOOLEAN /\ waits' \in BOOLEAN
      <4>1. event.payload \in Texts
        BY <1>3 DEF RawEvents
      <4>2. finalOutput' \in Texts
        BY <1>6, <2>7, <4>1
      <4>3. hasInterrupt' \in BOOLEAN
        BY <2>7
      <4>4. waits' \in BOOLEAN
        BY <1>8
      <4> QED BY <4>2, <4>3, <4>4
    <3> QED BY <1>2, <1>5, <1>7, <2>1, <2>4, <2>5, <3>1 DEF FrameTypes
  <2>12. Rising(live, eventCounter)' /\ Rising(kept, eventCounter)' /\ Matched(live, kept)'
    BY <2>1, <2>4, <2>5, <2>6
  <2> QED BY <2>8, <2>9, <2>10, <2>11, <2>12 DEF FramesIInv
<1> QED BY <1>9, <1>10

LEMMA EndOfEventsSound ==
    ASSUME FramesIInv, EndOfEvents
    PROVE  FramesIInv'
<1>1. PICK lost \in BOOLEAN : waits' = (waits \/ lost)
  BY DEF EndOfEvents
<1>2. /\ stage = "streaming" /\ stage' = "asking"
      /\ UNCHANGED <<asked, subgraphs, graphEvents, eventCounter, live, kept,
                     hasInterrupt, finalOutput, unread, result>>
  BY DEF EndOfEvents
<1>3. waits' \in BOOLEAN /\ (waits => waits')
  BY <1>1
<1>4. FrameTypes' /\ InterruptTold' /\ ResultWritten'
  BY <1>2, <1>3 DEF FramesIInv, FrameTypes, InterruptTold, ResultWritten
<1>5. Rising(live, eventCounter)' /\ Rising(kept, eventCounter)' /\ Matched(live, kept)'
      /\ OutputSoFar(graphEvents, finalOutput)'
  BY <1>2 DEF FramesIInv, OutputSoFar
<1> QED BY <1>4, <1>5 DEF FramesIInv

LEMMA AskStateSound ==
    ASSUME FramesIInv, AskState
    PROVE  FramesIInv'
<1>1. /\ stage = "asking" /\ stage' = "writing"
      /\ UNCHANGED <<asked, subgraphs, graphEvents, eventCounter, live, kept,
                     finalOutput, waits, result>>
      /\ \/ hasInterrupt /\ UNCHANGED <<hasInterrupt, unread>>
         \/ ~hasInterrupt /\ hasInterrupt' = waits /\ UNCHANGED unread
         \/ ~hasInterrupt /\ unread' = TRUE /\ UNCHANGED hasInterrupt
  BY DEF AskState
<1>2. /\ hasInterrupt' \in BOOLEAN /\ unread' \in BOOLEAN /\ (hasInterrupt => hasInterrupt')
      /\ (hasInterrupt' => waits) /\ (waits /\ ~unread' => hasInterrupt')
  <2>1. hasInterrupt \in BOOLEAN /\ unread \in BOOLEAN /\ waits \in BOOLEAN /\ (hasInterrupt => waits)
    BY DEF FramesIInv, FrameTypes, InterruptTold
  <2>2. CASE hasInterrupt /\ UNCHANGED <<hasInterrupt, unread>>
    BY <2>1, <2>2
  <2>3. CASE ~hasInterrupt /\ hasInterrupt' = waits /\ UNCHANGED unread
    BY <2>1, <2>3
  <2>4. CASE ~hasInterrupt /\ unread' = TRUE /\ UNCHANGED hasInterrupt
    BY <2>1, <2>4
  <2> QED BY <1>1, <2>2, <2>3, <2>4
<1>3. FrameTypes' /\ InterruptTold' /\ ResultWritten'
  BY <1>1, <1>2 DEF FramesIInv, FrameTypes, InterruptTold, ResultWritten
<1>4. Rising(live, eventCounter)' /\ Rising(kept, eventCounter)' /\ Matched(live, kept)'
      /\ OutputSoFar(graphEvents, finalOutput)'
  BY <1>1 DEF FramesIInv, OutputSoFar
<1> QED BY <1>3, <1>4 DEF FramesIInv

LEMMA WriteResultSound ==
    ASSUME FramesIInv, WriteResult
    PROVE  FramesIInv'
<1> PICK status : status = IF hasInterrupt THEN "interrupted" ELSE "completed"
  OBVIOUS
<1>1. /\ stage = "writing" /\ stage' = "ended" /\ result' = [status |-> status, output |-> finalOutput]
      /\ UNCHANGED <<asked, subgraphs, graphEvents, eventCounter, live, kept,
                     hasInterrupt, finalOutput, waits, unread>>
  BY DEF WriteResult
<1>2. /\ result'.status = status /\ result'.output = finalOutput
      /\ result' \in [status : {"running", "completed", "interrupted", "cancelled", "failed"}, output : Texts]
  BY <1>1 DEF FramesIInv, FrameTypes
<1>3. FrameTypes' /\ InterruptTold'
  BY <1>1, <1>2 DEF FramesIInv, FrameTypes, InterruptTold
<1>4. ResultWritten'
  BY <1>1, <1>2 DEF FramesIInv, InterruptTold, ResultWritten
<1>5. Rising(live, eventCounter)' /\ Rising(kept, eventCounter)' /\ Matched(live, kept)'
      /\ OutputSoFar(graphEvents, finalOutput)'
  BY <1>1 DEF FramesIInv, OutputSoFar
<1> QED BY <1>3, <1>4, <1>5 DEF FramesIInv

LEMMA CutShortSound ==
    ASSUME FramesIInv, CutShort
    PROVE  FramesIInv'
<1>1. PICK status \in {"cancelled", "failed"} : result' = [status |-> status, output |-> NoOutput]
  BY DEF CutShort
<1> PICK n : n = eventCounter + 1
  OBVIOUS
<1> PICK frame : frame = LiveFrame(n, Event("end", "signal"))
  OBVIOUS
<1>2. /\ stage # "ended" /\ stage' = "ended" /\ eventCounter' = n /\ live' = Append(live, frame)
      /\ UNCHANGED <<asked, subgraphs, graphEvents, kept, hasInterrupt, finalOutput, waits, unread>>
  BY DEF CutShort
<1>3. /\ live \in Seq(LiveFrames) /\ kept \in Seq(KeptRows) /\ eventCounter \in Nat /\ n \in Nat
      /\ (\A r \in LiveFrames : r.id \in Nat) /\ (\A r \in KeptRows : r.id \in Nat)
      /\ Rising(live, eventCounter) /\ Rising(kept, eventCounter) /\ Matched(live, kept)
  BY DEF FramesIInv, FrameTypes, LiveFrames, KeptRows
<1>4. frame \in LiveFrames /\ frame.id = n /\ ~Storable(frame)
  <2>1. frame = [id |-> n, kind |-> "end", payload |-> "completed"]
    BY DEF LiveFrame, Event, Frame
  <2>2. "completed" \in Texts
    BY DEF Texts
  <2>3. frame \in LiveFrames
    BY <1>3, <2>1, <2>2 DEF LiveFrames
  <2> QED BY <2>1, <2>3 DEF Storable
<1>5. live' \in Seq(LiveFrames) /\ Rising(live', n) /\ Rising(kept, n) /\ Matched(live', kept)
  <2>1. Rising(Append(live, frame), n)
    BY <1>3, <1>4, RisingAppend
  <2>2. Rising(kept, n)
    BY <1>3, RisingLater
  <2>3. Matched(Append(live, frame), kept)
    BY <1>3, <1>4, MatchedLive
  <2> QED BY <1>2, <1>3, <1>4, <2>1, <2>2, <2>3
<1>6. /\ result'.status = status
      /\ result' \in [status : {"running", "completed", "interrupted", "cancelled", "failed"}, output : Texts]
  <2>1. NoOutput \in Texts
    BY DEF NoOutput, Texts
  <2> QED BY <1>1, <2>1
<1>7. FrameTypes' /\ InterruptTold' /\ ResultWritten'
  BY <1>2, <1>3, <1>5, <1>6 DEF FramesIInv, FrameTypes, InterruptTold, ResultWritten
<1>8. Rising(live, eventCounter)' /\ Rising(kept, eventCounter)' /\ Matched(live, kept)'
  BY <1>2, <1>5
<1>9. OutputSoFar(graphEvents, finalOutput)'
  BY <1>2 DEF FramesIInv, OutputSoFar
<1> QED BY <1>7, <1>8, <1>9 DEF FramesIInv

LEMMA FramesNext ==
    ASSUME FramesIInv, [NextFrames]_frameVars
    PROVE  FramesIInv'
<1>1. CASE UNCHANGED frameVars
  BY <1>1 DEF frameVars, FramesIInv, FrameTypes, InterruptTold, ResultWritten, OutputSoFar
<1> QED BY <1>1, YieldSound, EndOfEventsSound, AskStateSound, WriteResultSound, CutShortSound
       DEF NextFrames

LEMMA FramesMean ==
    ASSUME FramesIInv
    PROVE  FramesInv
<1>1. FramesTypeOK
  BY DEF FramesIInv, FrameTypes, FramesTypeOK
<1>2. kept \in Seq(KeptRows) /\ Len(kept) \in Nat
  BY DEF FramesIInv, FrameTypes
<1>3. Len(Replay) = Len(kept) /\ \A i \in 1..Len(kept) : Replay[i] = ReplayFrame(kept[i])
                                                        /\ Replay[i].id = kept[i].id
  <2>1. Replay = [i \in 1..Len(kept) |-> ReplayFrame(kept[i])]
    BY DEF Replay
  <2>2. \A r : ReplayFrame(r).id = r.id
    BY DEF ReplayFrame, Frame
  <2>3. Len(Replay) = Len(kept)
    BY <1>2, <2>1
  <2> QED BY <2>1, <2>2, <2>3
<1>4. ReplayIsLive
  BY <1>3 DEF FramesIInv, Rising, Matched, ReplayIsLive
<1>5. NumbersRise
  BY DEF FramesIInv, Rising, NumbersRise
<1>6. StopIsRecorded
  BY DEF FramesIInv, ResultWritten, InterruptTold, StopIsRecorded
<1>7. OutputIsLastValues
  BY DEF FramesIInv, ResultWritten, OutputSoFar, OutputIsLastValues
<1> QED BY <1>1, <1>4, <1>5, <1>6, <1>7 DEF FramesInv

\* Whatever modes a run asks for and whatever its graph yields, in pairs or in triples:
\* the replay of the stored rows shows exactly the frames of the live stream of the
\* modes that are stored, below the same rising numbers; the status tells whether the
\* graph stopped to wait, and the output is that of the last values
\* (services/event_converter.py, services/streaming_service.py, api/runs.py).
THEOREM FramesSound == FramesSpec => []FramesInv
<1>1. InitFrames => FramesIInv
  BY FramesBegin
<1>2. FramesIInv /\ [NextFrames]_frameVars => FramesIInv'
  BY FramesNext
<1>3. FramesIInv => FramesInv
  BY FramesMean
<1> QED BY <1>1, <1>2, <1>3, PTL DEF FramesSpec

---------------------------------------------------------------------------
(* The tasks of A2A.  The text that is accumulated is the answer so far,   *)
(* and what an execution has put behind it says where it is.               *)

Notices == [kind : {"task", "working", "input-required", "artifact", "completed", "canceled"},
            text : Seq(Nat)]
Sayings == [kind : {"delta", "full"}, piece : Nat]

\* Where the answer in what was said begins: with its last complete message.
BeginsAt(said, f) ==
    \/ f = 1 /\ \A i \in 1..Len(said) : said[i].kind # "full"
    \/ f \in 1..Len(said) /\ said[f].kind = "full" /\ \A i \in f+1..Len(said) : said[i].kind # "full"
TextFrom(said, f) == [i \in 1..(Len(said) - f + 1) |-> said[f + i - 1].piece]

OfTask(E, kind) == \E i \in 1..Len(E) : E[i].kind = kind

\* A task with its events, its execution, what was said and whether it is cancelled.
TaskSound(E, ex, said, told) ==
    /\ E \in Seq(Notices) /\ said \in Seq(Sayings)
    /\ ex \in [at : {"absent", "streaming", "completing", "left", "failed", "stopped"}, text : Seq(Nat)]
    /\ \A i \in 1..Len(said) : said[i].piece = i
    /\ \E f \in Nat : BeginsAt(said, f) /\ ex.text = TextFrom(said, f)
    /\ ex.at = "absent" => E = <<>>
    /\ ex.at = "streaming" => ~OfTask(E, "artifact")
    /\ ex.at = "completing" => ex.text = <<>> \/ OfTask(E, "artifact")
    /\ ex.at = "left" => OfTask(E, "completed") \/ OfTask(E, "input-required")
    /\ ex.at = "stopped" \/ told => OfTask(E, "canceled")
    /\ OfTask(E, "completed") => ex.at = "left" /\ (ex.text = <<>> \/ OfTask(E, "artifact"))
    /\ \A i \in 1..Len(E) : E[i].kind = "completed" => i = Len(E)
    /\ \A i \in 1..Len(E) : E[i].kind = "artifact" =>
          /\ E[i].text = ex.text
          /\ \A j \in i+1..Len(E) : E[j].kind \in {"completed", "canceled"}

A2AIInv ==
    /\ cancelling \subseteq A2ATasks
    /\ execution = [t \in A2ATasks |-> execution[t]] /\ events = [t \in A2ATasks |-> events[t]]
    /\ chunks = [t \in A2ATasks |-> chunks[t]]
    /\ \A t \in A2ATasks : TaskSound(events[t], execution[t], chunks[t], t \in cancelling)

---------------------------------------------------------------------------
LEMMA NumberedIsSeq ==
    ASSUME NEW m \in Nat, NEW S, NEW z \in [1..m -> S]
    PROVE  z \in Seq(S)
BY SeqDef, Zenon

LEMMA BeginsOnce ==
    ASSUME NEW said \in Seq(Sayings), NEW f \in Nat, NEW g \in Nat, BeginsAt(said, f), BeginsAt(said, g)
    PROVE  f = g
<1>1. Len(said) \in Nat
  OBVIOUS
<1>2. CASE f < g
  BY <1>1, <1>2 DEF BeginsAt
<1>3. CASE g < f
  BY <1>1, <1>3 DEF BeginsAt
<1> QED BY <1>2, <1>3

\* The model's text of an answer is the one from its beginning.
LEMMA AnswerText ==
    ASSUME NEW t \in A2ATasks, chunks[t] \in Seq(Sayings), NEW f \in Nat, BeginsAt(chunks[t], f)
    PROVE  ArtifactText(t) = TextFrom(chunks[t], f)
<1> DEFINE said == chunks[t]
           last == {i \in 1..Len(said) : said[i].kind = "full"}
           from == IF last = {} THEN 1 ELSE CHOOSE i \in last : \A j \in last : j <= i
<1>1. Len(said) \in Nat
  OBVIOUS
<1>2. from = f
  <2>1. CASE last = {}
    BY <1>1, <2>1 DEF BeginsAt
  <2>2. CASE last # {}
    <3>1. f \in last /\ \A j \in last : j <= f
      BY <1>1, <2>2 DEF BeginsAt
    <3>2. \A i \in last : (\A j \in last : j <= i) => i = f
      BY <1>1, <3>1
    <3>3. (CHOOSE i \in last : \A j \in last : j <= i) = f
      <4> HIDE DEF last
      <4> QED BY <3>1, <3>2
    <3> QED BY <2>2, <3>3
  <2> QED BY <2>1, <2>2
<1>3. ArtifactText(t) = [i \in 1..(Len(said) - from + 1) |-> said[from + i - 1].piece]
  BY DEF ArtifactText
<1> QED BY <1>2, <1>3 DEF TextFrom

\* What a piece and what a complete message do to the answer.
LEMMA DeltaText ==
    ASSUME NEW said \in Seq(Sayings), NEW f \in Nat, BeginsAt(said, f),
           NEW more, more = Append(said, [kind |-> "delta", piece |-> Len(said) + 1])
    PROVE  /\ more \in Seq(Sayings) /\ BeginsAt(more, f)
           /\ TextFrom(more, f) = Append(TextFrom(said, f), Len(said) + 1)
<1> DEFINE n == Len(said)  x == [kind |-> "delta", piece |-> n + 1]
<1>1. /\ more \in Seq(Sayings) /\ Len(more) = n + 1 /\ more[n + 1] = x /\ n \in Nat
      /\ \A i \in 1..n : more[i] = said[i]
  <2>1. x \in Sayings
    BY DEF Sayings
  <2> HIDE DEF x
  <2> QED BY <2>1, AppendProperties DEF x
<1>2. f \in 1..(n + 1)
  BY <1>1 DEF BeginsAt
<1>3. BeginsAt(more, f)
  BY <1>1, <1>2 DEF BeginsAt
<1>4. TextFrom(more, f) = Append(TextFrom(said, f), n + 1)
  <2> PICK m \in Nat : m = n - f + 1
    BY <1>1, <1>2
  <2>1. \A i \in 1..n : said[i].piece \in Nat
    <3>1. \A i \in 1..Len(said) : said[i] \in Sayings
      BY ElementOfSeq
    <3> QED BY <3>1 DEF Sayings
  <2>2. TextFrom(said, f) = [i \in 1..m |-> said[f + i - 1].piece]
    BY DEF TextFrom
  <2>3. \A i \in 1..m : f + i - 1 \in 1..n
    BY <1>1, <1>2
  <2>4. TextFrom(said, f) \in [1..m -> Nat]
    BY <2>1, <2>2, <2>3
  <2>5. TextFrom(said, f) \in Seq(Nat) /\ Len(TextFrom(said, f)) = m
    <3>1. ASSUME NEW z \in [1..m -> Nat] PROVE z \in Seq(Nat) /\ Len(z) = m
      <4>1. z \in Seq(Nat)
        BY NumberedIsSeq
      <4>2. DOMAIN z = 1..m /\ Len(z) \in Nat /\ DOMAIN z = 1..Len(z)
        BY <4>1
      <4> QED BY <4>1, <4>2
    <3> QED BY <2>4, <3>1
  <2>6. n + 1 - f + 1 = m + 1 /\ f + (m + 1) - 1 = n + 1
    BY <1>1, <1>2
  <2>7. TextFrom(more, f) = [i \in 1..(m + 1) |-> more[f + i - 1].piece]
    <3>1. Len(more) - f + 1 = m + 1
      BY <1>1, <2>6
    <3> QED BY <3>1 DEF TextFrom
  <2>8. /\ Append(TextFrom(said, f), n + 1) \in Seq(Nat) /\ Len(Append(TextFrom(said, f), n + 1)) = m + 1
        /\ Append(TextFrom(said, f), n + 1)[m + 1] = n + 1
        /\ \A i \in 1..m : Append(TextFrom(said, f), n + 1)[i] = said[f + i - 1].piece
    BY <1>1, <2>2, <2>5, AppendProperties
  <2>9. \A i \in 1..(m + 1) : Append(TextFrom(said, f), n + 1)[i] = more[f + i - 1].piece
    <3>1. \A i \in 1..m : more[f + i - 1] = said[f + i - 1]
      BY <1>1, <2>3
    <3>2. more[f + (m + 1) - 1].piece = n + 1
      BY <1>1, <2>6
    <3> SUFFICES ASSUME NEW i \in 1..(m + 1)
                 PROVE  Append(TextFrom(said, f), n + 1)[i] = more[f + i - 1].piece
      OBVIOUS
    <3>3. CASE i = m + 1
      BY <2>8, <3>2, <3>3
    <3>4. CASE i # m + 1
      <4>1. i \in 1..m
        BY <3>4
      <4> QED BY <2>8, <3>1, <4>1
    <3> QED BY <3>3, <3>4
  <2>10. Append(TextFrom(said, f), n + 1) = [i \in 1..(m + 1) |-> Append(TextFrom(said, f), n + 1)[i]]
    BY <2>8
  <2> QED BY <2>7, <2>9, <2>10
<1> QED BY <1>1, <1>3, <1>4

LEMMA FullText ==
    ASSUME NEW said \in Seq(Sayings),
           NEW more, more = Append(said, [kind |-> "full", piece |-> Len(said) + 1])
    PROVE  /\ more \in Seq(Sayings) /\ Len(said) + 1 \in Nat /\ BeginsAt(more, Len(said) + 1)
           /\ TextFrom(more, Len(said) + 1) = <<Len(said) + 1>>
<1> DEFINE n == Len(said)  x == [kind |-> "full", piece |-> n + 1]
<1>1. /\ more \in Seq(Sayings) /\ Len(more) = n + 1 /\ more[n + 1] = x /\ n \in Nat
  <2>1. x \in Sayings
    BY DEF Sayings
  <2> HIDE DEF x
  <2> QED BY <2>1, AppendProperties DEF x
<1>2. BeginsAt(more, n + 1)
  BY <1>1 DEF BeginsAt
<1>3. TextFrom(more, n + 1) = <<n + 1>>
  <2>1. n + 1 - (n + 1) + 1 = 1 /\ n + 1 + 1 - 1 = n + 1
    BY <1>1
  <2>2. TextFrom(more, n + 1) = [i \in 1..1 |-> more[n + 1 + i - 1].piece]
    BY <1>1, <2>1 DEF TextFrom
  <2>3. \A i \in 1..1 : more[n + 1 + i - 1].piece = n + 1
    BY <1>1, <2>1
  <2> QED BY <2>2, <2>3
<1> QED BY <1>1, <1>2, <1>3

LEMMA EventsGrow ==
    ASSUME NEW E \in Seq(Notices), NEW x \in Notices, NEW F, F = Append(E, x)
    PROVE  /\ F \in Seq(Notices) /\ Len(F) = Len(E) + 1 /\ Len(E) \in Nat /\ F[Len(F)] = x
           /\ \A i \in 1..Len(E) : F[i] = E[i]
           /\ \A kind : OfTask(F, kind) <=> OfTask(E, kind) \/ x.kind = kind
<1>1. /\ F \in Seq(Notices) /\ Len(F) = Len(E) + 1 /\ Len(E) \in Nat /\ F[Len(F)] = x
      /\ \A i \in 1..Len(E) : F[i] = E[i]
  BY AppendProperties
<1>2. \A i : i \in 1..Len(F) <=> i \in 1..Len(E) \/ i = Len(F)
  BY <1>1
<1>3. \A kind : OfTask(F, kind) <=> OfTask(E, kind) \/ x.kind = kind
  BY <1>1, <1>2 DEF OfTask
<1> QED BY <1>1, <1>3

\* The step of one task.
LEMMA AnswerStep ==
    ASSUME A2AIInv, NEW t \in A2ATasks, NEW E, NEW ex, NEW said,
           events' = [events EXCEPT ![t] = E], execution' = [execution EXCEPT ![t] = ex],
           chunks' = [chunks EXCEPT ![t] = said], cancelling' \subseteq A2ATasks,
           \A s \in A2ATasks : s # t => (s \in cancelling' <=> s \in cancelling),
           TaskSound(E, ex, said, t \in cancelling')
    PROVE  A2AIInv'
<1>1. /\ events'[t] = E /\ execution'[t] = ex /\ chunks'[t] = said
      /\ \A s \in A2ATasks : s # t => /\ events'[s] = events[s] /\ execution'[s] = execution[s]
                                      /\ chunks'[s] = chunks[s]
      /\ events' = [s \in A2ATasks |-> events'[s]] /\ execution' = [s \in A2ATasks |-> execution'[s]]
      /\ chunks' = [s \in A2ATasks |-> chunks'[s]]
  BY DEF A2AIInv
<1>2. ASSUME NEW s \in A2ATasks PROVE TaskSound(events'[s], execution'[s], chunks'[s], s \in cancelling')
  <2>1. CASE s = t
    BY <1>1, <2>1
  <2>2. CASE s # t
    <3>1. (s \in cancelling') = (s \in cancelling)
      BY <2>2
    <3>2. TaskSound(events[s], execution[s], chunks[s], s \in cancelling)
      BY DEF A2AIInv
    <3>3. /\ events'[s] = events[s] /\ execution'[s] = execution[s] /\ chunks'[s] = chunks[s]
      BY <1>1, <2>2
    <3> HIDE <1>1
    <3> QED BY <3>1, <3>2, <3>3
  <2> QED BY <2>1, <2>2
<1> QED BY <1>1, <1>2 DEF A2AIInv

LEMMA A2ABegins == InitA2A => A2AIInv
<1> SUFFICES ASSUME InitA2A PROVE A2AIInv
  OBVIOUS
<1>1. /\ <<>> \in Seq(Notices) /\ <<>> \in Seq(Sayings) /\ <<>> \in Seq(Nat) /\ Len(<<>>) = 0
  OBVIOUS
<1>2. BeginsAt(<<>>, 1) /\ 1 \in Nat /\ TextFrom(<<>>, 1) = <<>>
  <2>1. 0 - 1 + 1 = 0 /\ 1..0 = {}
    OBVIOUS
  <2>2. TextFrom(<<>>, 1) = [i \in 1..0 |-> <<>>[1 + i - 1].piece]
    BY <1>1, <2>1 DEF TextFrom
  <2>3. TextFrom(<<>>, 1) = <<>>
    BY <2>1, <2>2
  <2> QED BY <1>1, <2>1, <2>3 DEF BeginsAt
<1>3. Absent.at = "absent" /\ Absent.text = <<>>
      /\ Absent \in [at : {"absent", "streaming", "completing", "left", "failed", "stopped"}, text : Seq(Nat)]
  BY <1>1 DEF Absent
<1>4. TaskSound(<<>>, Absent, <<>>, FALSE)
  BY <1>1, <1>2, <1>3 DEF TaskSound, OfTask
<1>5. \A t \in A2ATasks : /\ events[t] = <<>> /\ execution[t] = Absent /\ chunks[t] = <<>>
                          /\ (t \in cancelling) = FALSE
  BY DEF InitA2A
<1> QED BY <1>4, <1>5 DEF A2AIInv, InitA2A

LEMMA ExecuteSound ==
    ASSUME A2AIInv, NEW t \in A2ATasks, Execute(t)
    PROVE  A2AIInv'
<1> PICK E : E = events'[t]
  OBVIOUS
<1> DEFINE ex == [at |-> "streaming", text |-> <<>>]
<1>1. /\ execution' = [execution EXCEPT ![t] = ex] /\ chunks' = [chunks EXCEPT ![t] = <<>>]
      /\ cancelling' = cancelling
      /\ \/ execution[t].at = "absent" /\ Enqueue(t, Notice("task", <<>>))
         \/ execution[t].at = "left" /\ LastKind(t) = "input-required" /\ events' = events
  BY DEF Execute
<1>2. TaskSound(events[t], execution[t], chunks[t], t \in cancelling)
      /\ events = [s \in A2ATasks |-> events[s]] /\ cancelling \subseteq A2ATasks
  BY DEF A2AIInv
<1>3. /\ <<>> \in Seq(Sayings) /\ <<>> \in Seq(Nat) /\ Len(<<>>) = 0
  OBVIOUS
<1>4. BeginsAt(<<>>, 1) /\ 1 \in Nat /\ TextFrom(<<>>, 1) = <<>>
  <2>1. 0 - 1 + 1 = 0 /\ 1..0 = {}
    OBVIOUS
  <2>2. TextFrom(<<>>, 1) = [i \in 1..0 |-> <<>>[1 + i - 1].piece]
    BY <1>3, <2>1 DEF TextFrom
  <2>3. TextFrom(<<>>, 1) = <<>>
    BY <2>1, <2>2
  <2> QED BY <1>3, <2>1, <2>3 DEF BeginsAt
<1>5. /\ events' = [events EXCEPT ![t] = E] /\ E \in Seq(Notices)
      /\ \A i \in 1..Len(E) : E[i].kind \notin {"artifact", "completed"}
      /\ OfTask(events[t], "canceled") => OfTask(E, "canceled")
  <2>1. CASE execution[t].at = "absent" /\ Enqueue(t, Notice("task", <<>>))
    <3>1. Notice("task", <<>>) \in Notices /\ Notice("task", <<>>).kind = "task"
      BY <1>3 DEF Notice, Notices
    <3>2. events' = [events EXCEPT ![t] = Append(events[t], Notice("task", <<>>))]
      BY <2>1 DEF Enqueue
    <3>3. E = Append(<<>>, Notice("task", <<>>)) /\ events[t] = <<>>
      BY <1>2, <2>1, <3>2 DEF TaskSound
    <3>4. E \in Seq(Notices) /\ Len(E) = 1 /\ E[1].kind = "task"
      <4> HIDE DEF Notice
      <4> QED BY <3>1, <3>3
    <3>5. events' = [events EXCEPT ![t] = E]
      BY <3>2, <3>3
    <3>6. ~OfTask(events[t], "canceled")
      BY <3>3 DEF OfTask
    <3> QED BY <3>4, <3>5, <3>6
  <2>2. CASE execution[t].at = "left" /\ LastKind(t) = "input-required" /\ events' = events
    <3>1. E = events[t] /\ E \in Seq(Notices) /\ Len(E) \in Nat
      BY <1>2, <2>2 DEF TaskSound
    <3>2. Len(E) > 0 /\ E[Len(E)].kind = "input-required"
      BY <2>2, <3>1 DEF LastKind
    <3>3. \A i \in 1..Len(E) : E[i].kind \notin {"artifact", "completed"}
      <4> SUFFICES ASSUME NEW i \in 1..Len(E), E[i].kind \in {"artifact", "completed"} PROVE FALSE
        OBVIOUS
      <4>1. i # Len(E) /\ Len(E) \in i+1..Len(E)
        BY <3>1, <3>2
      <4> QED BY <1>2, <3>1, <3>2, <4>1 DEF TaskSound
    <3>4. events' = [events EXCEPT ![t] = E]
      BY <1>2, <2>2, <3>1
    <3> QED BY <3>1, <3>3, <3>4
  <2> QED BY <1>1, <2>1, <2>2
<1>6. ex.at = "streaming" /\ ex.text = <<>>
      /\ ex \in [at : {"absent", "streaming", "completing", "left", "failed", "stopped"}, text : Seq(Nat)]
  BY <1>3
<1> HIDE DEF ex
<1>7. TaskSound(E, ex, <<>>, t \in cancelling')
  <2>1. t \in cancelling' => OfTask(E, "canceled")
    BY <1>1, <1>2, <1>5 DEF TaskSound
  <2>2. ~OfTask(E, "artifact") /\ ~OfTask(E, "completed")
    BY <1>5 DEF OfTask
  <2> QED BY <1>3, <1>4, <1>5, <1>6, <2>1, <2>2 DEF TaskSound
<1> QED BY <1>1, <1>2, <1>5, <1>7, AnswerStep

LEMMA DeltaSound ==
    ASSUME A2AIInv, NEW t \in A2ATasks, Delta(t)
    PROVE  A2AIInv'
<1> PICK said : said = chunks[t]
  OBVIOUS
<1> PICK n : n = Len(said)
  OBVIOUS
<1>1. TaskSound(events[t], execution[t], said, t \in cancelling)
      /\ execution = [s \in A2ATasks |-> execution[s]] /\ cancelling \subseteq A2ATasks
  BY DEF A2AIInv
<1>2. /\ said \in Seq(Sayings) /\ n \in Nat /\ events[t] \in Seq(Notices)
      /\ execution[t] \in [at : {"absent", "streaming", "completing", "left", "failed", "stopped"}, text : Seq(Nat)]
      /\ \A i \in 1..n : said[i].piece = i
  BY <1>1 DEF TaskSound
<1> DEFINE notice == Notice("working", <<n + 1>>)
           E == Append(events[t], notice)
           text == Append(execution[t].text, n + 1)
           ex == [execution[t] EXCEPT !.text = text]
           more == Append(said, [kind |-> "delta", piece |-> n + 1])
<1>3. /\ execution[t].at = "streaming" /\ chunks' = [chunks EXCEPT ![t] = more]
      /\ events' = [events EXCEPT ![t] = E] /\ cancelling' = cancelling
      /\ execution' = [execution EXCEPT ![t] = ex]
  BY DEF Delta, Said, Enqueue
<1>4. notice \in Notices /\ notice.kind = "working"
  <2>1. <<n + 1>> \in Seq(Nat)
    BY <1>2
  <2> QED BY <2>1 DEF Notice, Notices
<1> HIDE DEF notice
<1>5. /\ E \in Seq(Notices) /\ Len(E) = Len(events[t]) + 1 /\ Len(events[t]) \in Nat
      /\ E[Len(E)] = notice /\ \A i \in 1..Len(events[t]) : E[i] = events[t][i]
      /\ \A kind : OfTask(E, kind) <=> OfTask(events[t], kind) \/ notice.kind = kind
  <2> DEFINE old == events[t]
  <2>1. old \in Seq(Notices) /\ E = Append(old, notice)
    BY <1>2
  <2> HIDE DEF old, E
  <2>2. /\ E \in Seq(Notices) /\ Len(E) = Len(old) + 1 /\ Len(old) \in Nat
        /\ E[Len(E)] = notice /\ \A i \in 1..Len(old) : E[i] = old[i]
        /\ \A kind : OfTask(E, kind) <=> OfTask(old, kind) \/ notice.kind = kind
    <3>1. notice \in Notices
      BY <1>4
    <3>2. \A kind : OfTask(E, kind) <=> OfTask(old, kind) \/ notice.kind = kind
      BY <2>1, <3>1, EventsGrow
    <3>3. /\ E \in Seq(Notices) /\ Len(E) = Len(old) + 1 /\ Len(old) \in Nat
          /\ E[Len(E)] = notice /\ \A i \in 1..Len(old) : E[i] = old[i]
      BY <2>1, <3>1, EventsGrow
    <3> QED BY <3>2, <3>3
  <2> QED BY <2>2 DEF old
<1> HIDE DEF E
<1> PICK f \in Nat : BeginsAt(said, f) /\ execution[t].text = TextFrom(said, f)
  BY <1>1 DEF TaskSound
<1>6. more \in Seq(Sayings) /\ BeginsAt(more, f) /\ TextFrom(more, f) = text
  <2>1. more = Append(said, [kind |-> "delta", piece |-> Len(said) + 1])
    OBVIOUS
  <2>2. text = Append(TextFrom(said, f), Len(said) + 1)
    OBVIOUS
  <2> HIDE DEF more, text
  <2>3. more \in Seq(Sayings) /\ BeginsAt(more, f)
    BY <1>2, <2>1, DeltaText
  <2>4. TextFrom(more, f) = Append(TextFrom(said, f), Len(said) + 1)
    BY <1>2, <2>1, DeltaText
  <2> QED BY <2>2, <2>3, <2>4
<1>7. Len(more) = n + 1 /\ \A i \in 1..(n + 1) : more[i].piece = i
  <2> DEFINE saying == [kind |-> "delta", piece |-> n + 1]
  <2>1. saying \in Sayings /\ saying.piece = n + 1
    BY <1>2 DEF Sayings
  <2> HIDE DEF saying
  <2>2. more = Append(said, saying)
    BY DEF saying
  <2> HIDE DEF more
  <2>3. Len(more) = n + 1 /\ more[n + 1] = saying /\ \A i \in 1..n : more[i] = said[i]
    BY <1>2, <2>1, <2>2, AppendProperties
  <2> QED BY <1>2, <2>1, <2>3, SMTT(40)
<1> HIDE DEF more
<1>8. text \in Seq(Nat)
  BY <1>2
<1> HIDE DEF text
<1>9. ex.at = "streaming" /\ ex.text = text
      /\ ex \in [at : {"absent", "streaming", "completing", "left", "failed", "stopped"}, text : Seq(Nat)]
  BY <1>2, <1>3, <1>8
<1> HIDE DEF ex
<1>10. \A i \in 1..Len(E) : E[i].kind \notin {"artifact", "completed"}
  <2>1. ~OfTask(events[t], "artifact") /\ ~OfTask(events[t], "completed")
    BY <1>1, <1>3 DEF TaskSound
  <2> QED BY <1>4, <1>5, <2>1 DEF OfTask
<1>11. TaskSound(E, ex, more, t \in cancelling')
  <2>1. t \in cancelling' => OfTask(E, "canceled")
    BY <1>1, <1>3, <1>5 DEF TaskSound
  <2>2. ~OfTask(E, "artifact") /\ ~OfTask(E, "completed")
    BY <1>10 DEF OfTask
  <2> QED BY <1>5, <1>6, <1>7, <1>9, <1>10, <2>1, <2>2 DEF TaskSound
<1> QED BY <1>1, <1>3, <1>11, AnswerStep

\* What an event that is put changes for its task.
LEMMA EnqueueMeans ==
    ASSUME A2AIInv, NEW t \in A2ATasks, NEW notice \in Notices, Enqueue(t, notice), NEW E, E = events'[t]
    PROVE  /\ events' = [events EXCEPT ![t] = E]
           /\ E \in Seq(Notices) /\ Len(E) = Len(events[t]) + 1 /\ Len(events[t]) \in Nat
           /\ E[Len(E)] = notice /\ \A i \in 1..Len(events[t]) : E[i] = events[t][i]
           /\ \A kind : OfTask(E, kind) <=> OfTask(events[t], kind) \/ notice.kind = kind
<1>1. events' = [events EXCEPT ![t] = Append(events[t], notice)]
      /\ events = [s \in A2ATasks |-> events[s]] /\ events[t] \in Seq(Notices)
  BY DEF Enqueue, A2AIInv, TaskSound
<1>2. E = Append(events[t], notice) /\ events' = [events EXCEPT ![t] = E]
  BY <1>1
<1> DEFINE old == events[t]
<1>3. old \in Seq(Notices) /\ E = Append(old, notice)
  BY <1>1, <1>2
<1> HIDE DEF old
<1>4. \A kind : OfTask(E, kind) <=> OfTask(old, kind) \/ notice.kind = kind
  BY <1>3, EventsGrow
<1>5. /\ E \in Seq(Notices) /\ Len(E) = Len(old) + 1 /\ Len(old) \in Nat
      /\ E[Len(E)] = notice /\ \A i \in 1..Len(old) : E[i] = old[i]
  BY <1>3, EventsGrow
<1> QED BY <1>2, <1>4, <1>5 DEF old

ExPlaces == {"absent", "streaming", "completing", "left", "failed", "stopped"}

\* The step of a task that leaves what was said, and its text.
LEMMA PlaceStep ==
    ASSUME A2AIInv, NEW t \in A2ATasks, NEW at \in ExPlaces, NEW E,
           events' = [events EXCEPT ![t] = E], E \in Seq(Notices),
           execution' = [execution EXCEPT ![t].at = at], chunks' = chunks,
           cancelling' \subseteq A2ATasks,
           \A s \in A2ATasks : s # t => (s \in cancelling' <=> s \in cancelling),
           at = "absent" => E = <<>>,
           at = "streaming" => ~OfTask(E, "artifact"),
           at = "completing" => execution[t].text = <<>> \/ OfTask(E, "artifact"),
           at = "left" => OfTask(E, "completed") \/ OfTask(E, "input-required"),
           at = "stopped" \/ t \in cancelling' => OfTask(E, "canceled"),
           OfTask(E, "completed") => at = "left" /\ (execution[t].text = <<>> \/ OfTask(E, "artifact")),
           \A i \in 1..Len(E) : E[i].kind = "completed" => i = Len(E),
           \A i \in 1..Len(E) : E[i].kind = "artifact" =>
              /\ E[i].text = execution[t].text
              /\ \A j \in i+1..Len(E) : E[j].kind \in {"completed", "canceled"}
    PROVE  A2AIInv'
<1>1. /\ TaskSound(events[t], execution[t], chunks[t], t \in cancelling)
      /\ chunks = [s \in A2ATasks |-> chunks[s]] /\ execution = [s \in A2ATasks |-> execution[s]]
  BY DEF A2AIInv
<1> DEFINE ex == [execution[t] EXCEPT !.at = at]
<1>2. ex.at = at /\ ex.text = execution[t].text
      /\ ex \in [at : {"absent", "streaming", "completing", "left", "failed", "stopped"}, text : Seq(Nat)]
  BY <1>1 DEF TaskSound, ExPlaces
<1>3. /\ execution' = [execution EXCEPT ![t] = ex] /\ chunks' = [chunks EXCEPT ![t] = chunks[t]]
  BY <1>1
<1> HIDE DEF ex
<1>4. TaskSound(E, ex, chunks[t], t \in cancelling')
  BY <1>1, <1>2 DEF TaskSound
<1> QED BY <1>3, <1>4, AnswerStep

LEMMA FullMessageSound ==
    ASSUME A2AIInv, NEW t \in A2ATasks, FullMessage(t)
    PROVE  A2AIInv'
<1> PICK said : said = chunks[t]
  OBVIOUS
<1> PICK n : n = Len(said)
  OBVIOUS
<1>1. TaskSound(events[t], execution[t], said, t \in cancelling)
      /\ execution = [s \in A2ATasks |-> execution[s]] /\ cancelling \subseteq A2ATasks
      /\ events = [s \in A2ATasks |-> events[s]]
  BY DEF A2AIInv
<1>2. /\ said \in Seq(Sayings) /\ n \in Nat
      /\ execution[t] \in [at : {"absent", "streaming", "completing", "left", "failed", "stopped"}, text : Seq(Nat)]
      /\ \A i \in 1..n : said[i].piece = i
  BY <1>1 DEF TaskSound
<1> DEFINE ex == [execution[t] EXCEPT !.text = <<n + 1>>]
           more == Append(said, [kind |-> "full", piece |-> n + 1])
<1>3. /\ execution[t].at = "streaming" /\ chunks' = [chunks EXCEPT ![t] = more]
      /\ events' = [events EXCEPT ![t] = events[t]] /\ cancelling' = cancelling
      /\ execution' = [execution EXCEPT ![t] = ex]
  BY <1>1 DEF FullMessage, Said
<1>4. more \in Seq(Sayings) /\ n + 1 \in Nat /\ BeginsAt(more, n + 1) /\ TextFrom(more, n + 1) = <<n + 1>>
  <2>1. more = Append(said, [kind |-> "full", piece |-> Len(said) + 1])
    OBVIOUS
  <2> HIDE DEF more
  <2> QED BY <1>2, <2>1, FullText
<1>5. Len(more) = n + 1 /\ \A i \in 1..(n + 1) : more[i].piece = i
  BY <1>2 DEF Sayings
<1> HIDE DEF more
<1>6. ex.at = "streaming" /\ ex.text = <<n + 1>>
      /\ ex \in [at : {"absent", "streaming", "completing", "left", "failed", "stopped"}, text : Seq(Nat)]
  <2>1. <<n + 1>> \in Seq(Nat)
    BY <1>2
  <2> QED BY <1>2, <1>3, <2>1
<1> HIDE DEF ex
<1>7. ~OfTask(events[t], "artifact") /\ ~OfTask(events[t], "completed")
  BY <1>1, <1>3 DEF TaskSound
<1>8. TaskSound(events[t], ex, more, t \in cancelling')
  <2>1. \A i \in 1..Len(events[t]) : events[t][i].kind # "artifact"
    BY <1>7 DEF OfTask
  <2> QED BY <1>1, <1>3, <1>4, <1>5, <1>6, <1>7, <2>1 DEF TaskSound
<1> QED BY <1>1, <1>3, <1>8, AnswerStep

LEMMA InterruptSound ==
    ASSUME A2AIInv, NEW t \in A2ATasks, Interrupt(t)
    PROVE  A2AIInv'
<1> DEFINE notice == Notice("input-required", <<>>)
<1> PICK E : E = events'[t]
  OBVIOUS
<1>1. /\ execution[t].at = "streaming" /\ Enqueue(t, notice) /\ chunks' = chunks
      /\ execution' = [execution EXCEPT ![t].at = "left"] /\ cancelling' = cancelling
  BY DEF Interrupt
<1>2. notice \in Notices /\ notice.kind = "input-required"
  <2>1. <<>> \in Seq(Nat)
    OBVIOUS
  <2> QED BY <2>1 DEF Notice, Notices
<1> HIDE DEF notice
<1>3. /\ events' = [events EXCEPT ![t] = E]
      /\ E \in Seq(Notices) /\ Len(E) = Len(events[t]) + 1 /\ Len(events[t]) \in Nat
      /\ E[Len(E)] = notice /\ \A i \in 1..Len(events[t]) : E[i] = events[t][i]
      /\ \A kind : OfTask(E, kind) <=> OfTask(events[t], kind) \/ notice.kind = kind
  BY <1>1, <1>2, EnqueueMeans, SMTT(40)
<1>4. TaskSound(events[t], execution[t], chunks[t], t \in cancelling) /\ cancelling \subseteq A2ATasks
  BY DEF A2AIInv
<1>5. ~OfTask(E, "artifact") /\ ~OfTask(E, "completed") /\ OfTask(E, "input-required")
      /\ (t \in cancelling => OfTask(E, "canceled"))
  BY <1>1, <1>2, <1>3, <1>4 DEF TaskSound
<1>6. \A i \in 1..Len(E) : E[i].kind # "artifact" /\ E[i].kind # "completed"
  BY <1>5 DEF OfTask
<1> QED BY <1>1, <1>3, <1>4, <1>5, <1>6, PlaceStep DEF ExPlaces

LEMMA AddArtifactSound ==
    ASSUME A2AIInv, NEW t \in A2ATasks, AddArtifact(t)
    PROVE  A2AIInv'
<1> DEFINE notice == Notice("artifact", execution[t].text)
<1> PICK E : E = events'[t]
  OBVIOUS
<1>1. /\ execution[t].at = "streaming" /\ chunks' = chunks
      /\ execution' = [execution EXCEPT ![t].at = "completing"] /\ cancelling' = cancelling
      /\ \/ Enqueue(t, notice)
         \/ execution[t].text = <<>> /\ events' = events
  BY DEF AddArtifact
<1>2. TaskSound(events[t], execution[t], chunks[t], t \in cancelling) /\ cancelling \subseteq A2ATasks
      /\ events = [s \in A2ATasks |-> events[s]]
  BY DEF A2AIInv
<1>3. ~OfTask(events[t], "artifact") /\ ~OfTask(events[t], "completed") /\ events[t] \in Seq(Notices)
  BY <1>1, <1>2 DEF TaskSound
<1>4. notice \in Notices /\ notice.kind = "artifact" /\ notice.text = execution[t].text
  BY <1>2 DEF Notice, Notices, TaskSound
<1> HIDE DEF notice
<1>5. CASE Enqueue(t, notice)
  <2>1. /\ events' = [events EXCEPT ![t] = E]
        /\ E \in Seq(Notices) /\ Len(E) = Len(events[t]) + 1 /\ Len(events[t]) \in Nat
        /\ E[Len(E)] = notice /\ \A i \in 1..Len(events[t]) : E[i] = events[t][i]
        /\ \A kind : OfTask(E, kind) <=> OfTask(events[t], kind) \/ notice.kind = kind
    <3>1. notice \in Notices
      BY <1>4
    <3>2. \A kind : OfTask(E, kind) <=> OfTask(events[t], kind) \/ notice.kind = kind
      BY <1>5, <3>1, EnqueueMeans
    <3>3. /\ events' = [events EXCEPT ![t] = E]
          /\ E \in Seq(Notices) /\ Len(E) = Len(events[t]) + 1 /\ Len(events[t]) \in Nat
          /\ E[Len(E)] = notice /\ \A i \in 1..Len(events[t]) : E[i] = events[t][i]
      BY <1>5, <3>1, EnqueueMeans
    <3> QED BY <3>2, <3>3
  <2>2. /\ ~OfTask(E, "completed") /\ OfTask(E, "artifact")
        /\ t \in cancelling => OfTask(E, "canceled")
    BY <1>2, <1>3, <1>4, <2>1 DEF TaskSound
  <2>3. ASSUME NEW i \in 1..Len(E), E[i].kind = "artifact"
        PROVE  /\ E[i].text = execution[t].text
               /\ \A j \in i+1..Len(E) : E[j].kind \in {"completed", "canceled"}
    <3>1. i = Len(E)
      <4> SUFFICES ASSUME i # Len(E) PROVE FALSE
        OBVIOUS
      <4>1. i \in 1..Len(events[t])
        BY <2>1
      <4> QED BY <1>3, <2>1, <2>3, <4>1 DEF OfTask
    <3> QED BY <1>4, <2>1, <3>1
  <2>4. \A i \in 1..Len(E) : E[i].kind # "completed"
    BY <2>2 DEF OfTask
  <2>5. events' = [events EXCEPT ![t] = E] /\ E \in Seq(Notices) /\ "completing" \in ExPlaces
    BY <2>1 DEF ExPlaces
  <2>6. /\ execution' = [execution EXCEPT ![t].at = "completing"] /\ chunks' = chunks
        /\ cancelling' \subseteq A2ATasks
        /\ \A s \in A2ATasks : s # t => (s \in cancelling' <=> s \in cancelling)
        /\ t \in cancelling' => OfTask(E, "canceled")
    BY <1>1, <1>2, <2>2
  <2> QED BY <2>2, <2>3, <2>4, <2>5, <2>6, PlaceStep
<1>6. CASE execution[t].text = <<>> /\ events' = events
  <2>1. events' = [events EXCEPT ![t] = events[t]]
    BY <1>2, <1>6
  <2>2. \A i \in 1..Len(events[t]) : events[t][i].kind # "artifact" /\ events[t][i].kind # "completed"
    BY <1>3 DEF OfTask
  <2>3. t \in cancelling => OfTask(events[t], "canceled")
    BY <1>2 DEF TaskSound
  <2> QED BY <1>1, <1>2, <1>3, <1>6, <2>1, <2>2, <2>3, PlaceStep DEF ExPlaces
<1> QED BY <1>1, <1>5, <1>6

LEMMA CompleteSound ==
    ASSUME A2AIInv, NEW t \in A2ATasks, Complete(t)
    PROVE  A2AIInv'
<1> DEFINE notice == Notice("completed", <<>>)
<1> PICK E : E = events'[t]
  OBVIOUS
<1>1. /\ execution[t].at = "completing" /\ Enqueue(t, notice) /\ chunks' = chunks
      /\ execution' = [execution EXCEPT ![t].at = "left"] /\ cancelling' = cancelling
  BY DEF Complete
<1>2. notice \in Notices /\ notice.kind = "completed"
  <2>1. <<>> \in Seq(Nat)
    OBVIOUS
  <2> QED BY <2>1 DEF Notice, Notices
<1> HIDE DEF notice
<1>3. /\ events' = [events EXCEPT ![t] = E]
      /\ E \in Seq(Notices) /\ Len(E) = Len(events[t]) + 1 /\ Len(events[t]) \in Nat
      /\ E[Len(E)] = notice /\ \A i \in 1..Len(events[t]) : E[i] = events[t][i]
  BY <1>1, <1>2, EnqueueMeans
<1>4. \A kind : OfTask(E, kind) <=> OfTask(events[t], kind) \/ notice.kind = kind
  BY <1>1, <1>2, EnqueueMeans
<1>5. TaskSound(events[t], execution[t], chunks[t], t \in cancelling) /\ cancelling \subseteq A2ATasks
  BY DEF A2AIInv
<1>6. /\ ~OfTask(events[t], "completed") /\ OfTask(E, "completed")
      /\ execution[t].text = <<>> \/ OfTask(E, "artifact")
      /\ t \in cancelling => OfTask(E, "canceled")
  BY <1>1, <1>2, <1>4, <1>5 DEF TaskSound
<1>7. ASSUME NEW i \in 1..Len(E) PROVE i = Len(E) \/ (i \in 1..Len(events[t]) /\ E[i] = events[t][i])
  BY <1>3
<1>8. \A i \in 1..Len(E) : E[i].kind = "completed" => i = Len(E)
  BY <1>6, <1>7 DEF OfTask
<1>9. ASSUME NEW i \in 1..Len(E), E[i].kind = "artifact"
      PROVE  /\ E[i].text = execution[t].text
             /\ \A j \in i+1..Len(E) : E[j].kind \in {"completed", "canceled"}
  <2>1. i \in 1..Len(events[t]) /\ events[t][i].kind = "artifact" /\ E[i] = events[t][i]
    BY <1>2, <1>3, <1>7, <1>9
  <2>2. events[t][i].text = execution[t].text
        /\ \A j \in i+1..Len(events[t]) : events[t][j].kind \in {"completed", "canceled"}
    BY <1>5, <2>1 DEF TaskSound
  <2>3. ASSUME NEW j \in i+1..Len(E) PROVE E[j].kind \in {"completed", "canceled"}
    <3>1. CASE j = Len(E)
      BY <1>2, <1>3, <3>1
    <3>2. CASE j # Len(E)
      <4>1. j \in i+1..Len(events[t]) /\ j \in 1..Len(events[t])
        BY <1>3, <2>1, <3>2
      <4> QED BY <1>3, <2>2, <4>1
    <3> QED BY <3>1, <3>2
  <2> QED BY <2>1, <2>2, <2>3
<1>10. events' = [events EXCEPT ![t] = E] /\ E \in Seq(Notices) /\ "left" \in ExPlaces
  BY <1>3 DEF ExPlaces
<1>11. /\ cancelling' \subseteq A2ATasks
       /\ \A s \in A2ATasks : s # t => (s \in cancelling' <=> s \in cancelling)
       /\ t \in cancelling' => OfTask(E, "canceled")
  BY <1>1, <1>5, <1>6
<1> QED BY <1>1, <1>6, <1>8, <1>9, <1>10, <1>11, PlaceStep

LEMMA FailSound ==
    ASSUME A2AIInv, NEW t \in A2ATasks, Fail(t)
    PROVE  A2AIInv'
<1>1. /\ execution[t].at \in {"streaming", "completing"} /\ chunks' = chunks /\ events' = events
      /\ execution' = [execution EXCEPT ![t].at = "failed"] /\ cancelling' = cancelling
  BY DEF Fail
<1>2. TaskSound(events[t], execution[t], chunks[t], t \in cancelling) /\ cancelling \subseteq A2ATasks
      /\ events = [s \in A2ATasks |-> events[s]]
  BY DEF A2AIInv
<1>3. /\ events[t] \in Seq(Notices) /\ ~OfTask(events[t], "completed")
      /\ t \in cancelling => OfTask(events[t], "canceled")
      /\ \A i \in 1..Len(events[t]) : events[t][i].kind = "completed" => i = Len(events[t])
      /\ \A i \in 1..Len(events[t]) : events[t][i].kind = "artifact" =>
            /\ events[t][i].text = execution[t].text
            /\ \A j \in i+1..Len(events[t]) : events[t][j].kind \in {"completed", "canceled"}
  BY <1>1, <1>2 DEF TaskSound
<1>4. events' = [events EXCEPT ![t] = events[t]] /\ "failed" \in ExPlaces
  BY <1>1, <1>2 DEF ExPlaces
<1>5. /\ cancelling' \subseteq A2ATasks
      /\ \A s \in A2ATasks : s # t => (s \in cancelling' <=> s \in cancelling)
      /\ t \in cancelling' => OfTask(events[t], "canceled")
  BY <1>1, <1>2, <1>3
<1> QED BY <1>1, <1>3, <1>4, <1>5, PlaceStep

LEMMA CancelSound ==
    ASSUME A2AIInv, NEW t \in A2ATasks, Cancel(t)
    PROVE  A2AIInv'
<1> DEFINE notice == Notice("canceled", <<>>)
<1> PICK E : E = events'[t]
  OBVIOUS
<1> PICK at : at = execution[t].at
  OBVIOUS
<1>1. /\ at # "absent" /\ Enqueue(t, notice) /\ chunks' = chunks /\ execution' = execution
      /\ cancelling' = cancelling \cup {t} /\ ~OfTask(events[t], "completed")
  BY DEF Cancel, Has, OfTask
<1>2. notice \in Notices /\ notice.kind = "canceled"
  <2>1. <<>> \in Seq(Nat)
    OBVIOUS
  <2> QED BY <2>1 DEF Notice, Notices
<1> HIDE DEF notice
<1>3. /\ events' = [events EXCEPT ![t] = E]
      /\ E \in Seq(Notices) /\ Len(E) = Len(events[t]) + 1 /\ Len(events[t]) \in Nat
      /\ E[Len(E)] = notice /\ \A i \in 1..Len(events[t]) : E[i] = events[t][i]
  BY <1>1, <1>2, EnqueueMeans
<1>4. \A kind : OfTask(E, kind) <=> OfTask(events[t], kind) \/ notice.kind = kind
  BY <1>1, <1>2, EnqueueMeans
<1>5. TaskSound(events[t], execution[t], chunks[t], t \in cancelling) /\ cancelling \subseteq A2ATasks
      /\ execution = [s \in A2ATasks |-> execution[s]]
  BY DEF A2AIInv
<1>6. /\ ~OfTask(E, "completed") /\ OfTask(E, "canceled")
      /\ OfTask(E, "artifact") <=> OfTask(events[t], "artifact")
      /\ OfTask(E, "input-required") <=> OfTask(events[t], "input-required")
  BY <1>1, <1>2, <1>4
<1>7. ASSUME NEW i \in 1..Len(E) PROVE i = Len(E) \/ (i \in 1..Len(events[t]) /\ E[i] = events[t][i])
  BY <1>3
<1>8. \A i \in 1..Len(E) : E[i].kind # "completed"
  BY <1>6 DEF OfTask
<1>9. ASSUME NEW i \in 1..Len(E), E[i].kind = "artifact"
      PROVE  /\ E[i].text = execution[t].text
             /\ \A j \in i+1..Len(E) : E[j].kind \in {"completed", "canceled"}
  <2>1. i \in 1..Len(events[t]) /\ events[t][i].kind = "artifact" /\ E[i] = events[t][i]
    BY <1>2, <1>3, <1>7, <1>9
  <2>2. events[t][i].text = execution[t].text
        /\ \A j \in i+1..Len(events[t]) : events[t][j].kind \in {"completed", "canceled"}
    BY <1>5, <2>1 DEF TaskSound
  <2>3. ASSUME NEW j \in i+1..Len(E) PROVE E[j].kind \in {"completed", "canceled"}
    <3>1. CASE j = Len(E)
      BY <1>2, <1>3, <3>1
    <3>2. CASE j # Len(E)
      <4>1. j \in i+1..Len(events[t]) /\ j \in 1..Len(events[t])
        BY <1>3, <2>1, <3>2
      <4> QED BY <1>3, <2>2, <4>1
    <3> QED BY <3>1, <3>2
  <2> QED BY <2>1, <2>2, <2>3
<1>10. events' = [events EXCEPT ![t] = E] /\ E \in Seq(Notices) /\ at \in ExPlaces
       /\ execution' = [execution EXCEPT ![t].at = at]
  <2>1. at \in ExPlaces /\ execution[t] \in [at : ExPlaces, text : Seq(Nat)]
    BY <1>5 DEF TaskSound, ExPlaces
  <2>2. [execution[t] EXCEPT !.at = at] = execution[t]
    BY <2>1
  <2> QED BY <1>1, <1>3, <1>5, <2>1, <2>2
<1>11. /\ cancelling' \subseteq A2ATasks
       /\ \A s \in A2ATasks : s # t => (s \in cancelling' <=> s \in cancelling)
  BY <1>1, <1>5
<1>12. /\ at = "streaming" => ~OfTask(E, "artifact")
       /\ at = "completing" => execution[t].text = <<>> \/ OfTask(E, "artifact")
       /\ at = "left" => OfTask(E, "completed") \/ OfTask(E, "input-required")
  BY <1>1, <1>5, <1>6 DEF TaskSound
<1> QED BY <1>1, <1>6, <1>8, <1>9, <1>10, <1>11, <1>12, PlaceStep

LEMMA StopExecutionSound ==
    ASSUME A2AIInv, NEW t \in A2ATasks, StopExecution(t)
    PROVE  A2AIInv'
<1> PICK at : at = IF execution[t].at \in {"streaming", "completing"} THEN "stopped" ELSE execution[t].at
  OBVIOUS
<1>1. /\ t \in cancelling /\ chunks' = chunks /\ events' = events
      /\ execution' = [execution EXCEPT ![t].at = at] /\ cancelling' = cancelling \ {t}
  BY DEF StopExecution
<1>2. TaskSound(events[t], execution[t], chunks[t], t \in cancelling) /\ cancelling \subseteq A2ATasks
      /\ events = [s \in A2ATasks |-> events[s]]
  BY DEF A2AIInv
<1>3. /\ events[t] \in Seq(Notices) /\ OfTask(events[t], "canceled")
      /\ \A i \in 1..Len(events[t]) : events[t][i].kind = "completed" => i = Len(events[t])
      /\ \A i \in 1..Len(events[t]) : events[t][i].kind = "artifact" =>
            /\ events[t][i].text = execution[t].text
            /\ \A j \in i+1..Len(events[t]) : events[t][j].kind \in {"completed", "canceled"}
  BY <1>1, <1>2 DEF TaskSound
<1>4. /\ at \notin {"streaming", "completing"} /\ at \in ExPlaces /\ (at = "absent" => events[t] = <<>>)
      /\ at = "left" => OfTask(events[t], "completed") \/ OfTask(events[t], "input-required")
      /\ OfTask(events[t], "completed") => at = "left" /\ (execution[t].text = <<>> \/ OfTask(events[t], "artifact"))
  BY <1>2 DEF ExPlaces, TaskSound
<1>5. events' = [events EXCEPT ![t] = events[t]]
  BY <1>1, <1>2
<1>6. /\ cancelling' \subseteq A2ATasks
      /\ \A s \in A2ATasks : s # t => (s \in cancelling' <=> s \in cancelling)
  BY <1>1, <1>2
<1> QED BY <1>1, <1>3, <1>4, <1>5, <1>6, PlaceStep

LEMMA A2ANext ==
    ASSUME A2AIInv, [NextA2A]_a2aVars
    PROVE  A2AIInv'
<1>1. CASE UNCHANGED a2aVars
  BY <1>1 DEF A2AIInv, a2aVars
<1>2. ASSUME NEW t \in A2ATasks,
             Execute(t) \/ Delta(t) \/ FullMessage(t) \/ Interrupt(t) \/ AddArtifact(t)
             \/ Complete(t) \/ Fail(t) \/ Cancel(t) \/ StopExecution(t)
      PROVE  A2AIInv'
  BY <1>2, ExecuteSound, DeltaSound, FullMessageSound, InterruptSound, AddArtifactSound, CompleteSound,
     FailSound, CancelSound, StopExecutionSound
<1> QED BY <1>1, <1>2 DEF NextA2A

LEMMA A2AMeans ==
    ASSUME A2AIInv
    PROVE  A2AInv
<1>1. ASSUME NEW t \in A2ATasks
      PROVE  /\ TaskSound(events[t], execution[t], chunks[t], t \in cancelling)
             /\ ArtifactText(t) = execution[t].text
             /\ \A kind : Has(t, kind) <=> OfTask(events[t], kind)
             /\ Len(events[t]) \in Nat
  <2>1. TaskSound(events[t], execution[t], chunks[t], t \in cancelling)
    BY DEF A2AIInv
  <2>2. chunks[t] \in Seq(Sayings) /\ events[t] \in Seq(Notices)
    BY <2>1 DEF TaskSound
  <2>3. PICK f \in Nat : BeginsAt(chunks[t], f) /\ execution[t].text = TextFrom(chunks[t], f)
    BY <2>1 DEF TaskSound
  <2>4. ArtifactText(t) = execution[t].text
    BY <2>2, <2>3, AnswerText
  <2>5. \A kind : Has(t, kind) <=> OfTask(events[t], kind)
    BY DEF Has, OfTask
  <2> QED BY <2>1, <2>2, <2>4, <2>5
<1>2. A2ATypeOK
  BY <1>1 DEF A2ATypeOK, TaskSound, A2AIInv
<1>3. AnswerIsWhole
  BY <1>1 DEF AnswerIsWhole, Positions, TaskSound
<1>4. OneEnd
  <2> SUFFICES ASSUME NEW t \in A2ATasks
               PROVE  /\ \A i, j \in Positions(t, "completed") : i = j
                      /\ Has(t, "completed") => ArtifactText(t) = <<>> \/ Has(t, "artifact")
                      /\ \A i \in Positions(t, "canceled") : \A j \in Positions(t, "completed") : i < j
                      /\ execution[t].at = "stopped" => Has(t, "canceled") /\ ~Has(t, "completed")
    BY DEF OneEnd
  <2>1. /\ TaskSound(events[t], execution[t], chunks[t], t \in cancelling) /\ Len(events[t]) \in Nat
        /\ ArtifactText(t) = execution[t].text
        /\ \A kind : Has(t, kind) <=> OfTask(events[t], kind)
    BY <1>1
  <2>2. \A j \in Positions(t, "completed") : j = Len(events[t])
    BY <2>1 DEF Positions, TaskSound
  <2>3. \A i \in Positions(t, "canceled") : i \in 1..Len(events[t]) /\ i \notin Positions(t, "completed")
    BY DEF Positions
  <2>4. \A i \in Positions(t, "canceled") : \A j \in Positions(t, "completed") : i < j
    BY <2>1, <2>2, <2>3
  <2>5. execution[t].at = "stopped" => Has(t, "canceled") /\ ~Has(t, "completed")
    BY <2>1 DEF TaskSound
  <2>6. Has(t, "completed") => ArtifactText(t) = <<>> \/ Has(t, "artifact")
    BY <2>1 DEF TaskSound
  <2> QED BY <2>2, <2>4, <2>5, <2>6
<1>5. ReturnIsTold
  BY <1>1 DEF ReturnIsTold, TaskSound
<1> QED BY <1>2, <1>3, <1>4, <1>5 DEF A2AInv

\* Whatever a graph says in pieces or complete messages, however often it stops to ask
\* its user, and whenever it is cancelled or fails: the artifact of a task is the whole
\* answer of the execution that made it, only the status of the task comes behind it, a
\* task is completed once and last, an execution that was stopped was told to be
\* canceled, and one that returned has told so (a2a/executor.py).
THEOREM A2ATasksSound == A2ASpec => []A2AInv
<1>1. InitA2A => A2AIInv
  BY A2ABegins
<1>2. A2AIInv /\ [NextA2A]_a2aVars => A2AIInv'
  BY A2ANext
<1>3. A2AIInv => A2AInv
  BY A2AMeans
<1> QED BY <1>1, <1>2, <1>3, PTL DEF A2ASpec

---------------------------------------------------------------------------
(* The conversion of a message                                             *)

PartRows == [kind : {"text", "image", "document", "data"}, data : STRING]

ListedParts(parts, places) == [k \in 1..Cardinality(places) |-> parts[Nth(places, k)]]
ListedData(parts, places) == [k \in 1..Cardinality(places) |-> parts[Nth(places, k)].data]

\* What is picked, as the list of what stands at the first, the second ... place.
LEMMA PickedIs ==
    ASSUME NEW parts, NEW n, NEW places, UpTo(n, places)
    PROVE  /\ Cardinality(places) \in Nat
           /\ Picked(parts, places) = ListedParts(parts, places)
           /\ Len(Picked(parts, places)) = Cardinality(places)
           /\ DataOf(Picked(parts, places)) = ListedData(parts, places)
<1> DEFINE size == Cardinality(places)
           picked == [k \in 1..size |-> parts[Nth(places, k)]]
<1>1. size \in Nat
  BY NthInOrder
<1>2. Picked(parts, places) = picked
  BY DEF Picked, Nth, Below
<1>3. Len(picked) = size
  <2>1. picked = [k \in 1..size |-> picked[k]]
    OBVIOUS
  <2>2. IsList(picked, size)
    BY <1>1, <2>1 DEF IsList
  <2> HIDE DEF picked, size
  <2> QED BY <2>2, ListOf
<1>4. DataOf(picked) = [k \in 1..size |-> parts[Nth(places, k)].data]
  <2>1. DataOf(picked) = [k \in 1..size |-> picked[k].data]
    BY <1>3 DEF DataOf
  <2> QED BY <2>1
<1> QED BY <1>1, <1>2, <1>3, <1>4 DEF ListedParts, ListedData

\* A part of data behind others, or not, changes none of their kinds.
NoData(body, c) == \A k \in 1..c : body[k].kind # "data"
InFront(body, c, kind) == {k \in 1..c : body[k].kind = kind}

LEMMA DataBehind ==
    ASSUME NEW c, NEW body, IsList(body, c), NoData(body, c),
           NEW part, part.kind = "data", NEW back, back = body \/ back = Append(body, part)
    PROVE  /\ \A kind \in {"text", "image"} : PlacesOf(back, {kind}) = InFront(body, c, kind)
           /\ \A k \in 1..c : back[k] = body[k]
           /\ OfKind(back, "data") = IF back = body THEN <<>> ELSE <<part>>
<1>list. c \in Nat /\ \A k \in 1..c : body[k].kind # "data"
  BY DEF IsList, NoData
<1> DEFINE S == {body[k] : k \in 1..c} \cup {part}
<1>1. body \in Seq(S) /\ Len(body) = c
  <2>1. body \in Seq({body[k] : k \in 1..c}) /\ Len(body) = c
    BY ListOf
  <2> QED BY <2>1
<1>2. /\ Len(Append(body, part)) = c + 1 /\ Append(body, part)[c + 1] = part
      /\ \A k \in 1..c : Append(body, part)[k] = body[k]
  <2>1. part \in S
    OBVIOUS
  <2> HIDE DEF S
  <2> QED BY <1>1, <2>1, AppendProperties
<1> HIDE DEF S
<1>3. \A k \in 1..c : back[k] = body[k]
  BY <1>2
<1>4. CASE back = body
  <2>1. \A kind : PlacesOf(back, {kind}) = InFront(body, c, kind)
    BY <1>1, <1>4 DEF PlacesOf, InFront
  <2>2. PlacesOf(back, {"data"}) = {}
    BY <1>list, <2>1 DEF InFront
  <2> DEFINE none == [k \in 1..0 |-> back[Nth({}, k)]]
  <2>3. OfKind(back, "data") = none
    <3>1. UpTo(c, {}) /\ Cardinality({}) = 0
      BY <1>list, FS_EmptySet DEF UpTo
    <3>2. Picked(back, {}) = [k \in 1..Cardinality({}) |-> back[Nth({}, k)]]
      BY <3>1, PickedIs DEF ListedParts
    <3> QED BY <2>2, <3>1, <3>2 DEF OfKind
  <2>4. OfKind(back, "data") = <<>>
    <3>1. IsList(none, 0)
      BY DEF IsList
    <3> HIDE DEF none
    <3>2. none = <<>>
      BY <3>1, ShortLists
    <3> QED BY <2>3, <3>2
  <2> QED BY <1>3, <1>4, <2>1, <2>4
<1>5. CASE back = Append(body, part) /\ back # body
  <2> DEFINE last == c + 1
             own == {last}
  <2>1. /\ Len(back) = last /\ last \in Nat /\ back[last] = part
        /\ \A k : k \in 1..last <=> k \in 1..c \/ k = last
    BY <1>list, <1>2, <1>5
  <2>2. last \notin 1..c
    BY <1>list
  <2>3. \A kind, i : i \in PlacesOf(back, {kind}) <=> i \in 1..last /\ back[i].kind = kind
    BY <2>1 DEF PlacesOf
  <2> HIDE DEF last
  <2>4. \A kind \in {"text", "image"} : PlacesOf(back, {kind}) = InFront(body, c, kind)
    <3> SUFFICES ASSUME NEW kind \in {"text", "image"}
                 PROVE  PlacesOf(back, {kind}) = InFront(body, c, kind)
      OBVIOUS
    <3>1. \A i : i \in PlacesOf(back, {kind}) <=> i \in 1..c /\ body[i].kind = kind
      BY <1>3, <2>1, <2>2, <2>3
    <3> QED BY <3>1 DEF InFront
  <2>5. PlacesOf(back, {"data"}) = own
    <3>1. \A i \in 1..c : back[i].kind # "data"
      BY <1>3, <1>list
    <3>2. last \in PlacesOf(back, {"data"})
      BY <2>1, <2>3
    <3>3. \A i \in PlacesOf(back, {"data"}) : i = last
      BY <2>1, <2>3, <3>1
    <3> QED BY <3>2, <3>3
  <2>6. Cardinality(own) = 1 /\ UpTo(last, own)
    <3>1. last \in 1..last
      BY <2>1
    <3> QED BY <3>1, <2>1, FS_Singleton DEF UpTo
  <2>7. \A i \in own : i = last
    OBVIOUS
  <2> HIDE DEF own
  <2>8. Nth(own, 1) = last
    <3>1. \A k \in 1..Cardinality(own) : Nth(own, k) \in own
      BY <2>6, NthInOrder
    <3> QED BY <2>6, <2>7, <3>1
  <2> DEFINE one == [k \in 1..1 |-> back[Nth(own, k)]]
  <2>9. OfKind(back, "data") = one
    <3>1. Picked(back, own) = [k \in 1..Cardinality(own) |-> back[Nth(own, k)]]
      BY <2>6, PickedIs DEF ListedParts
    <3> QED BY <2>5, <2>6, <3>1 DEF OfKind
  <2>10. OfKind(back, "data") = <<part>>
    <3>1. IsList(one, 1) /\ one[1] = part
      BY <2>1, <2>8 DEF IsList
    <3> HIDE DEF one
    <3>2. one = <<part>>
      BY <3>1, ShortLists
    <3> QED BY <2>9, <3>2
  <2> HIDE DEF own, last
  <2>11. OfKind(back, "data") = IF back = body THEN <<>> ELSE <<part>>
    BY <1>5, <2>10, Zenon
  <2> QED BY <1>3, <2>4, <2>11
<1>6. /\ \A kind \in {"text", "image"} : PlacesOf(back, {kind}) = InFront(body, c, kind)
      /\ OfKind(back, "data") = IF back = body THEN <<>> ELSE <<part>>
  BY <1>4, <1>5
<1> QED BY <1>3, <1>6

\* What MessageSurvives says of one message.
Survives(message) ==
    LET there == ToGraph(message)
        back == FromGraph(there)
        texts == DataOf(OfKind(message, "text"))
        data == DataOf(OfKind(message, "data"))
    IN  /\ DataOf(OfKind(back, "image")) = DataOf(OfKind(message, "image"))
        /\ IF there.content.blocks
           THEN /\ Len(there.content.items) = Len(message) - Len(data)
                /\ DataOf(OfKind(back, "text")) =
                      DataOf(Picked(message, PlacesOf(message, {"text", "document"})))
           ELSE back[1].data = texts
        /\ OfKind(back, "data") = IF data \in {<<>>, <<"empty">>} THEN <<>>
                                   ELSE <<Part("data", data)>>

\* The kinds of parts that are shown as parts of a kind.
ShownAs(kind) == IF kind = "image" THEN {"image"} ELSE {"text", "document"}

LEMMA ConversionKeeps == ASSUME NEW message \in Seq(PartRows) PROVE Survives(message)
<1> DEFINE n == Len(message)
           keep == PlacesOf(message, {"text", "image", "document"})
           size == Cardinality(keep)
           block(part) == IF part.kind = "document" THEN Part("text", part.data) ELSE part
           data == DataOf(OfKind(message, "data"))
           texts == DataOf(OfKind(message, "text"))
           filed == \E i \in 1..n : IsFile(message[i])
           items == [k \in 1..size |-> block(message[Nth(keep, k)])]
           body == IF filed THEN items ELSE <<Part("text", texts)>>
           c == IF filed THEN size ELSE 1
           back == IF data \in {<<>>, <<"empty">>} THEN body ELSE Append(body, Part("data", data))
<1>1. n \in Nat /\ \A i \in 1..n : message[i] \in PartRows
  BY LenProperties
<1>2. \A K : /\ PlacesOf(message, K) \subseteq 1..n
             /\ \A i : i \in PlacesOf(message, K) <=> i \in 1..n /\ message[i].kind \in K
  BY DEF PlacesOf
<1>kept. UpTo(n, keep) /\ \A i \in keep : message[i].kind \in {"text", "image", "document"}
  BY <1>1, <1>2 DEF UpTo
<1>3. /\ size \in Nat /\ \A k \in 1..size : Nth(keep, k) \in keep
      /\ \A i \in keep : \E k \in 1..size : Nth(keep, k) = i
  <2> HIDE DEF keep, n
  <2> QED BY <1>kept, NthInOrder
<1>4. /\ ToGraph(message).content.blocks = filed
      /\ ToGraph(message).content.items = IF filed THEN items ELSE texts
      /\ ToGraph(message).a2aData = data
  <2>1. /\ Picked(message, keep) = [k \in 1..size |-> message[Nth(keep, k)]]
        /\ Len(Picked(message, keep)) = size
    <3> HIDE DEF keep, n
    <3> QED BY <1>1, <1>kept, PickedIs DEF ListedParts
  <2> DEFINE shownParts == Picked(message, PlacesOf(message, {"text", "image", "document"}))
  <2>2. [k \in 1..Len(shownParts) |-> block(shownParts[k])] = items
    <3>1. shownParts = Picked(message, keep)
      OBVIOUS
    <3> HIDE DEF shownParts
    <3> QED BY <2>1, <3>1
  <2>3. Content(message) = IF filed THEN [blocks |-> TRUE, items |-> [k \in 1..Len(shownParts) |-> block(shownParts[k])]]
                           ELSE [blocks |-> FALSE, items |-> texts]
    BY DEF Content
  <2> HIDE DEF shownParts, items, filed, texts, data
  <2>4. Content(message) = [blocks |-> filed, items |-> IF filed THEN items ELSE texts]
    <3>1. filed \in BOOLEAN
      BY DEF filed
    <3> QED BY <2>2, <2>3, <3>1
  <2>5. ToGraph(message) = [content |-> Content(message), a2aData |-> data]
    BY DEF ToGraph, data
  <2> QED BY <2>4, <2>5
<1>5. FromGraph(ToGraph(message)) = back
  <2> HIDE DEF items, filed, texts, data
  <2> QED BY <1>4 DEF FromGraph
<1>6. IsList(body, c) /\ NoData(body, c)
  <2>1. CASE filed
    <3>1. \A k \in 1..size : message[Nth(keep, k)].kind # "data"
      BY <1>3, <1>kept
    <3>2. \A k \in 1..size : items[k].kind # "data"
      BY <3>1 DEF Part
    <3>3. items = [k \in 1..size |-> items[k]]
      OBVIOUS
    <3> HIDE DEF items, filed, size
    <3> QED BY <1>3, <2>1, <3>2, <3>3 DEF IsList, NoData
  <2>2. CASE ~filed
    <3> HIDE DEF items, filed, size, texts
    <3> QED BY <2>2 DEF Part, IsList, NoData
  <2> QED BY <2>1, <2>2
<1>7. /\ \A kind \in {"text", "image"} :
            PlacesOf(back, {kind}) = InFront(body, c, kind)
        /\ \A k \in 1..c : back[k] = body[k]
      /\ OfKind(back, "data") = IF back = body THEN <<>> ELSE <<Part("data", data)>>
  <2> DEFINE part == Part("data", data)
  <2>1. part.kind = "data" /\ (back = body \/ back = Append(body, part))
    <3> HIDE DEF body, data
    <3> QED BY DEF Part
  <2> HIDE DEF body, back, part, c
  <2>2. /\ \A kind \in {"text", "image"} :
            PlacesOf(back, {kind}) = InFront(body, c, kind)
        /\ \A k \in 1..c : back[k] = body[k]
        /\ OfKind(back, "data") = IF back = body THEN <<>> ELSE <<part>>
    BY <1>6, <2>1, DataBehind
  <2> QED BY <2>2 DEF part
<1>8. OfKind(back, "data") = IF data \in {<<>>, <<"empty">>} THEN <<>> ELSE <<Part("data", data)>>
  <2>1. Append(body, Part("data", data)) # body
    <3> DEFINE S == {body[k] : k \in 1..c} \cup {Part("data", data)}
    <3> HIDE DEF body, c, data
    <3>1. body \in Seq({body[k] : k \in 1..c})
      BY <1>6, ListOf
    <3>2. body \in Seq(S) /\ Part("data", data) \in S
      BY <3>1
    <3> HIDE DEF S
    <3>3. Len(Append(body, Part("data", data))) = Len(body) + 1 /\ Len(body) \in Nat
      BY <3>2, AppendProperties, LenProperties
    <3> QED BY <3>3
  <2> HIDE DEF body, data
  <2> QED BY <1>7, <2>1
\* With files: what is of a kind in the answer is, in its order, what was of the kinds
\* that are shown as this one.
<1>9. ASSUME filed, NEW kind \in {"image", "text"}
      PROVE  DataOf(OfKind(back, kind)) = DataOf(Picked(message, PlacesOf(message, ShownAs(kind))))
  <2> DEFINE K == ShownAs(kind)
  <2>kinds. \/ kind = "image" /\ K = {"image"}
            \/ kind = "text" /\ K = {"text", "document"}
    BY <1>9 DEF ShownAs
  <2> DEFINE again == {k \in 1..size : items[k].kind = kind}
  <2>1. PlacesOf(back, {kind}) = again /\ \A k \in 1..size : back[k] = items[k]
    <3>1. kind \in {"text", "image"}
      BY <1>9
    <3>2. PlacesOf(back, {kind}) = InFront(items, size, kind) /\ \A k \in 1..size : back[k] = items[k]
      <4> HIDE DEF back, items, size, filed
      <4> QED BY <1>7, <1>9, <3>1
    <3> QED BY <3>2 DEF InFront
  <2>2. \A i \in keep : block(message[i]).kind = kind <=> message[i].kind \in K
    BY <2>kinds DEF Part
  <2>3. \A i \in keep : block(message[i]).data = message[i].data
    BY DEF Part
  <2>4. Those(keep, again) = PlacesOf(message, K)
    <3>1. PlacesOf(message, K) \subseteq keep
      BY <1>2, <2>kinds
    <3>2. \A k \in 1..size : items[k] = block(message[Nth(keep, k)])
      OBVIOUS
    <3>3. \A k : k \in again <=> k \in 1..size /\ message[Nth(keep, k)].kind \in K
      <4>1. \A k : k \in again <=> k \in 1..size /\ items[k].kind = kind
        OBVIOUS
      <4> HIDE DEF items, size, keep, block, again
      <4> QED BY <1>3, <2>2, <3>2, <4>1
    <3>4. \A i : i \in Those(keep, again) <=> i \in keep /\ message[i].kind \in K
      <4>1. \A i : i \in Those(keep, again) <=> \E k \in again : i = Nth(keep, k)
        BY DEF Those
      <4> HIDE DEF size, keep, again
      <4> QED BY <1>3, <3>3, <4>1
    <3>5. \A i : i \in PlacesOf(message, K) <=> i \in keep /\ message[i].kind \in K
      <4>1. \A i \in keep : i \in 1..n
        BY <1>2
      <4> HIDE DEF keep, n
      <4> QED BY <1>2, <3>1, <4>1
    <3> HIDE DEF again, keep
    <3> QED BY <3>4, <3>5, Zenon
  <2>5. /\ Cardinality(PlacesOf(message, K)) = Cardinality(again)
        /\ \A x \in 1..Cardinality(again) : Nth(PlacesOf(message, K), x) = Nth(keep, Nth(again, x))
    <3>1. UpTo(size, again)
      BY <1>3 DEF UpTo
    <3> HIDE DEF again, keep, n
    <3> QED BY <1>kept, <2>4, <3>1, PickedTwice
  <2>6. /\ Cardinality(again) \in Nat
        /\ \A x \in 1..Cardinality(again) : Nth(again, x) \in again
    <3>1. UpTo(size, again)
      BY <1>3 DEF UpTo
    <3> HIDE DEF again, size
    <3> QED BY <3>1, NthInOrder
  <2>7. DataOf(OfKind(back, kind)) = ListedData(back, again)
    <3>1. UpTo(size, again)
      BY <1>3 DEF UpTo
    <3> HIDE DEF again, back, size
    <3> QED BY <2>1, <3>1, PickedIs DEF OfKind
  <2>8. DataOf(Picked(message, PlacesOf(message, K)))
          = ListedData(message, PlacesOf(message, K))
    <3>1. UpTo(n, PlacesOf(message, K))
      BY <1>1, <1>2 DEF UpTo
    <3> HIDE DEF n
    <3> QED BY <3>1, PickedIs
  <2>9. ASSUME NEW x \in 1..Cardinality(again)
        PROVE  back[Nth(again, x)].data = message[Nth(PlacesOf(message, K), x)].data
    <3>1. Nth(again, x) \in 1..size
      BY <2>6
    <3>2. back[Nth(again, x)] = block(message[Nth(keep, Nth(again, x))]) /\ Nth(keep, Nth(again, x)) \in keep
      <4>1. \A k \in 1..size : items[k] = block(message[Nth(keep, k)])
        OBVIOUS
      <4> HIDE DEF again, items, back, keep, size, block
      <4> QED BY <1>3, <2>1, <3>1, <4>1
    <3> HIDE DEF again, back, keep, block
    <3> QED BY <2>3, <2>5, <3>2
  <2> HIDE DEF again, back
  <2> QED BY <2>5, <2>7, <2>8, <2>9 DEF ListedData
<1>10. ASSUME filed PROVE Len(items) = n - Len(data)
  <2>1. Len(items) = size
    <3>1. items = [k \in 1..size |-> items[k]]
      OBVIOUS
    <3> HIDE DEF items, size
    <3>2. IsList(items, size)
      BY <1>3, <3>1 DEF IsList
    <3> QED BY <3>2, ListOf
  <2> DEFINE rest == PlacesOf(message, {"data"})
  <2>2. Len(data) = Cardinality(rest) /\ Cardinality(rest) \in Nat
    <3>1. UpTo(n, rest) /\ OfKind(message, "data") = Picked(message, rest)
      BY <1>1, <1>2 DEF OfKind, UpTo
    <3> HIDE DEF rest, n
    <3>2. /\ Cardinality(rest) \in Nat
          /\ DataOf(Picked(message, rest)) = ListedData(message, rest)
      BY <3>1, PickedIs
    <3>3. data = [k \in 1..Cardinality(rest) |-> data[k]]
      BY <3>1, <3>2 DEF ListedData
    <3> HIDE DEF data
    <3>4. IsList(data, Cardinality(rest))
      BY <3>2, <3>3 DEF IsList
    <3> QED BY <3>2, <3>4, ListOf
  <2>3. keep \cup rest = 1..n /\ keep \cap rest = {}
    <3>1. \A i \in 1..n : message[i].kind \in {"text", "image", "document", "data"}
      BY <1>1 DEF PartRows
    <3>2. \A i : i \in keep <=> i \in 1..n /\ message[i].kind \in {"text", "image", "document"}
      BY <1>2
    <3>3. \A i : i \in rest <=> i \in 1..n /\ message[i].kind = "data"
      BY <1>2
    <3> HIDE DEF keep, rest, n
    <3>4. \A i : i \in 1..n <=> i \in keep \/ i \in rest
      BY <3>1, <3>2, <3>3
    <3>5. \A i : ~(i \in keep /\ i \in rest)
      BY <3>2, <3>3
    <3> QED BY <3>4, <3>5, Zenon
  <2>4. IsFiniteSet(keep) /\ IsFiniteSet(rest) /\ Cardinality(1..n) = n
    <3>0. n \in Nat
      BY <1>1
    <3>1. IsFiniteSet(1..n) /\ Cardinality(1..n) = n
      <4> HIDE DEF n
      <4> QED BY <3>0, FS_Interval
    <3>2. keep \in SUBSET (1..n) /\ rest \in SUBSET (1..n)
      BY <1>2
    <3> HIDE DEF keep, rest, n
    <3> QED BY <3>1, <3>2, FS_Subset
  <2>5. n = size + Cardinality(rest)
    <3> HIDE DEF keep, rest
    <3>1. Cardinality(keep \cup rest) = size + Cardinality(rest) - Cardinality({})
      BY <2>3, <2>4, FS_Union DEF size
    <3>2. Cardinality({}) = 0
      BY FS_EmptySet
    <3>3. Cardinality(keep \cup rest) = Cardinality(1..n)
      BY <2>3, Zenon
    <3> HIDE DEF size, n
    <3> QED BY <1>3, <2>2, <2>4, <3>1, <3>2, <3>3
  <2> HIDE DEF items, size, rest, data, n
  <2> QED BY <1>1, <1>3, <2>1, <2>2, <2>5
<1>11. ASSUME ~filed
       PROVE  /\ DataOf(OfKind(back, "image")) = DataOf(OfKind(message, "image"))
              /\ back[1].data = texts
  <2>1. c = 1 /\ body[1] = Part("text", texts)
    BY <1>11
  <2>2. PlacesOf(back, {"image"}) = {}
    <3>1. PlacesOf(back, {"image"}) = InFront(body, 1, "image")
      <4> HIDE DEF c, body, back
      <4> QED BY <1>7, <2>1
    <3>2. body[1].kind = "text"
      BY <2>1 DEF Part
    <3> HIDE DEF body, back
    <3>3. InFront(body, 1, "image") = {}
      BY <3>2 DEF InFront
    <3> QED BY <3>1, <3>3
  <2>3. PlacesOf(message, {"image"}) = {}
    BY <1>11 DEF PlacesOf, IsFile
  <2>4. back[1].data = texts
    <3> HIDE DEF c, body, back, texts
    <3> QED BY <1>7, <2>1 DEF Part
  <2>5. DataOf(OfKind(back, "image")) = <<>> /\ DataOf(OfKind(message, "image")) = <<>>
    <3>1. UpTo(0, {}) /\ Cardinality({}) = 0
      BY FS_EmptySet DEF UpTo
    <3>2. \A parts : DataOf(Picked(parts, {})) = ListedData(parts, {})
      BY <3>1, PickedIs
    <3>3. \A parts : DataOf(Picked(parts, {})) = <<>>
      BY <3>1, <3>2 DEF ListedData
    <3> HIDE DEF back
    <3> QED BY <2>2, <2>3, <3>3 DEF OfKind
  <2> QED BY <2>4, <2>5
<1>image. filed => DataOf(OfKind(back, "image")) = DataOf(Picked(message, PlacesOf(message, {"image"})))
  <2> HIDE DEF back, filed
  <2> QED BY <1>9 DEF ShownAs
<1>12. DataOf(OfKind(back, "image")) = DataOf(OfKind(message, "image"))
  <2>1. CASE filed
    <3> HIDE DEF back, filed
    <3>1. DataOf(OfKind(back, "image")) = DataOf(Picked(message, PlacesOf(message, {"image"})))
      BY <1>image, <2>1
    <3>2. OfKind(message, "image") = Picked(message, PlacesOf(message, {"image"}))
      BY DEF OfKind
    <3> QED BY <3>1, <3>2
  <2> QED BY <1>11, <2>1
<1>13. filed => DataOf(OfKind(back, "text")) = DataOf(Picked(message, PlacesOf(message, {"text", "document"})))
  <2> HIDE DEF back, filed
  <2> QED BY <1>9 DEF ShownAs
<1> HIDE DEF back, filed, items, n, texts
<1>14. /\ DataOf(OfKind(FromGraph(ToGraph(message)), "image")) = DataOf(OfKind(message, "image"))
       /\ IF ToGraph(message).content.blocks
          THEN /\ Len(ToGraph(message).content.items) = n - Len(data)
               /\ DataOf(OfKind(FromGraph(ToGraph(message)), "text")) =
                     DataOf(Picked(message, PlacesOf(message, {"text", "document"})))
          ELSE FromGraph(ToGraph(message))[1].data = texts
       /\ OfKind(FromGraph(ToGraph(message)), "data") =
            IF data \in {<<>>, <<"empty">>} THEN <<>> ELSE <<Part("data", data)>>
  <2> HIDE DEF data
  <2> QED BY <1>4, <1>5, <1>8, <1>10, <1>11, <1>12, <1>13
<1> QED BY <1>14 DEF Survives, n, texts

\* What the graph was given is the message, converted.
GivenIsSent == \A t \in A2ATasks : given[t] = ToGraph(sent[t]) /\ sent[t] \in Messages \cup {<<>>}
GivenTypes == sent = [t \in A2ATasks |-> sent[t]] /\ given = [t \in A2ATasks |-> given[t]]

\* For any messages: what the graph was given of one, made a message again, has all
\* its images, texts, documents and data in their order (a2a/converter.py).
THEOREM MessagesSurvive == A2ASpec => []MessageSurvives
<1>1. InitA2A => GivenIsSent /\ GivenTypes
  BY DEF InitA2A, GivenIsSent, GivenTypes, NotGiven
<1>2. GivenIsSent /\ GivenTypes /\ [NextA2A]_a2aVars => GivenIsSent' /\ GivenTypes'
  <2> SUFFICES ASSUME GivenIsSent, GivenTypes, [NextA2A]_a2aVars PROVE GivenIsSent' /\ GivenTypes'
    OBVIOUS
  <2>1. ASSUME NEW t \in A2ATasks, Execute(t) PROVE GivenIsSent' /\ GivenTypes'
    <3>1. PICK message \in Messages :
            /\ sent' = [sent EXCEPT ![t] = message]
            /\ given' = [given EXCEPT ![t] = ToGraph(message)]
      BY <2>1 DEF Execute
    <3> QED BY <3>1 DEF GivenIsSent, GivenTypes
  <2>2. CASE UNCHANGED <<sent, given>>
    BY <2>2 DEF GivenIsSent, GivenTypes
  <2>3. ASSUME NEW t \in A2ATasks,
               Delta(t) \/ FullMessage(t) \/ Interrupt(t) \/ AddArtifact(t) \/ Complete(t)
               \/ Fail(t) \/ Cancel(t) \/ StopExecution(t)
        PROVE  UNCHANGED <<sent, given>>
    BY <2>3 DEF Delta, FullMessage, Interrupt, AddArtifact, Complete, Fail, Cancel, StopExecution
  <2>4. CASE NextA2A
    BY <2>1, <2>2, <2>3, <2>4 DEF NextA2A
  <2>5. CASE UNCHANGED a2aVars
    BY <2>2, <2>5 DEF a2aVars
  <2> QED BY <2>4, <2>5
<1>3. GivenIsSent => MessageSurvives
  <2> SUFFICES ASSUME GivenIsSent, NEW t \in A2ATasks PROVE Survives(sent[t]) /\ given[t] = ToGraph(sent[t])
    BY DEF MessageSurvives, Survives
  <2>1. sent[t] \in Seq(PartRows)
    <3>1. <<>> \in Seq(PartRows)
      OBVIOUS
    <3> QED BY <3>1, A2AAssumption DEF GivenIsSent, PartRows
  <2> QED BY <2>1, ConversionKeeps DEF GivenIsSent
<1> QED BY <1>1, <1>2, <1>3, PTL DEF A2ASpec
=============================================================================
