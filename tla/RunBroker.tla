------------------------------ MODULE RunBroker ------------------------------
(***************************************************************************)
(* The event queue of one run (services/broker.py, class RunBroker) and    *)
(* the callers that use it.                                                *)
(*                                                                         *)
(*   - Task      the background task execute_run_async: it puts the events *)
(*               of the graph one by one and ends by completing (the queue *)
(*               is marked finished without an "end" event), by failing or *)
(*               by being cancelled (an "end" event is put);               *)
(*   - Handlers  requests that cancel or interrupt the run: each puts one  *)
(*               "end" event;                                              *)
(*   - Consumers SSE streams that iterate over the queue with aiter().     *)
(*                                                                         *)
(* asyncio runs one callback at a time, so the code between two awaits is  *)
(* one step.  put() suspends only when the queue is full; it has then      *)
(* already looked at the finished flag and does not look again.            *)
(***************************************************************************)
EXTENDS Naturals, FiniteSets, SequencesExt

CONSTANTS
  Task,        \* the task that executes the run
  Handlers,    \* requests that cancel or interrupt it
  Consumers,   \* SSE streams
  Patient,     \* those whose client, once it reads, stays connected
  MaxSize,     \* BROKER_QUEUE_MAXSIZE
  Policy,      \* BROKER_BACKPRESSURE_POLICY
  MaxEvents    \* bound on the events the graph emits

ASSUME BrokerAssumption ==
  /\ Task \notin Handlers
  /\ Patient \subseteq Consumers
  /\ MaxSize \in Nat \ {0}
  /\ MaxEvents \in Nat
  /\ Policy \in {"block", "drop_oldest"}

Producers == {Task} \cup Handlers

Event(n) == [type |-> "event", seq |-> n]
End      == [type |-> "end",   seq |-> 0]
NoItem   == [type |-> "none",  seq |-> 0]
Events   == {Event(n) : n \in 1..MaxEvents}
Item     == Events \cup {End}

VARIABLES
  registered,  \* the broker exists in BrokerManager._brokers
  queue,       \* RunBroker.queue
  finished,    \* RunBroker.finished
  waiting,     \* what each producer suspended in `await queue.put` holds
  phase,       \* "open", "ending" (an end event is being put) or "done"
  published,   \* number of events the task has called put() with
  reader,      \* state of each consumer's aiter()
  got,         \* events each consumer took from the queue (history)
  lastTaken,   \* largest event number taken so far (history)
  fromStart,   \* consumers that attached before the first event (history)
  dropped,     \* events removed by the drop-oldest policy (history)
  refused      \* events refused after the end or given up (history)

producerVars == <<phase, published>>
taken        == <<got, lastTaken>>
readerVars   == <<reader, taken, fromStart>>
lost         == <<dropped, refused>>
vars == <<registered, queue, finished, waiting, producerVars, readerVars, lost>>

-----------------------------------------------------------------------------
(* put() and the iteration.                                                *)

IsTerminal(item) == item.type = "end"
IsFull           == Len(queue) >= MaxSize
Suspended(p)     == waiting[p] # NoItem

\* Mutant of Droppable: the newest event.
DroppableNewest(i) ==
  /\ i \in 1..Len(queue)
  /\ ~IsTerminal(queue[i])
  /\ \A j \in (i + 1)..Len(queue) : IsTerminal(queue[j])

\* The oldest item that is not terminal, the one drop-oldest removes.
Droppable(i) ==
  /\ i \in 1..Len(queue)
  /\ ~IsTerminal(queue[i])
  /\ \A j \in 1..(i - 1) : IsTerminal(queue[j])

\* Mutant of FinishIfEnd: put() leaves the flag to cleanup_broker.
FinishNever(item) == UNCHANGED finished

\* A put of an end event marks the broker finished when it returns.
FinishIfEnd(item) == finished' = (finished \/ IsTerminal(item))

\* put() by producer p: the disjuncts are its four ways through.
Put(p, item) ==
  /\ registered' = TRUE
  /\ \/ /\ finished
        /\ refused' = refused \cup {item}
        /\ UNCHANGED <<queue, finished, waiting, dropped>>
     \/ /\ ~finished /\ ~IsFull
        /\ queue' = Append(queue, item)
        /\ FinishIfEnd(item)
        /\ UNCHANGED <<waiting, dropped, refused>>
     \/ /\ ~finished /\ IsFull /\ Policy = "drop_oldest"
        /\ \E i \in 1..Len(queue) :
             /\ Droppable(i)
             /\ dropped' = dropped \cup {queue[i]}
             /\ queue' = Append(RemoveAt(queue, i), item)
        /\ FinishIfEnd(item)
        /\ UNCHANGED <<waiting, refused>>
     \/ /\ ~finished /\ IsFull
        /\ Policy = "drop_oldest" => \A i \in 1..Len(queue) : ~Droppable(i)
        /\ waiting' = [waiting EXCEPT ![p] = item]
        /\ UNCHANGED <<queue, finished, dropped, refused>>

\* Mutant of Resume: the woken put stays registered as waiting.
ResumeTwice(p) ==
  /\ Suspended(p)
  /\ ~IsFull
  /\ queue' = Append(queue, waiting[p])
  /\ FinishIfEnd(waiting[p])
  /\ UNCHANGED <<registered, waiting, producerVars, readerVars, lost>>

\* Mutant of CancelSuspendedTask: the task goes on with the next event.
CancelSuspendedTaskGoesOn ==
  /\ Suspended(Task)
  /\ refused' = refused \cup {waiting[Task]}
  /\ waiting' = [waiting EXCEPT ![Task] = NoItem]
  /\ UNCHANGED <<registered, queue, finished, producerVars, readerVars, dropped>>

\* A suspended put proceeds once there is room; a producer that was woken may
\* be overtaken by another, so any of those suspended may be the next.
Resume(p) ==
  /\ Suspended(p)
  /\ ~IsFull
  /\ queue' = Append(queue, waiting[p])
  /\ FinishIfEnd(waiting[p])
  /\ waiting' = [waiting EXCEPT ![p] = NoItem]
  /\ phase' = [phase EXCEPT ![p] = IF @ = "ending" THEN "done" ELSE @]
  /\ UNCHANGED <<registered, published, readerVars, lost>>

\* Mutant of Take: the newest item first.
TakeNewest(c) ==
  /\ reader[c] = "reading"
  /\ queue # <<>>
  /\ queue' = Front(queue)
  /\ reader' = [reader EXCEPT ![c] =
                  IF IsTerminal(Last(queue)) THEN "done" ELSE @]
  /\ got' = [got EXCEPT ![c] =
               IF IsTerminal(Last(queue)) THEN @ ELSE @ \cup {Last(queue).seq}]
  /\ lastTaken' = IF IsTerminal(Last(queue)) THEN lastTaken ELSE Last(queue).seq
  /\ UNCHANGED <<registered, finished, waiting, producerVars, fromStart, lost>>

\* aiter(): an item arrived within the poll interval; "end" ends the iteration.
Take(c) ==
  /\ reader[c] = "reading"
  /\ queue # <<>>
  /\ queue' = Tail(queue)
  /\ reader' = [reader EXCEPT ![c] =
                  IF IsTerminal(Head(queue)) THEN "done" ELSE @]
  /\ got' = [got EXCEPT ![c] =
               IF IsTerminal(Head(queue)) THEN @ ELSE @ \cup {Head(queue).seq}]
  /\ lastTaken' = IF IsTerminal(Head(queue)) THEN lastTaken ELSE Head(queue).seq
  /\ UNCHANGED <<registered, finished, waiting, producerVars, fromStart, lost>>

\* Mutant of PollTimeout: the timeout only continues.
PollTimeoutContinues(c) ==
  /\ reader[c] = "reading"
  /\ finished
  /\ queue = <<>>
  /\ UNCHANGED vars

\* aiter(): the poll timed out on a finished and empty queue.
PollTimeout(c) ==
  /\ reader[c] = "reading"
  /\ finished
  /\ queue = <<>>
  /\ reader' = [reader EXCEPT ![c] = "done"]
  /\ UNCHANGED <<registered, queue, finished, waiting, producerVars, taken,
                 fromStart, lost>>

-----------------------------------------------------------------------------
(* The callers.                                                            *)

\* A stream starts to iterate; the broker is created if it does not exist.  Its
\* request found the row of the run active, or interrupted with the broker open:
\* the row is read before the replay, so the broker may have finished since.
Attach(c) ==
  /\ reader[c] = "idle"
  /\ reader' = [reader EXCEPT ![c] = "reading"]
  /\ registered' = TRUE
  /\ fromStart' = IF published = 0 THEN fromStart \cup {c} ELSE fromStart
  /\ UNCHANGED <<queue, finished, waiting, producerVars, taken, lost>>

\* A client comes when the row shows the end of the run: it is sent the end
\* event, or nothing, and takes nothing from the queue.  The task writes that
\* status when it puts no more events, a request when its signal has returned.
AnswerEnd(c) ==
  /\ reader[c] = "idle"
  /\ \/ ~Suspended(Task)
     \/ phase[Task] # "open"
     \/ \E h \in Handlers : phase[h] = "done"
  /\ reader' = [reader EXCEPT ![c] = "gone"]
  /\ UNCHANGED <<registered, queue, finished, waiting, producerVars, taken,
                 fromStart, lost>>

\* The client of a stream disconnects: its iterator is closed.
Disconnect(c) ==
  /\ c \notin Patient
  /\ reader[c] = "reading"
  /\ reader' = [reader EXCEPT ![c] = "gone"]
  /\ UNCHANGED <<registered, queue, finished, waiting, producerVars, taken,
                 fromStart, lost>>

\* execute_run_async hands the next event of the graph to the broker.
PublishEvent ==
  /\ phase[Task] = "open"
  /\ ~Suspended(Task)
  /\ published < MaxEvents
  /\ published' = published + 1
  /\ Put(Task, Event(published + 1))
  /\ UNCHANGED <<phase, readerVars>>

\* The graph is exhausted: no end event, cleanup_run marks the broker
\* finished if it exists.
CompleteRun ==
  /\ phase[Task] = "open"
  /\ ~Suspended(Task)
  /\ phase' = [phase EXCEPT ![Task] = "done"]
  /\ finished' = (finished \/ registered)
  /\ UNCHANGED <<registered, queue, waiting, published, readerVars, lost>>

\* The graph raises, or the task is cancelled between two puts: the except
\* handler will put an end event.
FailRun ==
  /\ phase[Task] = "open"
  /\ ~Suspended(Task)
  /\ phase' = [phase EXCEPT ![Task] = "ending"]
  /\ UNCHANGED <<registered, queue, finished, waiting, published, readerVars, lost>>

\* task.cancel() reaches the task inside a suspended put: the item is given
\* up; if it was the end event, only the finally block is left to run.
CancelSuspendedTask ==
  /\ Suspended(Task)
  /\ refused' = refused \cup {waiting[Task]}
  /\ waiting' = [waiting EXCEPT ![Task] = NoItem]
  /\ phase' = [phase EXCEPT ![Task] = IF @ = "open" THEN "ending" ELSE "done"]
  /\ finished' = (finished \/ phase[Task] = "ending")
  /\ UNCHANGED <<registered, queue, published, readerVars, dropped>>

\* The except handler does not reach its signal: a second task.cancel() or a
\* database error while it updates the status.  The finally block still runs.
SkipTaskEnd ==
  /\ phase[Task] = "ending"
  /\ ~Suspended(Task)
  /\ phase' = [phase EXCEPT ![Task] = "done"]
  /\ finished' = (finished \/ registered)
  /\ UNCHANGED <<registered, queue, waiting, published, readerVars, lost>>

\* signal_run_cancelled / signal_run_error of the task: put the end event and
\* mark the broker finished.
PutTaskEnd ==
  /\ phase[Task] = "ending"
  /\ ~Suspended(Task)
  /\ Put(Task, End)
  /\ phase' = [phase EXCEPT ![Task] =
                 IF waiting'[Task] = NoItem THEN "done" ELSE @]
  /\ UNCHANGED <<published, readerVars>>

\* cancel_run / interrupt_run of a request handler: the same signal.
Signal(h) ==
  /\ phase[h] = "open"
  /\ Put(h, End)
  /\ phase' = [phase EXCEPT ![h] =
                 IF waiting'[h] = NoItem THEN "done" ELSE "ending"]
  /\ UNCHANGED <<published, readerVars>>

-----------------------------------------------------------------------------
Init ==
  /\ registered = FALSE
  /\ queue = <<>>
  /\ finished = FALSE
  /\ waiting = [p \in Producers |-> NoItem]
  /\ phase = [p \in Producers |-> "open"]
  /\ published = 0
  /\ reader = [c \in Consumers |-> "idle"]
  /\ got = [c \in Consumers |-> {}]
  /\ lastTaken = 0
  /\ fromStart = {}
  /\ dropped = {}
  /\ refused = {}

Next ==
  \/ PublishEvent
  \/ CompleteRun
  \/ FailRun
  \/ CancelSuspendedTask
  \/ SkipTaskEnd
  \/ PutTaskEnd
  \/ \E h \in Handlers : Signal(h)
  \/ \E p \in Producers : Resume(p)
  \/ \E c \in Consumers : Attach(c) \/ AnswerEnd(c) \/ Take(c)
                         \/ PollTimeout(c) \/ Disconnect(c)

Spec == Init /\ [][Next]_vars

\* The event loop runs what is ready: woken puts and iterators proceed.  No
\* client has to come.
Fairness ==
  /\ \A p \in Producers : WF_vars(Resume(p))
  /\ \A c \in Consumers : WF_vars(Take(c)) /\ WF_vars(PollTimeout(c))

FairSpec == Spec /\ Fairness

-----------------------------------------------------------------------------
(* Properties.                                                             *)

\* The types of the variables; the queue never exceeds its maximum size
\* (asyncio.Queue(maxsize) at RunBroker.__init__).
TypeOK ==
  /\ registered \in BOOLEAN
  /\ queue \in Seq(Item)
  /\ Len(queue) <= MaxSize
  /\ finished \in BOOLEAN
  /\ waiting \in [Producers -> Item \cup {NoItem}]
  /\ phase \in [Producers -> {"open", "ending", "done"}]
  /\ published \in 0..MaxEvents
  /\ reader \in [Consumers -> {"idle", "reading", "done", "gone"}]
  /\ got \in [Consumers -> SUBSET (1..MaxEvents)]
  /\ lastTaken \in 0..MaxEvents
  /\ fromStart \subseteq Consumers
  /\ dropped \subseteq Item
  /\ refused \subseteq Item

Queued(n)   == \E i \in 1..Len(queue) : queue[i] = Event(n)
Consumed(n) == \E c \in Consumers : n \in got[c]
Accepted(n) == Queued(n) \/ Consumed(n)

\* An event handed to put() is in one place only: taken by one stream,
\* queued once, held by the suspended put, dropped, or refused.  Nothing is
\* lost between the awaits of put() and nothing is sent twice.
EventFate ==
  \A n \in 1..MaxEvents :
    LET places == {<<"got", c>> : c \in {d \in Consumers : n \in got[d]}}
             \cup {<<"queue", i>> : i \in {j \in 1..Len(queue) : queue[j] = Event(n)}}
             \cup {<<"put", p>> : p \in {q \in Producers : waiting[q] = Event(n)}}
             \cup {<<"lost", X>> : X \in {Y \in {dropped, refused} : Event(n) \in Y}}
    IN  Cardinality(places) = IF n <= published THEN 1 ELSE 0

\* What has become of each event.
fateOf ==
  [n \in 1..MaxEvents |->
     IF n > published THEN "none"
     ELSE IF Consumed(n) THEN "shown"
     ELSE IF Queued(n) \/ waiting[Task] = Event(n) THEN "coming"
     ELSE IF Event(n) \in dropped THEN "dropped"
     ELSE "refused"]

\* The queue, its two policies and the puts that wait do what EventFlow promises.
Flow == INSTANCE EventFlow WITH fate <- fateOf, DropOldest <- (Policy = "drop_oldest")
FlowsAsPromised == Flow!Spec

\* Streams see the events in the order the graph emitted them: the queue is
\* sorted, newer than everything taken, and older than the suspended put.
InOrder ==
  /\ \A i, j \in 1..Len(queue) :
       i < j /\ ~IsTerminal(queue[i]) /\ ~IsTerminal(queue[j])
         => queue[i].seq < queue[j].seq
  /\ \A i \in 1..Len(queue) :
       ~IsTerminal(queue[i]) =>
         /\ lastTaken < queue[i].seq
         /\ Suspended(Task) /\ ~IsTerminal(waiting[Task])
              => queue[i].seq < waiting[Task].seq

\* The broker in every state, whatever its policy.
BrokerInv == TypeOK /\ InOrder

\* With the block policy the accepted events are a prefix of those emitted:
\* no policy drop, and cancelling a suspended put leaves no hole behind it.
GaplessUnderBlock ==
  Policy = "block" =>
    /\ dropped = {}
    /\ \A n \in 1..MaxEvents : Accepted(n) => \A m \in 1..(n - 1) : Accepted(m)

\* The end event is visible only on a finished broker (put() marks it in the
\* same step that makes the event visible), so that a stream that sees it and
\* stops leaves no open broker behind.
EndFinishes ==
  (\E i \in 1..Len(queue) : IsTerminal(queue[i])) => finished

\* A stream stops by itself only when the run has ended.
StopsOnlyAtEnd == \A c \in Consumers : reader[c] = "done" => finished

\* What the block policy promises: every event in its place, no gap before one,
\* no sign of the end before the end, and streams that go on until then.
BlockLosesNothing == EventFate /\ GaplessUnderBlock /\ EndFinishes /\ StopsOnlyAtEnd

\* With drop-oldest no producer ever waits, so neither a run without streams
\* nor a cancel request can hang on the queue.
NeverSuspends ==
  Policy = "drop_oldest" => \A p \in Producers : ~Suspended(p)

\* With drop-oldest nothing is queued behind the end event, although several
\* requests and the task may all signal the end.
EndIsLast ==
  Policy = "drop_oldest" =>
    \A i \in 1..Len(queue) : IsTerminal(queue[i]) => i = Len(queue)

\* Drop-oldest keeps the newest events and never drops the end event.
DroppedAreOldest ==
  /\ End \notin dropped
  /\ \A d \in dropped, i \in 1..Len(queue) :
       ~IsTerminal(queue[i]) => d.seq < queue[i].seq

\* What is left of a full queue, without a put that waits: the newest events with
\* the end event last.
DropKeepsNewest == NeverSuspends /\ EndIsLast /\ DroppedAreOldest

\* After the broker is finished every stream ends, although a finished run
\* without end event is only noticed by the poll timeout.
StreamsStop ==
  \A c \in Consumers : (finished /\ reader[c] = "reading") ~> reader[c] # "reading"

\* A put that is suspended while a client that stays is reading completes: the
\* run and the cancel requests get through a full queue.  A stream stops at the
\* first end it takes (broker.py:171), so the ends of the other producers must
\* find room in the queue it leaves behind; a put that no stream reads for, as
\* when the first client comes after the run, waits for ever.
PutsComplete ==
  Cardinality(Producers) <= MaxSize + 1 =>
    \A p \in Producers :
      (Suspended(p) /\ \E c \in Patient : reader[c] = "reading") ~> ~Suspended(p)

\* The queue holds up neither its readers nor its writers for ever.
NobodyIsHeldUp == StreamsStop /\ PutsComplete

-----------------------------------------------------------------------------
(* What the comments say and the code does not keep.                       *)

\* broker.py:123 "an event cannot be added to a broker whose run has ended".
FinishedAcceptsNothing == [][finished => Len(queue') <= Len(queue)]_vars

\* broker.py:74 "several consumers receive the same events": streams that were
\* there before the first event and ran to the end have seen the same events.
Broadcast ==
  \A c, d \in fromStart :
    reader[c] = "done" /\ reader[d] = "done" => got[c] = got[d]
=============================================================================
