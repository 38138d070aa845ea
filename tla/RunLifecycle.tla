---------------------------- MODULE RunLifecycle ----------------------------
(***************************************************************************)
(* The life of the runs of the server (api/runs.py, api/runs_standalone.py,*)
(* the delete endpoint of api/threads.py): the rows of the tables runs and *)
(* thread, the background task execute_run_async of each run, the          *)
(* dictionary active_runs, and the requests that create, cancel, join and  *)
(* delete runs.                                                            *)
(*                                                                         *)
(* The server is one asyncio process: a step is what one coroutine does    *)
(* between two awaits, together with the effect of the awaited statement   *)
(* (each database statement commits by itself).  The event queue of a run  *)
(* is kept as its length and its finished flag: all that a run's life      *)
(* depends on is whether a put suspends (module RunBroker has the queue).  *)
(***************************************************************************)
EXTENDS Naturals, FiniteSets

CONSTANTS
  Runs, Threads,
  ThreadOf,     \* the thread a run is created on
  Requests,     \* request handlers in flight
  QueueSize,    \* BROKER_QUEUE_MAXSIZE
  Policy,       \* BROKER_BACKPRESSURE_POLICY
  Streamed,     \* runs with a stream that keeps reading their queue
  Faults,       \* database errors and server restarts happen
  NoRun, NoThread

ASSUME LifecycleAssumption ==
  /\ ThreadOf \in [Runs -> Threads]
  /\ QueueSize \in Nat \ {0}
  /\ Policy \in {"block", "drop_oldest"}
  /\ Streamed \subseteq Runs
  /\ Faults \in BOOLEAN
  /\ NoRun \notin Runs
  /\ NoThread \notin Threads

VARIABLES
  run,       \* status column of the run's row
  thread,    \* status column of the thread's row
  creator,   \* where the request that creates the run is
  resuming,  \* runs created by a resume command
  task,      \* where the run's background task is
  outcome,   \* how execute_run_async leaves its try block
  tracked,   \* keys of active_runs
  queued,    \* number of items in the run's event queue
  closed,    \* the run's broker is marked finished
  request,   \* the requests: what they do, on which run, where they are
  asked,     \* runs some request asked to cancel, interrupt or delete (history)
  broken     \* runs whose task or creation was cut short (history)

rows     == <<run, thread>>
broker   == <<queued, closed>>
creation == <<creator, resuming>>
tasks    == <<task, outcome, tracked>>
history  == <<asked, broken>>
vars     == <<rows, creation, tasks, broker, request, history>>

Active   == {"pending", "streaming", "running"}
Terminal == {"completed", "failed", "cancelled", "interrupted"}
Absent   == {"none", "deleted"}
Inserted == {"inserted", "insertedStream"}

\* A request handler before it starts, and one that works on run r.
Idle == [kind |-> "none", run |-> NoRun, thread |-> NoThread, pc |-> "idle", todo |-> {}]
At(kind, r, pc) == [Idle EXCEPT !.kind = kind, !.run = r, !.pc = pc]

RunsOf(t) == {r \in Runs : ThreadOf[r] = t}
Live(r)   == task[r] \notin {"none", "done"}

\* The task is inside the try block of execute_run_async: an exception there
\* reaches one of its except clauses.
InTry(r) ==
  \/ task[r] \in {"begin", "exec", "put"}
  \/ /\ task[r] \in {"writeRun", "writeThread"}
     /\ outcome[r] \in {"completed", "interrupted"}

-----------------------------------------------------------------------------
(* The statements the handlers share.                                      *)

\* update_run_status: UPDATE runs ... WHERE run_id, whatever the status was.
\* A row that is gone stays gone.
UpdateRun(r, status) ==
  run' = [run EXCEPT ![r] = IF @ \in Absent THEN @ ELSE status]

\* set_thread_status: the same on the table thread.
UpdateThread(t, status) ==
  thread' = [thread EXCEPT ![t] = IF @ = "absent" THEN @ ELSE status]

\* DELETE of a thread cascades to its runs.
DeleteThreadRow(t) ==
  /\ thread' = [thread EXCEPT ![t] = "absent"]
  /\ run' = [r \in Runs |->
               IF ThreadOf[r] = t /\ run[r] # "none" THEN "deleted" ELSE run[r]]

\* task.cancel(): CancelledError is raised where the task is suspended.  Before
\* its first step the task never runs; inside the try block the cancelled
\* branch follows; inside an except clause only the finally block is left; and
\* inside the flush of the finally block nothing is.
CancelTask(r) ==
  IF ~Live(r) THEN UNCHANGED <<task, outcome, broken>>
  ELSE /\ task' = [task EXCEPT ![r] =
                     IF InTry(r) THEN "writeRun"
                     ELSE IF @ \in {"created", "cleanup"} THEN "done"
                     ELSE "cleanup"]
       /\ outcome' = [outcome EXCEPT ![r] = IF InTry(r) THEN "cancelled" ELSE @]
       /\ broken' = IF InTry(r) THEN broken ELSE broken \cup {r}

\* broker.put() returns at once: the run is over, there is room, or the oldest
\* event makes room.
CanPut(r) == closed[r] \/ queued[r] < QueueSize \/ Policy = "drop_oldest"

Put(r) ==
  queued' = [queued EXCEPT ![r] =
               IF closed[r] \/ @ = QueueSize THEN @ ELSE @ + 1]

Close(r) == closed' = [closed EXCEPT ![r] = TRUE]

-----------------------------------------------------------------------------
(* create_run, create_and_stream_run, create_batch_runs.                   *)

\* A resume command is accepted on an interrupted thread only.
CheckResume(r) ==
  /\ creator[r] = "none"
  /\ thread[ThreadOf[r]] = "interrupted"
  /\ creator' = [creator EXCEPT ![r] = "checked"]
  /\ resuming' = resuming \cup {r}
  /\ UNCHANGED <<rows, tasks, broker, request, history>>

\* Any other command is not checked.
CheckCreate(r) ==
  /\ creator[r] = "none"
  /\ creator' = [creator EXCEPT ![r] = "checked"]
  /\ UNCHANGED <<rows, resuming, tasks, broker, request, history>>

SetBusy(r) ==
  /\ creator[r] = "checked"
  /\ UpdateThread(ThreadOf[r], "busy")
  /\ creator' = [creator EXCEPT ![r] = "busy"]
  /\ UNCHANGED <<run, resuming, tasks, broker, request, history>>

\* update_thread_metadata fails with 404, or the insert with a foreign key
\* error, when the thread is gone.
InsertRun(r) ==
  /\ creator[r] = "busy"
  /\ \/ /\ thread[ThreadOf[r]] # "absent"
        /\ \/ /\ run' = [run EXCEPT ![r] = "pending"]
              /\ creator' = [creator EXCEPT ![r] = "inserted"]
           \/ /\ run' = [run EXCEPT ![r] = "streaming"]
              /\ creator' = [creator EXCEPT ![r] = "insertedStream"]
     \/ /\ thread[ThreadOf[r]] = "absent"
        /\ creator' = [creator EXCEPT ![r] = "ended"]
        /\ UNCHANGED run
  /\ UNCHANGED <<thread, resuming, tasks, broker, request, history>>

\* An item of a batch: the run is inserted first, then the thread set busy.
InsertBatchRun(r) ==
  /\ creator[r] = "none"
  /\ thread[ThreadOf[r]] # "absent"
  /\ run' = [run EXCEPT ![r] = "pending"]
  /\ creator' = [creator EXCEPT ![r] = "batched"]
  /\ UNCHANGED <<thread, resuming, tasks, broker, request, history>>

SetBatchBusy(r) ==
  /\ creator[r] = "batched"
  /\ UpdateThread(ThreadOf[r], "busy")
  /\ creator' = [creator EXCEPT ![r] =
                   IF thread[ThreadOf[r]] = "absent" THEN "ended" ELSE "inserted"]
  /\ UNCHANGED <<run, resuming, tasks, broker, request, history>>

\* asyncio.create_task and active_runs[run_id] = task; create_and_stream_run
\* goes on to stream the events.
CreateTask(r) ==
  /\ creator[r] \in Inserted
  /\ creator' = [creator EXCEPT ![r] = IF @ = "inserted" THEN "ended" ELSE "streaming"]
  /\ task' = [task EXCEPT ![r] = "created"]
  /\ tracked' = tracked \cup {r}
  /\ UNCHANGED <<rows, resuming, outcome, broker, request, history>>

-----------------------------------------------------------------------------
(* execute_run_async.                                                      *)

Start(r) ==
  /\ task[r] = "created"
  /\ task' = [task EXCEPT ![r] = "begin"]
  /\ UNCHANGED <<rows, creation, outcome, tracked, broker, request, history>>

SetRunning(r) ==
  /\ task[r] = "begin"
  /\ UpdateRun(r, "running")
  /\ task' = [task EXCEPT ![r] = "exec"]
  /\ UNCHANGED <<thread, creation, outcome, tracked, broker, request, history>>

\* put_to_broker of the next event of the graph.
EmitEvent(r) ==
  /\ task[r] = "exec"
  /\ IF CanPut(r) THEN Put(r) /\ UNCHANGED task
     ELSE task' = [task EXCEPT ![r] = "put"] /\ UNCHANGED queued
  /\ UNCHANGED <<rows, creation, outcome, tracked, closed, request, history>>

\* Mutant of ResumePut: it waits for more room than it needs.
ResumePutLate(r) ==
  /\ task[r] = "put"
  /\ queued[r] + 1 < QueueSize
  /\ queued' = [queued EXCEPT ![r] = @ + 1]
  /\ task' = [task EXCEPT ![r] = "exec"]
  /\ UNCHANGED <<rows, creation, outcome, tracked, closed, request, history>>

ResumePut(r) ==
  /\ task[r] = "put"
  /\ queued[r] < QueueSize
  /\ queued' = [queued EXCEPT ![r] = @ + 1]
  /\ task' = [task EXCEPT ![r] = "exec"]
  /\ UNCHANGED <<rows, creation, outcome, tracked, closed, request, history>>

\* Mutant of EndGraph: the except clause of an error forgets the statuses.
EndGraphUnwritten(r) ==
  /\ task[r] = "exec"
  /\ \E how \in {"completed", "interrupted", "failed"} :
       /\ outcome' = [outcome EXCEPT ![r] = how]
       /\ task' = [task EXCEPT ![r] = IF how = "failed" THEN "signal" ELSE "writeRun"]
  /\ UNCHANGED <<rows, creation, tracked, broker, request, history>>

\* The graph ends, stops at an interrupt, or raises.
EndGraph(r) ==
  /\ task[r] = "exec"
  /\ \E how \in {"completed", "interrupted", "failed"} :
       outcome' = [outcome EXCEPT ![r] = how]
  /\ task' = [task EXCEPT ![r] = "writeRun"]
  /\ UNCHANGED <<rows, creation, tracked, broker, request, history>>

WriteRunStatus(r) ==
  /\ task[r] = "writeRun"
  /\ UpdateRun(r, outcome[r])
  /\ task' = [task EXCEPT ![r] = "writeThread"]
  /\ UNCHANGED <<thread, creation, outcome, tracked, broker, request, history>>

WriteThreadStatus(r) ==
  /\ task[r] = "writeThread"
  /\ UpdateThread(ThreadOf[r],
                  IF outcome[r] = "interrupted" THEN "interrupted" ELSE "idle")
  /\ task' = [task EXCEPT ![r] =
                IF outcome[r] \in {"failed", "cancelled"} THEN "signal" ELSE "cleanup"]
  /\ UNCHANGED <<run, creation, outcome, tracked, broker, request, history>>

\* signal_run_error or signal_run_cancelled: put the end event, then close.
SignalEnd(r) ==
  /\ task[r] = "signal"
  /\ IF CanPut(r) THEN Put(r) /\ Close(r) /\ task' = [task EXCEPT ![r] = "cleanup"]
     ELSE task' = [task EXCEPT ![r] = "signalPut"] /\ UNCHANGED broker
  /\ UNCHANGED <<rows, creation, outcome, tracked, request, history>>

ResumeSignalEnd(r) ==
  /\ task[r] = "signalPut"
  /\ queued[r] < QueueSize
  /\ queued' = [queued EXCEPT ![r] = @ + 1]
  /\ Close(r)
  /\ task' = [task EXCEPT ![r] = "cleanup"]
  /\ UNCHANGED <<rows, creation, outcome, tracked, request, history>>

\* The finally block: flush the stored events, close the broker and leave
\* active_runs.
CleanUp(r) ==
  /\ task[r] = "cleanup"
  /\ Close(r)
  /\ tracked' = tracked \ {r}
  /\ task' = [task EXCEPT ![r] = "done"]
  /\ UNCHANGED <<rows, creation, outcome, queued, request, history>>

\* A connected stream takes an item from the queue.  That it stops at an end
\* (broker.py:171) is left out: the get that takes the end makes room for the one
\* put that may still wait beside that of a single request.
ReadStream(r) ==
  /\ r \in Streamed
  /\ queued[r] > 0
  /\ queued' = [queued EXCEPT ![r] = @ - 1]
  /\ UNCHANGED <<rows, creation, tasks, closed, request, history>>

-----------------------------------------------------------------------------
(* The requests that cancel, join and delete.  Each handler runs once.     *)

Goto(q, pc) == request' = [request EXCEPT ![q].pc = pc]

\* POST cancel with action cancel or interrupt; PATCH with that status.
CancelRequest(q) ==
  /\ request[q].pc = "idle"
  /\ \E r \in Runs, kind \in {"cancel", "interrupt"} :
       /\ run[r] \notin Absent
       /\ request' = [request EXCEPT ![q] = At(kind, r, "signal")]
       /\ asked' = asked \cup {r}
  /\ UNCHANGED <<rows, creation, tasks, broker, broken>>

\* cancel_run / interrupt_run of the streaming service: put the end event and
\* close the broker ...
Signal(q) ==
  LET r == request[q].run IN
  /\ request[q].pc = "signal"
  /\ IF CanPut(r) THEN Put(r) /\ Close(r) /\ Goto(q, "status")
     ELSE Goto(q, "signalPut") /\ UNCHANGED broker
  /\ UNCHANGED <<rows, creation, tasks, history>>

ResumeSignal(q) ==
  LET r == request[q].run IN
  /\ request[q].pc = "signalPut"
  /\ queued[r] < QueueSize
  /\ queued' = [queued EXCEPT ![r] = @ + 1]
  /\ Close(r)
  /\ Goto(q, "status")
  /\ UNCHANGED <<rows, creation, tasks, history>>

Mark(kind) == IF kind = "interrupt" THEN "interrupted" ELSE "cancelled"

\* ... and write the status of the run; a database error is swallowed.
WriteStatus(q) ==
  LET kind == request[q].kind IN
  /\ request[q].pc = "status"
  /\ \/ UpdateRun(request[q].run, Mark(kind))
     \/ Faults /\ UNCHANGED run
  /\ Goto(q, CASE kind = "delete"       -> "await"
               [] kind = "deleteThread" -> "pop"
               [] OTHER                 -> "status2")
  /\ UNCHANGED <<thread, creation, tasks, broker, history>>

\* The endpoint writes it again, then waits for the task if asked to.
WriteStatusAgain(q) ==
  /\ request[q].pc = "status2"
  /\ UpdateRun(request[q].run, Mark(request[q].kind))
  /\ \E wait \in BOOLEAN : Goto(q, IF wait THEN "await" ELSE "done")
  /\ UNCHANGED <<thread, creation, tasks, broker, history>>

AfterTask(kind) ==
  CASE kind = "delete"       -> "remove"
    [] kind = "deleteThread" -> "next"
    [] OTHER                 -> "done"

\* active_runs.get(run_id), then await the task it returns.
AwaitTask(q) ==
  LET r == request[q].run IN
  /\ request[q].pc = "await"
  /\ Goto(q, IF r \in tracked /\ Live(r) THEN "waiting" ELSE AfterTask(request[q].kind))
  /\ UNCHANGED <<rows, creation, tasks, broker, history>>

TaskEnded(q) ==
  /\ request[q].pc \in {"waiting", "cancelling"}
  /\ ~Live(request[q].run)
  /\ Goto(q, AfterTask(request[q].kind))
  /\ UNCHANGED <<rows, creation, tasks, broker, history>>

\* join_run, wait_for_run_standalone, create_run_and_wait: unless the run is
\* over or has no task, wait for the task with a time limit.
JoinRequest(q) ==
  /\ request[q].pc = "idle"
  /\ \E r \in Runs, over \in {Terminal, Terminal \ {"interrupted"}} :
       /\ run[r] \notin Absent
       /\ request' = [request EXCEPT ![q] =
            At("join", r, IF run[r] \notin over /\ r \in tracked /\ Live(r)
                          THEN "waiting" ELSE "done")]
  /\ UNCHANGED <<rows, creation, tasks, broker, history>>

\* asyncio.wait_for cancels what it waits for when the time is up, and waits
\* for the cancellation to end.
JoinTimeout(q) ==
  /\ request[q].kind = "join"
  /\ request[q].pc = "waiting"
  /\ Live(request[q].run)
  /\ CancelTask(request[q].run)
  /\ Goto(q, "cancelling")
  /\ UNCHANGED <<rows, creation, tracked, broker, asked>>

\* delete_run: an active run is refused, or cancelled first when forced.
DeleteRequest(q) ==
  /\ request[q].pc = "idle"
  /\ \E r \in Runs :
       /\ run[r] \notin Absent
       /\ request' = [request EXCEPT ![q] =
            At("delete", r, IF run[r] \in Active THEN "signal" ELSE "remove")]
       /\ asked' = asked \cup {r}
  /\ UNCHANGED <<rows, creation, tasks, broker, broken>>

RemoveRow(q) ==
  /\ request[q].pc = "remove"
  /\ run' = [run EXCEPT ![request[q].run] = "deleted"]
  /\ Goto(q, "pop")
  /\ UNCHANGED <<thread, creation, tasks, broker, history>>

\* Mutant of PopAndCancel: it pops only.
PopOnly(q) ==
  /\ request[q].pc = "pop"
  /\ tracked' = tracked \ {request[q].run}
  /\ Goto(q, IF request[q].kind = "delete" THEN "done" ELSE "next")
  /\ UNCHANGED <<rows, creation, task, outcome, broker, history>>

\* active_runs.pop(run_id) and cancel(); deleting a thread also awaits the
\* task.
PopAndCancel(q) ==
  LET r == request[q].run IN
  /\ request[q].pc = "pop"
  /\ tracked' = tracked \ {r}
  /\ IF r \in tracked THEN CancelTask(r) ELSE UNCHANGED <<task, outcome, broken>>
  /\ Goto(q, IF request[q].kind = "delete" THEN "done"
             ELSE IF r \in tracked /\ Live(r) THEN "waiting" ELSE "next")
  /\ UNCHANGED <<rows, creation, broker, asked>>

\* delete_thread: cancel the runs that were active, one after the other, then
\* delete the row.
DeleteThreadRequest(q) ==
  /\ request[q].pc = "idle"
  /\ \E t \in Threads :
       LET active == {r \in RunsOf(t) : run[r] \in Active} IN
       /\ thread[t] # "absent"
       /\ request' = [request EXCEPT ![q] =
            [At("deleteThread", NoRun, "next") EXCEPT !.thread = t, !.todo = active]]
       /\ asked' = asked \cup active
  /\ UNCHANGED <<rows, creation, tasks, broker, broken>>

\* Mutant of NextRun: the run stays in the list.
NextRunKeeps(q) ==
  /\ request[q].pc = "next"
  /\ \E r \in request[q].todo :
       request' = [request EXCEPT ![q].run = r, ![q].pc = "signal"]
  /\ UNCHANGED <<rows, creation, tasks, broker, history>>

NextRun(q) ==
  /\ request[q].pc = "next"
  /\ \E r \in request[q].todo :
       request' = [request EXCEPT ![q].run = r, ![q].pc = "signal",
                                  ![q].todo = @ \ {r}]
  /\ UNCHANGED <<rows, creation, tasks, broker, history>>

DropThread(q) ==
  /\ request[q].pc = "next"
  /\ request[q].todo = {}
  /\ DeleteThreadRow(request[q].thread)
  /\ Goto(q, "done")
  /\ UNCHANGED <<creation, tasks, broker, history>>

\* The client of create_and_stream_run goes away; with on_disconnect = cancel
\* the task is cancelled.
StreamDisconnect(r) ==
  /\ creator[r] = "streaming"
  /\ creator' = [creator EXCEPT ![r] = "ended"]
  /\ \/ UNCHANGED <<task, outcome, history>>
     \/ /\ r \in tracked
        /\ CancelTask(r)
        /\ asked' = asked \cup {r}
  /\ UNCHANGED <<rows, resuming, tracked, broker, request>>

\* ThreadCleanupService deletes an expired thread, whatever runs on it.
ExpireThread(t) ==
  /\ thread[t] # "absent"
  /\ DeleteThreadRow(t)
  /\ UNCHANGED <<creation, tasks, broker, request, history>>

-----------------------------------------------------------------------------
(* Database errors and a restart of the server.                            *)

\* The insert of a run, or the update that follows it in a batch, fails.
CreateError(r) ==
  /\ Faults
  /\ creator[r] \in {"busy", "batched"}
  /\ creator' = [creator EXCEPT ![r] = "ended"]
  /\ broken' = broken \cup {r}
  /\ UNCHANGED <<rows, resuming, tasks, broker, request, asked>>

\* In the try block a failing statement leads to the failed branch; in an
\* except clause only the finally block is left; and the flush of the finally
\* block is the last thing the task does.
TaskError(r) ==
  /\ Faults
  /\ task[r] \in {"begin", "writeRun", "writeThread", "cleanup"}
  /\ IF InTry(r)
     THEN /\ task' = [task EXCEPT ![r] = "writeRun"]
          /\ outcome' = [outcome EXCEPT ![r] = "failed"]
          /\ UNCHANGED broken
     ELSE /\ task' = [task EXCEPT ![r] = IF @ = "cleanup" THEN "done" ELSE "cleanup"]
          /\ broken' = broken \cup {r}
          /\ UNCHANGED outcome
  /\ UNCHANGED <<rows, creation, tracked, broker, request, asked>>

\* A statement of a request fails: the handler answers with an error.
RequestError(q) ==
  /\ Faults
  /\ request[q].pc \in {"status2", "remove"}
     \/ (request[q].pc = "next" /\ request[q].todo = {})
  /\ Goto(q, "done")
  /\ UNCHANGED <<rows, creation, tasks, broker, history>>

\* The process stops and starts again: only the rows remain, and nothing at
\* startup looks at them.
Restart ==
  /\ Faults
  /\ broken' = broken \cup {r \in Runs : Live(r) \/ creator[r] \notin {"none", "ended", "streaming"}}
  /\ creator' = [r \in Runs |-> IF creator[r] = "none" THEN "none" ELSE "ended"]
  /\ task' = [r \in Runs |-> IF task[r] = "none" THEN "none" ELSE "done"]
  /\ tracked' = {}
  /\ queued' = [r \in Runs |-> 0]
  /\ closed' = [r \in Runs |-> FALSE]
  /\ request' = [q \in Requests |->
                   IF request[q].pc = "idle" THEN Idle ELSE [request[q] EXCEPT !.pc = "done"]]
  /\ UNCHANGED <<rows, resuming, outcome, asked>>

-----------------------------------------------------------------------------
\* A thread may have been interrupted by an earlier run.
Init ==
  /\ run = [r \in Runs |-> "none"]
  /\ thread \in [Threads -> {"idle", "interrupted"}]
  /\ creator = [r \in Runs |-> "none"]
  /\ resuming = {}
  /\ task = [r \in Runs |-> "none"]
  /\ outcome = [r \in Runs |-> "none"]
  /\ tracked = {}
  /\ queued = [r \in Runs |-> 0]
  /\ closed = [r \in Runs |-> FALSE]
  /\ request = [q \in Requests |-> Idle]
  /\ asked = {}
  /\ broken = {}

CreateStep(r) ==
  \/ CheckResume(r) \/ CheckCreate(r) \/ SetBusy(r) \/ InsertRun(r)
  \/ InsertBatchRun(r) \/ SetBatchBusy(r) \/ CreateTask(r)

TaskStep(r) ==
  \/ Start(r) \/ SetRunning(r) \/ EmitEvent(r) \/ ResumePut(r) \/ EndGraph(r)
  \/ WriteRunStatus(r) \/ WriteThreadStatus(r)
  \/ SignalEnd(r) \/ ResumeSignalEnd(r) \/ CleanUp(r)

Arrive(q) ==
  \/ CancelRequest(q) \/ JoinRequest(q) \/ DeleteRequest(q)
  \/ DeleteThreadRequest(q)

RequestStep(q) ==
  \/ Signal(q) \/ ResumeSignal(q) \/ WriteStatus(q) \/ WriteStatusAgain(q)
  \/ AwaitTask(q) \/ TaskEnded(q) \/ RemoveRow(q) \/ PopAndCancel(q)
  \/ NextRun(q) \/ DropThread(q)

Next ==
  \/ \E r \in Runs : CreateStep(r) \/ TaskStep(r) \/ ReadStream(r)
                     \/ StreamDisconnect(r) \/ CreateError(r) \/ TaskError(r)
  \/ \E q \in Requests : Arrive(q) \/ RequestStep(q) \/ JoinTimeout(q)
                         \/ RequestError(q)
  \/ \E t \in Threads : ExpireThread(t)
  \/ Restart

Spec == Init /\ [][Next]_vars

\* The event loop runs every coroutine that can go on, streams that are there
\* read, and a graph emits finitely many events.
Fairness ==
  /\ \A r \in Runs : WF_vars(TaskStep(r)) /\ SF_vars(EndGraph(r)) /\ WF_vars(ReadStream(r))
  /\ \A q \in Requests : WF_vars(RequestStep(q))

FairSpec == Spec /\ Fairness

-----------------------------------------------------------------------------
(* Properties.                                                             *)

Steps == {"created", "begin", "exec", "put", "writeRun", "writeThread", "signal",
          "signalPut", "cleanup"}

\* The types of the variables.
TypeOK ==
  /\ run \in [Runs -> Active \cup Terminal \cup Absent]
  /\ thread \in [Threads -> {"absent", "idle", "busy", "interrupted"}]
  /\ creator \in [Runs -> {"none", "checked", "busy", "inserted", "insertedStream", "batched",
                       "streaming", "ended"}]
  /\ resuming \subseteq Runs
  /\ task \in [Runs -> Steps \cup {"none", "done"}]
  /\ outcome \in [Runs -> {"none", "completed", "interrupted", "failed", "cancelled"}]
  /\ tracked \subseteq Runs
  /\ queued \in [Runs -> 0..QueueSize]
  /\ closed \in [Runs -> BOOLEAN]
  /\ request \in [Requests ->
       [kind : {"none", "cancel", "interrupt", "join", "delete", "deleteThread"},
        run : Runs \cup {NoRun}, thread : Threads \cup {NoThread},
        pc : {"idle", "signal", "signalPut", "status", "status2", "await", "waiting",
              "cancelling", "remove", "pop", "next", "done"},
        todo : SUBSET Runs]]
  /\ asked \subseteq Runs
  /\ broken \subseteq Runs

Unfinished == {"created", "begin", "exec", "put", "writeRun"}

\* A run whose row says it is active has someone who will end it: its creator
\* is about to start the task, or the task has not written the final status.
\* A run left active for ever is never collected (runs.py has no sweeper).
ActiveHasTask ==
  \A r \in Runs \ broken :
    run[r] \in Active => \/ creator[r] \in Inserted \cup {"batched"}
                         \/ task[r] \in Unfinished

\* A busy thread has a run in creation or a task that will write the thread's
\* status: a thread does not stay busy after its last run.
BusyHasTask ==
  \A t \in Threads : thread[t] = "busy" =>
    \E r \in RunsOf(t) : \/ creator[r] \in Inserted \cup {"busy"}
                         \/ task[r] \in Unfinished \cup {"writeThread"}
                         \/ r \in broken

\* A task that active_runs has lost sight of (a delete popped it) has been
\* cancelled or was already cleaning up: no graph goes on that no request can
\* reach any more.
DetachedIsEnding ==
  \A r \in Runs : Live(r) /\ r \notin tracked =>
    outcome[r] \in {"failed", "cancelled"} \/ task[r] = "cleanup"

\* Only a task that was cut short outside its try block is left behind in
\* active_runs.
LeakedIsBroken ==
  \A r \in tracked : task[r] = "done" => r \in broken

\* Unless a request marked the run, its row tells how the task ended, also when
\* the cancellation came between the writes of the completed branch.
StatusIsOutcome ==
  \A r \in Runs \ (asked \cup broken) :
    /\ task[r] \in {"writeThread", "signal", "signalPut", "cleanup", "done"}
    /\ run[r] # "deleted"
    => run[r] = outcome[r]

\* A run that had its thread for itself leaves it interrupted exactly when the
\* graph stopped at an interrupt: what a resume command relies on.
ThreadTellsInterrupt ==
  \A r \in Runs \ broken :
    /\ task[r] = "done"
    /\ thread[ThreadOf[r]] # "absent"
    /\ \A s \in RunsOf(ThreadOf[r]) \ {r} : creator[s] \in {"none", "checked"}
    => thread[ThreadOf[r]] = IF outcome[r] = "interrupted" THEN "interrupted" ELSE "idle"

\* No run stays active, no thread busy and no entry in active_runs when nothing
\* is left that would change it, and the row tells how the task ended.
LifecycleInv ==
  TypeOK /\ ActiveHasTask /\ BusyHasTask /\ LeakedIsBroken /\ StatusIsOutcome

\* Two runs of a thread, and requests for both, leave neither out of reach nor
\* the thread with a wrong status.
RunsOfThreadInv == BusyHasTask /\ DetachedIsEnding /\ ThreadTellsInterrupt

\* Every task ends: its puts, its status writes and its clean-up are not held
\* up for ever.
TasksEnd == \A r \in Runs : Live(r) ~> ~Live(r)

\* Every cancel, join and delete request is answered.
RequestsReturn ==
  \A q \in Requests : request[q].pc # "idle" ~> request[q].pc = "done"

-----------------------------------------------------------------------------
(* What the comments say and the code does not keep.                       *)

\* runs.py:1033 action=cancel is a hard cancel: a run whose cancel request has
\* returned stays cancelled (or is deleted).
CancelIsFinal ==
  [][\A q \in Requests :
       LET r == request[q].run IN
       /\ request[q].kind = "cancel" /\ request[q].pc = "done"
       /\ run[r] = "cancelled"
       => run'[r] \in {"cancelled", "deleted"}]_vars

\* runs.py:920 the time limit of a join is no problem, it then answers with the
\* state in the database: only requests that ask for it cancel a run.
OnlyAskedIsCancelled == \A r \in Runs : outcome[r] = "cancelled" => r \in asked

\* core/orm.py:773 an idle thread waits for work: no graph runs on it.
IdleMeansNoRun ==
  \A r \in Runs : thread[ThreadOf[r]] = "idle" => task[r] \notin {"exec", "put"}

\* runs.py:1219 the finally block guarantees the removal from active_runs.
FinallyRemoves == \A r \in tracked : task[r] # "done"

\* runs.py:252 a resume is possible on an interrupted thread only (on one that
\* was deleted meanwhile the insert fails).
ResumesInterrupted ==
  [][\A r \in resuming :
       creator[r] = "checked" /\ creator'[r] = "busy"
         => thread[ThreadOf[r]] \in {"interrupted", "absent"}]_vars
=============================================================================
