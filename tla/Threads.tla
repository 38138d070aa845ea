------------------------------ MODULE Threads ------------------------------
(***************************************************************************)
(* The rows of threads beside what hangs on them: the tasks of runs, which *)
(* the process keeps, and checkpoints, which the checkpointer keeps.  Rows *)
(* are made and deleted by requests (api/threads.py), by stateless runs    *)
(* (api/runs_standalone.py) and by the hourly sweep of expired threads     *)
(* (ThreadCleanupService).  Thread ids are fresh UUIDs.                    *)
(***************************************************************************)
EXTENDS Integers, FiniteSets

CONSTANTS
    ThreadIds,
    ThreadUsers,
    Creators,           \* bound of the model: those of them who make and patch threads
    OrgOfUser,          \* the organization of each, or "none"
    Stateless,          \* bound of the model: ids of threads that stateless runs make
    RunTasks,
    Deletions, Copies,  \* requests of either kind under way at one time
    MaxThreadFaults     \* bound of the model: failed transactions and restarts

ASSUME ThreadConstants == Creators \subseteq ThreadUsers /\ MaxThreadFaults \in Nat

VARIABLES
    thread,         \* the row of each id, UnusedThread or DeletedThread
    checkpoint,     \* whether the checkpointer has a state for the id
    task,           \* the run of each task that goes on; closed: its row says it is over
    threadRequest,  \* what each deletion or copy is doing
    sweep,          \* what _cleanup_expired_threads is doing
    threadFaults,
    abandoned,      \* history: tasks whose thread went without a look at them
    missed,         \* history: tasks a deletion of their thread has not listed
    halves          \* history: copies that a fault has left without their state

threadVars ==
    <<thread, checkpoint, task, threadRequest, sweep, threadFaults, abandoned, missed, halves>>

---------------------------------------------------------------------------
UnusedThread  == [user |-> "unused"]
DeletedThread == [user |-> "deleted"]
NoTask        == [user |-> "nobody"]
NoRequest     == [at |-> "idle"]
Sleeping      == [at |-> "asleep", expired |-> {}]

ThreadRequests == Deletions \cup Copies
HasRow(t) == thread[t] \notin {UnusedThread, DeletedThread}
Goes(r)   == task[r] # NoTask

\* Every row is made with some metadata; patched: it has those of a PATCH request.
\* stateful: it is the copy of a thread that had a state.
Row(u, org, stateful) ==
    [user |-> u, org |-> org, metadata |-> "made", ttl |-> "none", stateful |-> stateful]

ThreadTypeOK ==
    /\ \A t \in ThreadIds : HasRow(t) =>
          /\ thread[t].user \in ThreadUsers /\ thread[t].metadata \in {"made", "patched"}
          /\ thread[t].ttl \in {"none", "running", "expired"}
    /\ checkpoint \in [ThreadIds -> BOOLEAN]
    /\ \A r \in RunTasks : Goes(r) => task[r].thread \in ThreadIds /\ task[r].user \in ThreadUsers
    /\ \A q \in ThreadRequests :
          threadRequest[q].at \in {"idle", "stop", "state", "copy", "put", "undo"}
    /\ sweep.at \in {"asleep", "selected"} /\ sweep.expired \subseteq ThreadIds
    /\ threadFaults \in 0..MaxThreadFaults

\* The tasks on threads that go.
On(gone) == {r \in RunTasks : Goes(r) /\ task[r].thread \in gone}

ThreadFault == threadFaults < MaxThreadFaults /\ threadFaults' = threadFaults + 1
SetThread(t, row) == thread' = [thread EXCEPT ![t] = row]
SetRequest(q, x) == threadRequest' = [threadRequest EXCEPT ![q] = x]

\* _build_thread_access_filter: who may read or copy; the owner alone may write.
MayRead(u, t) ==
    \/ thread[t].user = u
    \/ OrgOfUser[u] # "none" /\ thread[t].org = OrgOfUser[u]
Owns(u, t) == HasRow(t) /\ thread[t].user = u

---------------------------------------------------------------------------
(* Rows *)

\* A stateless run, or a cron job, makes a thread without an organization.
CreateThread(u, t) ==
    /\ thread[t] = UnusedThread
    /\ SetThread(t, Row(u, IF t \in Stateless THEN "none" ELSE OrgOfUser[u], FALSE))
    /\ UNCHANGED <<checkpoint, task, threadRequest, sweep, threadFaults, abandoned, missed, halves>>

\* update_thread merges into the dictionary it has loaded and assigns it to where
\* it is: no change is detected, and none is written beside an empty dictionary.
Merged(metadata) == metadata

\* A TTL with the strategy "archive" is no TTL to the sweep, which skips the thread.
PatchThread(u, t, withMetadata) ==
    /\ Owns(u, t)
    /\ \E ttl \in {"none", "running", "expired"} :
          /\ ttl = "none" => thread[t].ttl # "none"
          /\ SetThread(t, [thread[t] EXCEPT !.ttl = ttl,
                              !.metadata = IF withMetadata THEN Merged(@) ELSE @])
    /\ UNCHANGED <<checkpoint, task, threadRequest, sweep, threadFaults, abandoned, missed, halves>>

Expire(t) ==
    /\ HasRow(t) /\ thread[t].ttl = "running"
    /\ SetThread(t, [thread[t] EXCEPT !.ttl = "expired"])
    /\ UNCHANGED <<checkpoint, task, threadRequest, sweep, threadFaults, abandoned, missed, halves>>

---------------------------------------------------------------------------
(* Tasks of runs *)

\* update_thread_metadata wants the row, whoever owns it.
BeginRun(r, u, t) ==
    /\ ~Goes(r) /\ HasRow(t)
    /\ task' = [task EXCEPT ![r] =
                  [thread |-> t, user |-> u, owner |-> thread[t].user, closed |-> FALSE]]
    /\ missed' = IF \E q \in ThreadRequests :
                       threadRequest[q].at = "stop" /\ threadRequest[q].thread = t
                 THEN missed \cup {r} ELSE missed
    /\ UNCHANGED <<thread, checkpoint, threadRequest, sweep, threadFaults, abandoned, halves>>

\* A request cancels or interrupts the run (streaming_service.cancel_run), which a
\* deletion does as well, or the task has written its last status: the row is no
\* longer active, the task goes on.  That a task which has not begun to run would
\* still write "running" is left out: a deletion would find such a run again.
CloseRun(r) ==
    /\ Goes(r) /\ ~task[r].closed
    /\ task' = [task EXCEPT ![r].closed = TRUE]
    /\ UNCHANGED <<thread, checkpoint, threadRequest, sweep, threadFaults, abandoned, missed, halves>>

\* The checkpointer has no foreign key to the threads.
WriteState(r) ==
    /\ Goes(r) /\ checkpoint' = [checkpoint EXCEPT ![task[r].thread] = TRUE]
    /\ UNCHANGED <<thread, task, threadRequest, sweep, threadFaults, abandoned, missed, halves>>

\* A task that has ended is in active_runs no more: no deletion finds it there.
Struck(r) ==
    [q \in ThreadRequests |->
        IF threadRequest[q].at = "stop" THEN [threadRequest[q] EXCEPT !.runs = @ \ {r}]
                                        ELSE threadRequest[q]]

EndRun(r) ==
    /\ Goes(r) /\ task' = [task EXCEPT ![r] = NoTask]
    /\ threadRequest' = Struck(r)
    /\ missed' = missed \ {r} /\ abandoned' = abandoned \ {r}
    /\ UNCHANGED <<thread, checkpoint, sweep, threadFaults, halves>>

---------------------------------------------------------------------------
(* delete_thread *)

\* The owner's tasks on the thread, and those of them whose row is still active.
TasksOf(u, t)  == {r \in RunTasks : Goes(r) /\ task[r].thread = t /\ task[r].user = u}
ActiveOf(u, t) == {r \in TasksOf(u, t) : ~task[r].closed}

\* Only runs whose row is active are listed, once.
ListRuns(q, u, t) ==
    /\ threadRequest[q] = NoRequest /\ Owns(u, t)
    /\ SetRequest(q, [at |-> "stop", thread |-> t, runs |-> ActiveOf(u, t)])
    /\ missed' = missed \cup (TasksOf(u, t) \ ActiveOf(u, t))
    /\ UNCHANGED <<thread, checkpoint, task, sweep, threadFaults, abandoned, halves>>

\* Mutant: the task is taken from active_runs, but not cancelled.
Forgotten(r) == task
Cancelled(r) == [task EXCEPT ![r] = NoTask]

\* Each run is cancelled and awaited before the next.
StopRun(q) ==
    /\ threadRequest[q].at = "stop"
    /\ \E r \in threadRequest[q].runs :
          /\ task' = Cancelled(r) /\ threadRequest' = Struck(r)
          /\ missed' = missed \ {r} /\ abandoned' = abandoned \ {r}
    /\ UNCHANGED <<thread, checkpoint, sweep, threadFaults, halves>>

DeleteRow(q) ==
    LET x == threadRequest[q] IN
    /\ x.at = "stop" /\ x.runs = {}
    /\ SetRequest(q, NoRequest)
    /\ \/ SetThread(x.thread, DeletedThread) /\ UNCHANGED threadFaults
       \/ ThreadFault /\ UNCHANGED thread
    /\ UNCHANGED <<checkpoint, task, sweep, abandoned, missed, halves>>

---------------------------------------------------------------------------
(* copy_thread *)

ReadSource(q, u, t) ==
    /\ threadRequest[q] = NoRequest /\ HasRow(t) /\ MayRead(u, t)
    /\ SetRequest(q, [at |-> "state", user |-> u, source |-> t])
    /\ UNCHANGED <<thread, checkpoint, task, sweep, threadFaults, abandoned, missed, halves>>

\* Without a state, a copy of the row is all there is to do.
ReadState(q) ==
    LET x == threadRequest[q] IN
    /\ x.at = "state"
    /\ SetRequest(q, [at |-> "copy", user |-> x.user,
                      stateful |-> checkpoint[x.source]])
    /\ UNCHANGED <<thread, checkpoint, task, sweep, threadFaults, abandoned, missed, halves>>

InsertCopy(q, t) ==
    LET x == threadRequest[q] IN
    /\ x.at = "copy" /\ thread[t] = UnusedThread
    /\ SetThread(t, Row(x.user, OrgOfUser[x.user], x.stateful))
    /\ SetRequest(q, IF x.stateful THEN [at |-> "put", thread |-> t] ELSE NoRequest)
    /\ UNCHANGED <<checkpoint, task, sweep, threadFaults, abandoned, missed, halves>>

UndoCopy(t) == [at |-> "undo", thread |-> t]

\* The checkpointer takes the state, or refuses it: the configuration names no
\* namespace, and no version is new (threads.py:1146-1157).
PutState(q) ==
    LET x == threadRequest[q] IN
    /\ x.at = "put"
    /\ \/ /\ checkpoint' = [checkpoint EXCEPT ![x.thread] = TRUE]
          /\ SetRequest(q, NoRequest)
       \/ SetRequest(q, UndoCopy(x.thread)) /\ UNCHANGED checkpoint
    /\ UNCHANGED <<thread, task, sweep, threadFaults, abandoned, missed, halves>>

DeleteCopy(q) ==
    LET x == threadRequest[q] IN
    /\ x.at = "undo"
    /\ SetRequest(q, NoRequest)
    /\ \/ /\ SetThread(x.thread, DeletedThread)
          /\ abandoned' = abandoned \cup On({x.thread})
          /\ UNCHANGED <<threadFaults, halves>>
       \/ ThreadFault /\ halves' = halves \cup {x.thread} /\ UNCHANGED <<thread, abandoned>>
    /\ UNCHANGED <<checkpoint, task, sweep, missed>>

---------------------------------------------------------------------------
(* ThreadCleanupService *)

\* What the sweep has loaded it deletes, even if the TTL is extended in between.
\* Mutant: threads whose runs go on are spared.
SelectedIdle ==
    {t \in ThreadIds : HasRow(t) /\ thread[t].ttl = "expired"
                         /\ \A r \in RunTasks : Goes(r) => task[r].thread # t}
Selected == {t \in ThreadIds : HasRow(t) /\ thread[t].ttl = "expired"}

SelectExpired ==
    /\ sweep = Sleeping /\ Selected # {}
    /\ sweep' = [at |-> "selected", expired |-> Selected]
    /\ UNCHANGED <<thread, checkpoint, task, threadRequest, threadFaults, abandoned, missed, halves>>

DeleteExpired ==
    /\ sweep.at = "selected"
    /\ \/ /\ thread' = [t \in ThreadIds |-> IF t \in sweep.expired THEN DeletedThread ELSE thread[t]]
          /\ abandoned' = abandoned \cup On(sweep.expired)
          /\ UNCHANGED threadFaults
       \/ ThreadFault /\ UNCHANGED <<thread, abandoned>>
    /\ sweep' = Sleeping
    /\ UNCHANGED <<checkpoint, task, threadRequest, missed, halves>>

\* Rows and checkpoints stay, all that was under way is gone.
RestartServer ==
    /\ ThreadFault
    /\ task' = [r \in RunTasks |-> NoTask]
    /\ threadRequest' = [q \in ThreadRequests |-> NoRequest]
    /\ sweep' = Sleeping
    /\ halves' = halves \cup {t \in ThreadIds : \E q \in ThreadRequests :
                    threadRequest[q].at \in {"put", "undo"} /\ threadRequest[q].thread = t}
    /\ missed' = {} /\ abandoned' = {}
    /\ UNCHANGED <<thread, checkpoint>>

---------------------------------------------------------------------------
InitThreads ==
    /\ thread = [t \in ThreadIds |-> UnusedThread]
    /\ checkpoint = [t \in ThreadIds |-> FALSE]
    /\ task = [r \in RunTasks |-> NoTask]
    /\ threadRequest = [q \in ThreadRequests |-> NoRequest]
    /\ sweep = Sleeping /\ threadFaults = 0
    /\ abandoned = {} /\ missed = {} /\ halves = {}

NextThreads ==
    \/ SelectExpired \/ DeleteExpired \/ RestartServer
    \/ \E t \in ThreadIds :
          \/ Expire(t)
          \/ \E u \in Creators :
                CreateThread(u, t) \/ \E m \in BOOLEAN : PatchThread(u, t, m)
          \/ \E u \in ThreadUsers :
                \/ \E r \in RunTasks : BeginRun(r, u, t)
                \/ \E q \in Deletions : ListRuns(q, u, t)
                \/ \E q \in Copies : ReadSource(q, u, t)
          \/ \E q \in Copies : InsertCopy(q, t)
    \/ \E r \in RunTasks : CloseRun(r) \/ WriteState(r) \/ EndRun(r)
    \/ \E q \in Deletions : StopRun(q) \/ DeleteRow(q)
    \/ \E q \in Copies : ReadState(q) \/ PutState(q) \/ DeleteCopy(q)

\* The loop goes on after a failure; the server starts it.
ThreadFairness == WF_threadVars(SelectExpired) /\ WF_threadVars(DeleteExpired)

ThreadSpec == InitThreads /\ [][NextThreads]_threadVars

---------------------------------------------------------------------------
(***************************************************************************)
(* A copy of a thread that had a state has it too, once the request that   *)
(* makes it has returned: if the state cannot be put, the row goes.  Only  *)
(* a fault in the middle leaves half a copy.                               *)
(***************************************************************************)
CopyIsWhole ==
    \A t \in ThreadIds :
        HasRow(t) /\ thread[t].stateful /\ ~checkpoint[t] /\ t \notin halves =>
            \E q \in ThreadRequests :
                threadRequest[q].at \in {"put", "undo"} /\ threadRequest[q].thread = t

(***************************************************************************)
(* A task goes on without its thread only if the sweep or a copy that      *)
(* failed deleted it, if the run is not the owner's, or if the deletion    *)
(* missed it: delete_thread lists the owner's active rows, and that once,  *)
(* so a run is missed that begins while others are stopped or that was     *)
(* cancelled or interrupted before, whose task goes on (threads.py:731).   *)
(***************************************************************************)
OrphansExplained ==
    \A r \in RunTasks :
        Goes(r) /\ thread[task[r].thread] = DeletedThread =>
            r \in abandoned \/ r \in missed \/ task[r].user # task[r].owner

(***************************************************************************)
(* A PATCH of the metadata is in the row afterwards.                       *)
(***************************************************************************)
MetadataPatchStays ==
    [][\A u \in ThreadUsers, t \in ThreadIds :
          PatchThread(u, t, TRUE) => thread'[t].metadata = "patched"]_threadVars

ThreadInv == ThreadTypeOK /\ CopyIsWhole /\ OrphansExplained

(***************************************************************************)
(* A thread whose time has come goes, or gets another: failed sweeps and   *)
(* restarts only delay it.                                                 *)
(***************************************************************************)
Due(t) == HasRow(t) /\ thread[t].ttl = "expired"
ExpiredGo == \A t \in ThreadIds : Due(t) ~> ~Due(t)
=============================================================================
