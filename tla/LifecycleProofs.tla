-------------------------- MODULE LifecycleProofs --------------------------
(***************************************************************************)
(* Two components that share nothing, side by side as in MCTwoRuns.        *)
(* The life of runs, for any runs, threads, requests, queue sizes and both *)
(* policies, with faults and without: an active row has somebody who ends  *)
(* it, a busy thread too, and the rows tell how the tasks ended.           *)
(* And the connections, for any callers, graphs, numbers of connections    *)
(* and faults: a kind whose first requests do not meet has one connection  *)
(* at a time, and it is the one everybody was given and close will leave.  *)
(***************************************************************************)
EXTENDS RunLifecycle, Connections, SequenceTheorems, TLAPS


(***************************************************************************)
(* Why.  A run's row, its creator and its task go through their places     *)
(* together; a request that writes the status of a run has asked for it    *)
(* before; a thread that is gone has taken its runs along.                 *)
(***************************************************************************)
Early   == {"none", "created", "begin", "exec", "put"}
Ending  == {"writeRun", "writeThread", "signal", "signalPut", "cleanup"}
Aiming  == {"signal", "signalPut", "status", "status2"}
OnARun  == Aiming \cup {"await", "waiting", "cancelling", "remove", "pop"}

Places(r) ==
  /\ creator[r] \in {"none", "checked", "busy"} => run[r] = "none"
  /\ creator[r] \in Inserted \cup {"batched"} => run[r] # "none"
  /\ creator[r] \notin {"streaming", "ended"} => task[r] = "none"
  /\ task[r] # "none" => run[r] # "none"
  /\ task[r] \in Early => outcome[r] = "none"
  /\ task[r] \in Ending => outcome[r] # "none"
  /\ task[r] \in {"signal", "signalPut"} => outcome[r] \in {"failed", "cancelled"}
  /\ thread[ThreadOf[r]] = "absent" => run[r] \in Absent

ActiveEnds(r) ==
  r \notin broken /\ run[r] \in Active => \/ creator[r] \in Inserted \cup {"batched"}
                                          \/ task[r] \in Unfinished

Attached(r) ==
  /\ r \in tracked /\ task[r] = "done" => r \in broken
  /\ Live(r) /\ r \notin tracked => outcome[r] \in {"failed", "cancelled"} \/ task[r] = "cleanup"

RowTold(r) ==
  /\ r \notin asked \cup broken
  /\ task[r] \in {"writeThread", "signal", "signalPut", "cleanup", "done"}
  /\ run[r] # "deleted"
  => run[r] = outcome[r]

RunSound(r) == Places(r) /\ ActiveEnds(r) /\ Attached(r) /\ RowTold(r)

Alone(r) == \A s \in RunsOf(ThreadOf[r]) \ {r} : creator[s] \in {"none", "checked"}

ThreadTold(r) ==
  /\ r \notin broken
  /\ task[r] \in {"signal", "signalPut", "cleanup", "done"}
  /\ thread[ThreadOf[r]] # "absent"
  /\ Alone(r)
  => thread[ThreadOf[r]] = IF outcome[r] = "interrupted" THEN "interrupted" ELSE "idle"

\* Somebody will write the status of the thread.
Attends(r) ==
  \/ creator[r] \in Inserted \cup {"busy"}
  \/ task[r] \in Unfinished \cup {"writeThread"}
  \/ r \in broken

RequestSound(q) ==
  /\ request[q].pc \in OnARun => request[q].run \in Runs /\ run[request[q].run] # "none"
  /\ request[q].pc \in Aiming => request[q].run \in asked
  /\ \A r \in request[q].todo : r \in asked /\ run[r] # "none"

IInv ==
  /\ TypeOK
  /\ \A r \in Runs : RunSound(r)
  /\ \A r \in Runs : ThreadTold(r)
  /\ \A t \in Threads : thread[t] = "busy" => \E r \in RunsOf(t) : Attends(r)
  /\ \A q \in Requests : RequestSound(q)

---------------------------------------------------------------------------
LEMMA InvariantGives == IInv => LifecycleInv /\ RunsOfThreadInv
<1> SUFFICES ASSUME IInv PROVE LifecycleInv /\ RunsOfThreadInv
  OBVIOUS
<1>1. TypeOK
  BY DEF IInv
<1>2. ActiveHasTask
  BY DEF IInv, RunSound, ActiveEnds, ActiveHasTask
<1>3. BusyHasTask
  BY DEF IInv, Attends, BusyHasTask
<1>4. LeakedIsBroken /\ DetachedIsEnding
  BY DEF IInv, TypeOK, RunSound, Attached, LeakedIsBroken, DetachedIsEnding
<1>5. StatusIsOutcome
  BY DEF IInv, RunSound, RowTold, StatusIsOutcome
<1>6. ThreadTellsInterrupt
  BY DEF IInv, ThreadTold, Alone, ThreadTellsInterrupt
<1> QED BY <1>1, <1>2, <1>3, <1>4, <1>5, <1>6 DEF LifecycleInv, RunsOfThreadInv

LEMMA LifecycleBegins == Init => IInv
<1> SUFFICES ASSUME Init PROVE IInv
  OBVIOUS
<1>1. TypeOK
  BY LifecycleAssumption DEF Init, TypeOK, Idle, Active, Terminal, Absent
<1>2. ASSUME NEW r \in Runs PROVE RunSound(r) /\ ThreadTold(r)
  BY <1>2, LifecycleAssumption DEF Init, RunSound, Places, ActiveEnds, Attached, RowTold, ThreadTold,
     Live, Inserted, Early, Ending, Active, Absent
<1>3. \A t \in Threads : thread[t] # "busy"
  BY DEF Init
<1>4. \A q \in Requests : RequestSound(q)
  BY DEF Init, RequestSound, Idle, OnARun, Aiming
<1> QED BY <1>1, <1>2, <1>3, <1>4 DEF IInv

---------------------------------------------------------------------------
(* What a step may change.                                                 *)

\* A step of one run r, seen from the others and from the threads.
OthersKept(r) ==
  \A s \in Runs \ {r} :
    /\ run'[s] = run[s] /\ creator'[s] = creator[s]
    /\ task'[s] = task[s] /\ outcome'[s] = outcome[s]
    /\ s \in tracked' <=> s \in tracked
    /\ s \in broken' <=> s \in broken
    /\ s \in asked' <=> s \in asked

ThreadsKept == \A t \in Threads : thread'[t] = thread[t]

LEMMA OthersSound ==
  ASSUME IInv, NEW r \in Runs, OthersKept(r), RunSound(r)',
         \A t \in Threads : thread'[t] = "absent" => thread[t] = "absent"
  PROVE  \A s \in Runs : RunSound(s)'
<1> SUFFICES ASSUME NEW s \in Runs \ {r} PROVE RunSound(s)'
  OBVIOUS
<1>1. RunSound(s) /\ ThreadOf[s] \in Threads
  BY LifecycleAssumption DEF IInv
<1> QED BY <1>1 DEF OthersKept, RunSound, Places, ActiveEnds, Attached, RowTold, Live

\* A step of one run that leaves the threads as they are.
LEMMA RunStepSound ==
  ASSUME IInv, NEW r \in Runs, TypeOK', OthersKept(r), thread' = thread, RunSound(r)',
         ThreadTold(r)', asked \subseteq asked',
         thread[ThreadOf[r]] = "busy" /\ Attends(r) => Attends(r)',
         creator[r] \notin {"none", "checked"} => creator'[r] \notin {"none", "checked"},
         \A q \in Requests : RequestSound(q)'
  PROVE  IInv'
<1>1. \A s \in Runs : RunSound(s)'
  BY OthersSound
<1>2. ASSUME NEW s \in Runs \ {r} PROVE ThreadTold(s)'
  <2>1. Alone(s)' => Alone(s)
    BY DEF Alone, OthersKept, RunsOf
  <2>2. ThreadTold(s)
    BY DEF IInv
  <2> QED BY <2>1, <2>2 DEF ThreadTold, OthersKept
<1>3. ASSUME NEW t \in Threads, thread'[t] = "busy"
      PROVE  \E s \in RunsOf(t) : Attends(s)'
  <2>1. PICK s \in RunsOf(t) : Attends(s)
    BY <1>3 DEF IInv
  <2>2. s \in Runs
    BY DEF RunsOf
  <2>3. CASE s = r
    BY <1>3, <2>1, <2>3 DEF RunsOf
  <2>4. CASE s # r
    BY <2>1, <2>2, <2>4 DEF OthersKept, Attends
  <2> QED BY <2>1, <2>3, <2>4
<1> QED BY <1>1, <1>2, <1>3 DEF IInv, RunsOf

LEMMA RequestsKept ==
  ASSUME IInv, NEW r \in Runs, OthersKept(r), request' = request, asked \subseteq asked',
         run[r] # "none" => run'[r] # "none"
  PROVE  \A q \in Requests : RequestSound(q)'
<1>1. \A s \in Runs : run[s] # "none" => run'[s] # "none"
  BY DEF OthersKept
<1>2. \A q \in Requests : request[q].todo \subseteq Runs
  BY DEF IInv, TypeOK
<1> QED BY <1>1, <1>2 DEF IInv, RequestSound

LEMMA Types ==
  ASSUME IInv, NEW r \in Runs
  PROVE  /\ run[r] \in Active \cup Terminal \cup Absent /\ task[r] \in Steps \cup {"none", "done"}
         /\ outcome[r] \in {"none", "completed", "interrupted", "failed", "cancelled"}
         /\ queued[r] \in 0..QueueSize /\ closed[r] \in BOOLEAN
         /\ ThreadOf[r] \in Threads
         /\ thread[ThreadOf[r]] \in {"absent", "idle", "busy", "interrupted"}
BY LifecycleAssumption DEF IInv, TypeOK

\* The two ways of a put.
LEMMA QueueTyped ==
  ASSUME IInv, NEW r \in Runs,
         \/ queued' = queued
         \/ Put(r)
         \/ queued[r] < QueueSize /\ queued' = [queued EXCEPT ![r] = @ + 1]
  PROVE  queued' \in [Runs -> 0..QueueSize]
<1>1. queued \in [Runs -> 0..QueueSize] /\ QueueSize \in Nat
  BY LifecycleAssumption DEF IInv, TypeOK
<1>2. \/ queued' = queued
      \/ queued[r] < QueueSize /\ queued' = [queued EXCEPT ![r] = queued[r] + 1]
  BY <1>1 DEF Put
<1>3. queued[r] < QueueSize => queued[r] + 1 \in 0..QueueSize
  BY <1>1
<1> QED BY <1>1, <1>2, <1>3

---------------------------------------------------------------------------
(* Creating a run.                                                         *)

LEMMA CheckSound ==
  ASSUME IInv, NEW r \in Runs, CheckResume(r) \/ CheckCreate(r)
  PROVE  IInv'
<1>1. /\ creator[r] = "none" /\ creator' = [creator EXCEPT ![r] = "checked"]
      /\ resuming' \subseteq resuming \cup {r}
      /\ UNCHANGED <<run, thread, task, outcome, tracked, queued, closed, request, asked, broken>>
  BY DEF CheckResume, CheckCreate, rows, tasks, broker, history
<1>2. TypeOK'
  BY <1>1 DEF IInv, TypeOK
<1>3. OthersKept(r) /\ creator'[r] = "checked"
  BY <1>1 DEF OthersKept, IInv, TypeOK
<1>4. RunSound(r)'
  BY <1>1, <1>3 DEF IInv, RunSound, Places, ActiveEnds, Attached, RowTold, Live, Inserted
<1>5. ThreadTold(r)' /\ (Attends(r) => Attends(r)')
  BY <1>1, <1>3 DEF IInv, RunSound, Places, ThreadTold, Attends, Inserted
<1> QED BY <1>1, <1>2, <1>3, <1>4, <1>5, RequestsKept, RunStepSound

LEMMA InsertSound ==
  ASSUME IInv, NEW r \in Runs, InsertRun(r) \/ InsertBatchRun(r)
  PROVE  IInv'
<1>1. /\ creator[r] \in {"none", "busy"}
      /\ UNCHANGED <<thread, resuming, task, outcome, tracked, queued, closed, request, asked,
                     broken>>
  BY DEF InsertRun, InsertBatchRun, tasks, broker, history
<1>2. \/ /\ thread[ThreadOf[r]] # "absent"
         /\ \E status \in {"pending", "streaming"} : run' = [run EXCEPT ![r] = status]
         /\ \/ /\ creator[r] = "none" /\ creator' = [creator EXCEPT ![r] = "batched"]
            \/ \E place \in Inserted : creator' = [creator EXCEPT ![r] = place]
      \/ /\ thread[ThreadOf[r]] = "absent"
         /\ creator' = [creator EXCEPT ![r] = "ended"] /\ run' = run
  BY DEF InsertRun, InsertBatchRun, Inserted
<1>3. TypeOK'
  BY <1>1, <1>2 DEF IInv, TypeOK, Active, Inserted
<1>4. OthersKept(r)
  BY <1>1, <1>2 DEF OthersKept, IInv, TypeOK
<1>5. \/ /\ run'[r] \in {"pending", "streaming"} /\ creator'[r] \in Inserted \cup {"batched"}
         /\ creator[r] = "none" \/ creator'[r] \in Inserted
         /\ thread[ThreadOf[r]] # "absent"
      \/ run'[r] = run[r] /\ creator'[r] = "ended" /\ thread[ThreadOf[r]] = "absent"
  BY <1>2 DEF IInv, TypeOK
<1>6. run[r] = "none" /\ task[r] = "none" /\ outcome[r] = "none"
  BY <1>1 DEF IInv, RunSound, Places, Early
<1>7. RunSound(r)'
  BY <1>1, <1>5, <1>6
  DEF RunSound, Places, ActiveEnds, Attached, RowTold, Live, Early, Ending, Inserted, Active, Absent
<1>8. ThreadTold(r)'
  BY <1>1, <1>6 DEF ThreadTold
<1>9. thread[ThreadOf[r]] = "busy" /\ Attends(r) => Attends(r)'
  BY <1>1, <1>5, <1>6 DEF Attends, Unfinished, Inserted
<1> QED BY <1>1, <1>3, <1>4, <1>5, <1>6, <1>7, <1>8, <1>9, RequestsKept, RunStepSound
    DEF Inserted

LEMMA CreateTaskSound ==
  ASSUME IInv, NEW r \in Runs, CreateTask(r)
  PROVE  IInv'
<1>1. /\ creator[r] \in Inserted
      /\ creator' = [creator EXCEPT ![r] = IF @ = "inserted" THEN "ended" ELSE "streaming"]
      /\ task' = [task EXCEPT ![r] = "created"] /\ tracked' = tracked \cup {r}
      /\ UNCHANGED <<run, thread, resuming, outcome, queued, closed, request, asked, broken>>
  BY DEF CreateTask, rows, broker, history
<1>2. TypeOK'
  BY <1>1 DEF IInv, TypeOK, Steps
<1>3. OthersKept(r) /\ creator'[r] \in {"ended", "streaming"} /\ task'[r] = "created"
  BY <1>1 DEF OthersKept, IInv, TypeOK
<1>4. run[r] # "none" /\ outcome[r] = "none"
  BY <1>1 DEF IInv, RunSound, Places, Early, Inserted
<1>5. Places(r)
  BY DEF IInv, RunSound
<1>6. RunSound(r)'
  BY <1>1, <1>3, <1>4, <1>5
  DEF RunSound, Places, ActiveEnds, Attached, RowTold, Live, Early, Ending, Inserted, Unfinished
<1>7. ThreadTold(r)' /\ Attends(r)'
  BY <1>3 DEF ThreadTold, Attends, Unfinished
<1> QED BY <1>1, <1>2, <1>3, <1>6, <1>7, RequestsKept, RunStepSound

LEMMA CreateErrorSound ==
  ASSUME IInv, NEW r \in Runs, CreateError(r)
  PROVE  IInv'
<1>1. /\ creator[r] \in {"busy", "batched"} /\ creator' = [creator EXCEPT ![r] = "ended"]
      /\ broken' = broken \cup {r}
      /\ UNCHANGED <<run, thread, resuming, task, outcome, tracked, queued, closed, request, asked>>
  BY DEF CreateError, rows, tasks, broker
<1>2. TypeOK'
  BY <1>1 DEF IInv, TypeOK
<1>3. OthersKept(r) /\ creator'[r] = "ended" /\ r \in broken'
  BY <1>1 DEF OthersKept, IInv, TypeOK
<1>4. RunSound(r)'
  BY <1>1, <1>3 DEF IInv, RunSound, Places, ActiveEnds, Attached, RowTold, Live, Inserted
<1>5. ThreadTold(r)' /\ Attends(r)'
  BY <1>3 DEF ThreadTold, Attends
<1> QED BY <1>1, <1>2, <1>3, <1>4, <1>5, RequestsKept, RunStepSound

---------------------------------------------------------------------------
(* The task of a run.                                                      *)

LEMMA TaskMoves ==
  ASSUME IInv, NEW r \in Runs,
         Start(r) \/ SetRunning(r) \/ EmitEvent(r) \/ ResumePut(r) \/ EndGraph(r)
  PROVE  IInv'
<1>1. UNCHANGED <<thread, creator, resuming, tracked, closed, request, asked, broken>>
  BY DEF Start, SetRunning, EmitEvent, ResumePut, EndGraph, rows, creation, broker, history
<1>2. /\ task[r] \in {"created", "begin", "exec", "put"}
      /\ \/ run' = run
         \/ run' = [run EXCEPT ![r] = IF @ \in Absent THEN @ ELSE "running"]
      /\ \/ /\ outcome' = outcome
            /\ task' = task \/ \E next \in {"begin", "exec", "put"} : task' = [task EXCEPT ![r] = next]
         \/ /\ task' = [task EXCEPT ![r] = "writeRun"]
            /\ \E how \in Terminal : outcome' = [outcome EXCEPT ![r] = how]
  BY DEF Start, SetRunning, EmitEvent, ResumePut, EndGraph, rows, UpdateRun, Terminal
<1>3. queued' \in [Runs -> 0..QueueSize]
  <2>1. queued' = queued \/ Put(r) \/ (queued[r] < QueueSize /\ queued' = [queued EXCEPT ![r] = @ + 1])
    BY DEF Start, SetRunning, EmitEvent, ResumePut, EndGraph, broker
  <2> QED BY <2>1, QueueTyped
<1>4. TypeOK'
  BY <1>1, <1>2, <1>3 DEF IInv, TypeOK, Steps, Active, Terminal, Absent
<1>5. OthersKept(r)
  BY <1>1, <1>2 DEF OthersKept, IInv, TypeOK
<1>6. /\ task'[r] \in {"created", "begin", "exec", "put", "writeRun"}
      /\ task'[r] # "writeRun" => outcome'[r] = outcome[r]
      /\ task'[r] = "writeRun" => outcome'[r] # "none"
      /\ run'[r] = run[r] \/ (run'[r] = "running" /\ run[r] \notin Absent)
  BY <1>2 DEF IInv, TypeOK, Terminal
<1>7. Places(r) /\ Attached(r) /\ outcome[r] = "none"
  BY <1>2 DEF IInv, RunSound, Places, Early
<1>8. RunSound(r)'
  BY <1>1, <1>2, <1>6, <1>7
  DEF RunSound, Places, ActiveEnds, Attached, RowTold, Live, Early, Ending, Unfinished, Inserted, Absent
<1>9. ThreadTold(r)' /\ Attends(r)'
  BY <1>6 DEF ThreadTold, Attends, Unfinished
<1> QED BY <1>1, <1>4, <1>5, <1>6, <1>8, <1>9, RequestsKept, RunStepSound

LEMMA WriteRunSound ==
  ASSUME IInv, NEW r \in Runs, WriteRunStatus(r)
  PROVE  IInv'
<1>1. /\ task[r] = "writeRun" /\ task' = [task EXCEPT ![r] = "writeThread"]
      /\ run' = [run EXCEPT ![r] = IF @ \in Absent THEN @ ELSE outcome[r]]
      /\ UNCHANGED <<thread, creator, resuming, outcome, tracked, queued, closed, request, asked,
                     broken>>
  BY DEF WriteRunStatus, UpdateRun, creation, broker, history
<1>2. outcome[r] \in Terminal
  BY <1>1, Types DEF IInv, RunSound, Places, Ending, Terminal
<1>3. TypeOK'
  BY <1>1, <1>2 DEF IInv, TypeOK, Steps
<1>4. OthersKept(r) /\ task'[r] = "writeThread"
  BY <1>1 DEF OthersKept, IInv, TypeOK
<1>5. \/ run[r] \in Absent /\ run'[r] = run[r]
      \/ run[r] \notin Absent /\ run'[r] = outcome[r]
  BY <1>1 DEF IInv, TypeOK
<1>6. Places(r) /\ Attached(r)
  BY DEF IInv, RunSound
<1>7. RunSound(r)'
  BY <1>1, <1>2, <1>4, <1>5, <1>6
  DEF RunSound, Places, ActiveEnds, Attached, RowTold, Live, Early, Ending, Inserted, Active,
      Terminal, Absent
<1>8. ThreadTold(r)' /\ Attends(r)'
  BY <1>4 DEF ThreadTold, Attends, Unfinished
<1> QED BY <1>1, <1>2, <1>3, <1>4, <1>5, <1>7, <1>8, RequestsKept, RunStepSound DEF Terminal

LEMMA SignalEndSound ==
  ASSUME IInv, NEW r \in Runs, SignalEnd(r) \/ ResumeSignalEnd(r)
  PROVE  IInv'
<1>1. /\ task[r] \in {"signal", "signalPut"}
      /\ \E next \in {"signalPut", "cleanup"} : task' = [task EXCEPT ![r] = next]
      /\ closed' = closed \/ closed' = [closed EXCEPT ![r] = TRUE]
      /\ UNCHANGED <<run, thread, creator, resuming, outcome, tracked, request, asked, broken>>
  BY DEF SignalEnd, ResumeSignalEnd, Close, rows, creation, broker, history
<1>2. queued' \in [Runs -> 0..QueueSize]
  <2>1. queued' = queued \/ Put(r) \/ (queued[r] < QueueSize /\ queued' = [queued EXCEPT ![r] = @ + 1])
    BY DEF SignalEnd, ResumeSignalEnd, broker
  <2> QED BY <2>1, QueueTyped
<1>3. TypeOK'
  <2>1. closed' \in [Runs -> BOOLEAN]
    BY <1>1 DEF IInv, TypeOK
  <2>2. task' \in [Runs -> Steps \cup {"none", "done"}]
    BY <1>1 DEF IInv, TypeOK, Steps
  <2> QED BY <1>1, <1>2, <2>1, <2>2 DEF IInv, TypeOK
<1>4. OthersKept(r) /\ task'[r] \in {"signalPut", "cleanup"}
  BY <1>1 DEF OthersKept, IInv, TypeOK
<1>5. RunSound(r)'
  BY <1>1, <1>4
  DEF IInv, RunSound, Places, ActiveEnds, Attached, RowTold, Live, Early, Ending, Unfinished
<1>6. ThreadTold(r)' /\ (Attends(r) => Attends(r)')
  BY <1>1, <1>4 DEF IInv, ThreadTold, Alone, Attends, Unfinished
<1> QED BY <1>1, <1>3, <1>4, <1>5, <1>6, RequestsKept, RunStepSound

LEMMA CleanUpSound ==
  ASSUME IInv, NEW r \in Runs, CleanUp(r)
  PROVE  IInv'
<1>1. /\ task[r] = "cleanup" /\ task' = [task EXCEPT ![r] = "done"]
      /\ closed' = [closed EXCEPT ![r] = TRUE] /\ tracked' = tracked \ {r}
      /\ UNCHANGED <<run, thread, creator, resuming, outcome, queued, request, asked, broken>>
  BY DEF CleanUp, Close, rows, creation, history
<1>2. TypeOK'
  BY <1>1 DEF IInv, TypeOK, Steps
<1>3. OthersKept(r) /\ task'[r] = "done" /\ r \notin tracked'
  BY <1>1 DEF OthersKept, IInv, TypeOK
<1>4. RunSound(r)'
  BY <1>1, <1>3
  DEF IInv, RunSound, Places, ActiveEnds, Attached, RowTold, Live, Early, Ending, Unfinished
<1>5. ThreadTold(r)' /\ (Attends(r) => Attends(r)')
  BY <1>1, <1>3 DEF IInv, ThreadTold, Alone, Attends, Unfinished
<1> QED BY <1>1, <1>2, <1>3, <1>4, <1>5, RequestsKept, RunStepSound

LEMMA ReadStreamSound ==
  ASSUME IInv, NEW r \in Runs, ReadStream(r)
  PROVE  IInv'
<1>1. /\ queued[r] > 0 /\ queued' = [queued EXCEPT ![r] = @ - 1]
      /\ UNCHANGED <<run, thread, creator, resuming, task, outcome, tracked, closed, request,
                     asked, broken>>
  BY DEF ReadStream, rows, creation, tasks, history
<1>2. TypeOK'
  BY <1>1, Types, LifecycleAssumption DEF IInv, TypeOK
<1>3. OthersKept(r)
  BY <1>1 DEF OthersKept
<1>4. RunSound(r)'
  BY <1>1 DEF IInv, RunSound, Places, ActiveEnds, Attached, RowTold, Live
<1>5. ThreadTold(r)' /\ (Attends(r) => Attends(r)')
  BY <1>1 DEF IInv, ThreadTold, Alone, Attends
<1> QED BY <1>1, <1>2, <1>3, <1>4, <1>5, RequestsKept, RunStepSound

---------------------------------------------------------------------------
(* Cancelling a task, from outside or by an error.                         *)

\* What task.cancel() and a failing statement have in common: inside the try
\* block the task writes the statuses of its new end, elsewhere it is cut short.
Interrupted(r, how) ==
  \/ /\ InTry(r)
     /\ task' = [task EXCEPT ![r] = "writeRun"] /\ outcome' = [outcome EXCEPT ![r] = how]
     /\ broken' = broken
  \/ /\ Live(r) /\ ~InTry(r)
     /\ \E next \in {"done", "cleanup"} : task' = [task EXCEPT ![r] = next]
     /\ task[r] = "created" => task'[r] = "done"
     /\ outcome' = outcome /\ broken' = broken \cup {r}
  \/ ~Live(r) /\ UNCHANGED <<task, outcome, broken>>

LEMMA CancelInterrupts ==
  ASSUME IInv, NEW r \in Runs, CancelTask(r)
  PROVE  Interrupted(r, "cancelled")
BY DEF CancelTask, Interrupted, IInv, TypeOK

LEMMA InterruptedSound ==
  ASSUME IInv, NEW r \in Runs, NEW how \in {"failed", "cancelled"}, Interrupted(r, how),
         UNCHANGED <<run, thread>>, OthersKept(r), asked \subseteq asked',
         creator'[r] = creator[r] \/ (creator[r] = "streaming" /\ creator'[r] = "ended"),
         tracked' = tracked \/ tracked' = tracked \ {r}
  PROVE  /\ RunSound(r)' /\ ThreadTold(r)' /\ (Attends(r) => Attends(r)')
         /\ task' \in [Runs -> Steps \cup {"none", "done"}]
         /\ outcome' \in [Runs -> {"none", "completed", "interrupted", "failed", "cancelled"}]
         /\ broken' \subseteq Runs
<1>1. /\ task \in [Runs -> Steps \cup {"none", "done"}] /\ broken \subseteq Runs
      /\ outcome \in [Runs -> {"none", "completed", "interrupted", "failed", "cancelled"}]
  BY DEF IInv, TypeOK
<1>2. RunSound(r) /\ ThreadTold(r)
  BY DEF IInv
<1>3. Alone(r)' = Alone(r)
  BY DEF Alone, OthersKept, RunsOf
<1>4. ASSUME InTry(r), task' = [task EXCEPT ![r] = "writeRun"],
             outcome' = [outcome EXCEPT ![r] = how], broken' = broken
      PROVE  /\ RunSound(r)' /\ ThreadTold(r)' /\ Attends(r)'
             /\ task' \in [Runs -> Steps \cup {"none", "done"}]
             /\ outcome' \in [Runs -> {"none", "completed", "interrupted", "failed", "cancelled"}]
             /\ broken' \subseteq Runs
  <2>1. task'[r] = "writeRun" /\ outcome'[r] = how /\ task[r] \in Steps \ {"created"}
    BY <1>1, <1>4 DEF InTry, Steps
  <2>2. /\ task' \in [Runs -> Steps \cup {"none", "done"}]
        /\ outcome' \in [Runs -> {"none", "completed", "interrupted", "failed", "cancelled"}]
    BY <1>1, <1>4 DEF Steps
  <2>3. RunSound(r)'
    BY <1>2, <1>4, <2>1
    DEF RunSound, Places, ActiveEnds, Attached, RowTold, Live, Early, Ending, Unfinished, Inserted,
        Steps
  <2>4. ThreadTold(r)' /\ Attends(r)'
    BY <2>1 DEF ThreadTold, Attends, Unfinished
  <2> QED BY <1>1, <1>4, <2>2, <2>3, <2>4
<1>5. ASSUME Live(r), ~InTry(r), outcome' = outcome, broken' = broken \cup {r},
             task[r] = "created" => task'[r] = "done",
             \E next \in {"done", "cleanup"} : task' = [task EXCEPT ![r] = next]
      PROVE  /\ RunSound(r)' /\ ThreadTold(r)' /\ Attends(r)'
             /\ task' \in [Runs -> Steps \cup {"none", "done"}]
             /\ broken' \subseteq Runs
  <2>1. task'[r] \in {"done", "cleanup"} /\ r \in broken' /\ task[r] \in Steps
    BY <1>1, <1>5 DEF Live
  <2>2. task' \in [Runs -> Steps \cup {"none", "done"}] /\ broken' \subseteq Runs
    BY <1>1, <1>5 DEF Steps
  <2>3. outcome[r] = "none" => task[r] = "created"
    BY <1>2, <1>5, <2>1 DEF InTry, RunSound, Places, Ending, Steps
  <2>4. task'[r] = "cleanup" => outcome[r] # "none"
    BY <1>5, <2>3
  <2>5. RunSound(r)'
    BY <1>2, <1>5, <2>1, <2>4
    DEF RunSound, Places, ActiveEnds, Attached, RowTold, Live, Early, Ending, Unfinished, Inserted,
        Steps
  <2>6. ThreadTold(r)' /\ Attends(r)'
    BY <2>1 DEF ThreadTold, Attends
  <2> QED BY <2>2, <2>5, <2>6
<1>6. ASSUME ~Live(r), UNCHANGED <<task, outcome, broken>>
      PROVE  RunSound(r)' /\ ThreadTold(r)' /\ (Attends(r) => Attends(r)')
  <2>1. RunSound(r)'
    BY <1>2, <1>6
    DEF RunSound, Places, ActiveEnds, Attached, RowTold, Live, Inserted
  <2>2. ThreadTold(r)' /\ (Attends(r) => Attends(r)')
    BY <1>2, <1>3, <1>6 DEF ThreadTold, Attends, Inserted
  <2> QED BY <2>1, <2>2
<1> QED BY <1>1, <1>4, <1>5, <1>6 DEF Interrupted

LEMMA TaskErrorSound ==
  ASSUME IInv, NEW r \in Runs, TaskError(r)
  PROVE  IInv'
<1>1. UNCHANGED <<run, thread, creator, resuming, tracked, queued, closed, request, asked>>
  BY DEF TaskError, rows, creation, broker
<1>2. Interrupted(r, "failed")
  BY DEF TaskError, Interrupted, Live, InTry, IInv, TypeOK
<1>3. OthersKept(r)
  BY <1>1, <1>2 DEF OthersKept, Interrupted, IInv, TypeOK
<1>4. /\ RunSound(r)' /\ ThreadTold(r)' /\ (Attends(r) => Attends(r)')
      /\ task' \in [Runs -> Steps \cup {"none", "done"}]
      /\ outcome' \in [Runs -> {"none", "completed", "interrupted", "failed", "cancelled"}]
      /\ broken' \subseteq Runs
  BY <1>1, <1>2, <1>3, InterruptedSound
<1>5. TypeOK'
  BY <1>1, <1>4 DEF IInv, TypeOK
<1> QED BY <1>1, <1>3, <1>4, <1>5, RequestsKept, RunStepSound

LEMMA StreamDisconnectSound ==
  ASSUME IInv, NEW r \in Runs, StreamDisconnect(r)
  PROVE  IInv'
<1>1. /\ creator[r] = "streaming" /\ creator' = [creator EXCEPT ![r] = "ended"]
      /\ UNCHANGED <<run, thread, resuming, tracked, queued, closed, request>>
      /\ asked' = asked \/ asked' = asked \cup {r}
  BY DEF StreamDisconnect, rows, broker, history
<1>2. creator'[r] = "ended" /\ TypeOK
  BY <1>1 DEF IInv, TypeOK
<1>3. CASE UNCHANGED <<task, outcome, history>>
  <2>1. TypeOK'
    BY <1>1, <1>2, <1>3 DEF TypeOK, history
  <2>2. OthersKept(r)
    BY <1>1, <1>2, <1>3 DEF OthersKept, TypeOK, history
  <2>3. RunSound(r)'
    BY <1>1, <1>2, <1>3
    DEF IInv, RunSound, Places, ActiveEnds, Attached, RowTold, Live, Inserted, history
  <2>4. ThreadTold(r)' /\ (Attends(r) => Attends(r)')
    BY <1>1, <1>2, <1>3, <2>2
    DEF IInv, ThreadTold, Alone, RunsOf, OthersKept, Attends, Inserted, history
  <2> QED BY <1>1, <1>2, <2>1, <2>2, <2>3, <2>4, RequestsKept, RunStepSound
<1>4. CASE CancelTask(r)
  <2>1. Interrupted(r, "cancelled")
    BY <1>4, CancelInterrupts
  <2>2. OthersKept(r)
    BY <1>1, <2>1 DEF OthersKept, Interrupted, IInv, TypeOK
  <2>3. /\ RunSound(r)' /\ ThreadTold(r)' /\ (Attends(r) => Attends(r)')
        /\ task' \in [Runs -> Steps \cup {"none", "done"}]
        /\ outcome' \in [Runs -> {"none", "completed", "interrupted", "failed", "cancelled"}]
        /\ broken' \subseteq Runs
    BY <1>1, <1>2, <2>1, <2>2, InterruptedSound
  <2>4. TypeOK'
    BY <1>1, <1>2, <2>3 DEF TypeOK
  <2> QED BY <1>1, <1>2, <2>2, <2>3, <2>4, RequestsKept, RunStepSound
<1> QED BY <1>3, <1>4 DEF StreamDisconnect

---------------------------------------------------------------------------
(* The requests.                                                           *)

RequestKinds == {"none", "cancel", "interrupt", "join", "delete", "deleteThread"}
Points == {"idle", "signal", "signalPut", "status", "status2", "await", "waiting", "cancelling",
           "remove", "pop", "next", "done"}
RequestRecords == [kind : RequestKinds, run : Runs \cup {NoRun}, thread : Threads \cup {NoThread},
                   pc : Points, todo : SUBSET Runs]

LEMMA RequestTypes ==
  ASSUME IInv
  PROVE  /\ request \in [Requests -> RequestRecords]
         /\ \A q \in Requests : /\ request[q] \in RequestRecords
                                /\ request[q].pc \in OnARun => request[q].run \in Runs
<1>1. request \in [Requests -> RequestRecords]
  BY DEF IInv, TypeOK, RequestRecords, RequestKinds, Points
<1>2. \A q \in Requests : request[q].pc \in OnARun => request[q].run \in Runs
  BY DEF IInv, RequestSound
<1> QED BY <1>1, <1>2

LEMMA RecordMoves ==
  ASSUME NEW c \in RequestRecords, NEW pc \in Points
  PROVE  /\ [c EXCEPT !.pc = pc] \in RequestRecords
         /\ [c EXCEPT !.pc = pc].pc = pc /\ [c EXCEPT !.pc = pc].run = c.run
         /\ [c EXCEPT !.pc = pc].todo = c.todo
BY DEF RequestRecords

\* A request gets a new record.
LEMMA RecordSound ==
  ASSUME IInv, NEW q \in Requests, NEW new \in RequestRecords,
         request' = [request EXCEPT ![q] = new], asked \subseteq asked',
         \A s \in Runs : run[s] # "none" => run'[s] # "none",
         new.pc \in OnARun => new.run \in Runs /\ run'[new.run] # "none",
         new.pc \in Aiming => new.run \in asked',
         \A s \in new.todo : s \in asked' /\ run'[s] # "none"
  PROVE  request' \in [Requests -> RequestRecords] /\ \A p \in Requests : RequestSound(p)'
<1>1. request' \in [Requests -> RequestRecords] /\ request'[q] = new
  BY RequestTypes
<1>2. \A p \in Requests \ {q} : request'[p] = request[p]
  BY RequestTypes
<1>3. \A p \in Requests : RequestSound(p) /\ request[p].todo \subseteq Runs
  BY DEF IInv, TypeOK
<1>4. ASSUME NEW p \in Requests PROVE RequestSound(p)'
  <2>1. CASE p = q
    BY <1>1, <2>1 DEF RequestSound
  <2>2. CASE p # q
    BY <1>2, <1>3, <2>2 DEF RequestSound
  <2> QED BY <2>1, <2>2
<1> QED BY <1>1, <1>4

\* A request that goes on: its run stays the same.
LEMMA GotoSound ==
  ASSUME IInv, NEW q \in Requests, NEW pc \in Points, Goto(q, pc), asked \subseteq asked',
         pc \in OnARun => request[q].pc \in OnARun,
         pc \in Aiming => request[q].pc \in Aiming,
         \A s \in Runs : run[s] # "none" => run'[s] # "none"
  PROVE  request' \in [Requests -> RequestRecords] /\ \A p \in Requests : RequestSound(p)'
<1> DEFINE new == [request[q] EXCEPT !.pc = pc]
<1>1. request' = [request EXCEPT ![q] = new]
  BY DEF Goto
<1>2. /\ new \in RequestRecords /\ new.pc = pc /\ new.run = request[q].run
      /\ new.todo = request[q].todo
  BY RequestTypes, RecordMoves
<1>3. RequestSound(q) /\ request[q].todo \subseteq Runs
  BY DEF IInv, TypeOK
<1> HIDE DEF new
<1>4. /\ new.pc \in OnARun => new.run \in Runs /\ run'[new.run] # "none"
      /\ new.pc \in Aiming => new.run \in asked'
      /\ \A s \in new.todo : s \in asked' /\ run'[s] # "none"
  BY <1>2, <1>3 DEF RequestSound
<1>5. \A n \in RequestRecords :
        /\ request' = [request EXCEPT ![q] = n]
        /\ n.pc \in OnARun => n.run \in Runs /\ run'[n.run] # "none"
        /\ n.pc \in Aiming => n.run \in asked'
        /\ \A s \in n.todo : s \in asked' /\ run'[s] # "none"
        => request' \in [Requests -> RequestRecords] /\ \A p \in Requests : RequestSound(p)'
  BY RecordSound
<1> QED BY <1>1, <1>2, <1>4, <1>5

\* A step of a request that touches rows of runs only: it marks runs it was asked
\* to mark, or deletes them.
LEMMA MarkSound ==
  ASSUME IInv, TypeOK', UNCHANGED <<thread, creator, task, outcome, tracked, broken>>,
         asked \subseteq asked',
         \A s \in Runs : \/ run'[s] = run[s]
                         \/ s \in asked' /\ run[s] \notin Absent /\ run'[s] \in Terminal
                         \/ run[s] # "none" /\ run'[s] = "deleted",
         \A q \in Requests : RequestSound(q)'
  PROVE  IInv'
<1>1. ASSUME NEW r \in Runs PROVE RunSound(r)'
  <2>1. RunSound(r) /\ ThreadOf[r] \in Threads
    BY LifecycleAssumption DEF IInv
  <2>2. CASE run'[r] = run[r]
    BY <2>1, <2>2 DEF RunSound, Places, ActiveEnds, Attached, RowTold, Live
  <2>3. CASE r \in asked' /\ run[r] \notin Absent /\ run'[r] \in Terminal
    BY <2>1, <2>3
    DEF RunSound, Places, ActiveEnds, Attached, RowTold, Live, Absent, Active, Terminal
  <2>4. CASE run[r] # "none" /\ run'[r] = "deleted"
    BY <2>1, <2>4
    DEF RunSound, Places, ActiveEnds, Attached, RowTold, Live, Absent, Active
  <2> QED BY <2>2, <2>3, <2>4
<1>2. ASSUME NEW r \in Runs PROVE ThreadTold(r)'
  BY DEF IInv, ThreadTold, Alone, RunsOf
<1>3. ASSUME NEW t \in Threads, thread'[t] = "busy" PROVE \E s \in RunsOf(t) : Attends(s)'
  BY <1>3 DEF IInv, RunsOf, Attends
<1> QED BY <1>1, <1>2, <1>3 DEF IInv, RunsOf

\* A request that arrives.
LEMMA ArriveSound ==
  ASSUME IInv, NEW q \in Requests, Arrive(q)
  PROVE  IInv'
<1>1. UNCHANGED <<run, thread, creator, resuming, task, outcome, tracked, queued, closed, broken>>
  BY DEF Arrive, CancelRequest, JoinRequest, DeleteRequest, DeleteThreadRequest, rows, creation,
     tasks, broker, history
<1>2. ASSUME NEW kind \in RequestKinds, NEW r \in Runs, run[r] \notin Absent, NEW pc \in Points,
             request' = [request EXCEPT ![q] = At(kind, r, pc)],
             asked \subseteq asked', asked' \subseteq Runs, pc \in Aiming => r \in asked'
      PROVE  IInv'
  <2> DEFINE new == At(kind, r, pc)
  <2>1. new.run = r /\ new.pc = pc /\ new.todo = {}
    BY DEF At, Idle
  <2>2. new \in RequestRecords
    BY DEF At, Idle, RequestRecords, RequestKinds, Points
  <2>3. run'[r] # "none"
    BY <1>1, <1>2 DEF Absent
  <2> HIDE DEF new
  <2>4. request' = [request EXCEPT ![q] = new]
    BY <1>2 DEF new
  <2>5. request' \in [Requests -> RequestRecords] /\ \A p \in Requests : RequestSound(p)'
    BY <1>1, <1>2, <2>1, <2>2, <2>3, <2>4, RecordSound
  <2>6. TypeOK'
    BY <1>1, <1>2, <2>5 DEF IInv, TypeOK, RequestRecords, RequestKinds, Points
  <2> QED BY <1>1, <1>2, <2>5, <2>6, MarkSound
<1>3. CASE CancelRequest(q)
  <2>1. PICK r \in Runs, kind \in {"cancel", "interrupt"} :
          /\ run[r] \notin Absent /\ asked' = asked \cup {r}
          /\ request' = [request EXCEPT ![q] = At(kind, r, "signal")]
    BY <1>3 DEF CancelRequest
  <2>2. asked' \subseteq Runs
    BY <2>1 DEF IInv, TypeOK
  <2> QED BY <1>2, <2>1, <2>2 DEF RequestKinds, Points
<1>4. CASE JoinRequest(q)
  <2>1. PICK r \in Runs, over \in {Terminal, Terminal \ {"interrupted"}} :
          /\ run[r] \notin Absent
          /\ request' = [request EXCEPT ![q] =
               At("join", r, IF run[r] \notin over /\ r \in tracked /\ Live(r)
                             THEN "waiting" ELSE "done")]
    BY <1>4 DEF JoinRequest
  <2>2. asked' = asked /\ asked \subseteq Runs
    BY <1>4 DEF JoinRequest, history, IInv, TypeOK
  <2>3. \E pc \in {"waiting", "done"} : request' = [request EXCEPT ![q] = At("join", r, pc)]
    BY <2>1
  <2> QED BY <1>2, <2>1, <2>2, <2>3 DEF RequestKinds, Points, Aiming
<1>5. CASE DeleteRequest(q)
  <2>1. PICK r \in Runs :
          /\ run[r] \notin Absent /\ asked' = asked \cup {r}
          /\ request' = [request EXCEPT ![q] =
               At("delete", r, IF run[r] \in Active THEN "signal" ELSE "remove")]
    BY <1>5 DEF DeleteRequest
  <2>2. asked' \subseteq Runs
    BY <2>1 DEF IInv, TypeOK
  <2>3. \E pc \in {"signal", "remove"} : request' = [request EXCEPT ![q] = At("delete", r, pc)]
    BY <2>1
  <2> QED BY <1>2, <2>1, <2>2, <2>3 DEF RequestKinds, Points, Aiming
<1>6. CASE DeleteThreadRequest(q)
  <2>1. PICK t \in Threads :
          LET active == {r \in RunsOf(t) : run[r] \in Active} IN
          /\ request' = [request EXCEPT ![q] =
               [At("deleteThread", NoRun, "next") EXCEPT !.thread = t, !.todo = active]]
          /\ asked' = asked \cup active
    BY <1>6 DEF DeleteThreadRequest
  <2> DEFINE active == {r \in RunsOf(t) : run[r] \in Active}
             new == [At("deleteThread", NoRun, "next") EXCEPT !.thread = t, !.todo = active]
  <2>2. new.pc = "next" /\ new.todo = active
    BY DEF At, Idle
  <2>3. active \subseteq Runs /\ \A s \in active : run[s] # "none"
    BY DEF RunsOf, Active
  <2>4. asked' = asked \cup active /\ request' = [request EXCEPT ![q] = new]
    BY <2>1
  <2> HIDE DEF active
  <2>5. new \in RequestRecords
    BY <2>3 DEF At, Idle, RequestRecords, RequestKinds, Points
  <2> HIDE DEF new
  <2>6. request' \in [Requests -> RequestRecords] /\ \A p \in Requests : RequestSound(p)'
    BY <1>1, <2>2, <2>3, <2>4, <2>5, RecordSound DEF OnARun, Aiming
  <2>7. asked' \subseteq Runs
    BY <2>3, <2>4 DEF IInv, TypeOK
  <2>8. TypeOK'
    BY <1>1, <2>6, <2>7 DEF IInv, TypeOK, RequestRecords, RequestKinds, Points
  <2> QED BY <1>1, <2>4, <2>6, <2>8, MarkSound
<1> QED BY <1>3, <1>4, <1>5, <1>6 DEF Arrive
\* A request that goes on and leaves the tasks alone.
LEMMA GoesOnSound ==
  ASSUME IInv, NEW q \in Requests, NEW pc \in Points, Goto(q, pc),
         UNCHANGED <<thread, creator, resuming, task, outcome, tracked, asked, broken>>,
         queued' \in [Runs -> 0..QueueSize], closed' \in [Runs -> BOOLEAN],
         pc \in OnARun => request[q].pc \in OnARun,
         pc \in Aiming => request[q].pc \in Aiming,
         run' \in [Runs -> Active \cup Terminal \cup Absent],
         \A s \in Runs : \/ run'[s] = run[s]
                         \/ s \in asked /\ run[s] \notin Absent /\ run'[s] \in Terminal
                         \/ run[s] # "none" /\ run'[s] = "deleted"
  PROVE  IInv'
<1>1. \A s \in Runs : run[s] # "none" => run'[s] # "none"
  BY DEF Terminal
<1>2. request' \in [Requests -> RequestRecords] /\ \A p \in Requests : RequestSound(p)'
  BY <1>1, GotoSound
<1>3. TypeOK'
  BY <1>2 DEF IInv, TypeOK, RequestRecords, RequestKinds, Points
<1> QED BY <1>2, <1>3, MarkSound

LEMMA SignalSound ==
  ASSUME IInv, NEW q \in Requests, Signal(q) \/ ResumeSignal(q)
  PROVE  IInv'
<1>1. /\ request[q].pc \in {"signal", "signalPut"}
      /\ UNCHANGED <<run, thread, creator, resuming, task, outcome, tracked, asked, broken>>
  BY DEF Signal, ResumeSignal, rows, creation, tasks, history
<1>2. PICK r \in Runs : r = request[q].run
  BY <1>1, RequestTypes DEF OnARun, Aiming
<1>3. \/ queued' = queued
      \/ Put(r)
      \/ queued[r] < QueueSize /\ queued' = [queued EXCEPT ![r] = @ + 1]
  BY <1>2 DEF Signal, ResumeSignal, broker
<1>4. closed' = closed \/ closed' = [closed EXCEPT ![r] = TRUE]
  BY <1>2 DEF Signal, ResumeSignal, broker, Close
<1>5. queued' \in [Runs -> 0..QueueSize] /\ closed' \in [Runs -> BOOLEAN]
  <2>1. queued' \in [Runs -> 0..QueueSize]
    BY <1>3, QueueTyped
  <2>2. closed' \in [Runs -> BOOLEAN]
    BY <1>4 DEF IInv, TypeOK
  <2> QED BY <2>1, <2>2
<1>6. run \in [Runs -> Active \cup Terminal \cup Absent]
  BY DEF IInv, TypeOK
<1>7. PICK pc \in {"status", "signalPut"} : Goto(q, pc)
  BY DEF Signal, ResumeSignal
<1>8. pc \in Points /\ request[q].pc \in OnARun /\ request[q].pc \in Aiming
  BY <1>1 DEF Points, OnARun, Aiming
<1> QED BY <1>1, <1>5, <1>6, <1>7, <1>8, GoesOnSound

LEMMA WriteSound ==
  ASSUME IInv, NEW q \in Requests, WriteStatus(q) \/ WriteStatusAgain(q)
  PROVE  IInv'
<1>1. /\ request[q].pc \in {"status", "status2"}
      /\ UNCHANGED <<thread, creator, resuming, task, outcome, tracked, queued, closed, asked,
                     broken>>
  BY DEF WriteStatus, WriteStatusAgain, creation, tasks, broker, history
<1>2. PICK r \in Runs : r = request[q].run
  BY <1>1, RequestTypes DEF OnARun, Aiming
<1>3. r \in asked
  BY <1>1, <1>2 DEF IInv, RequestSound, Aiming
<1>4. \/ run' = run
      \/ \E mark \in Terminal : run' = [run EXCEPT ![r] = IF @ \in Absent THEN @ ELSE mark]
  BY <1>2 DEF WriteStatus, WriteStatusAgain, UpdateRun, Mark, Terminal
<1>5. /\ run' \in [Runs -> Active \cup Terminal \cup Absent]
      /\ \A s \in Runs : \/ run'[s] = run[s]
                         \/ s \in asked /\ run[s] \notin Absent /\ run'[s] \in Terminal
  BY <1>3, <1>4 DEF IInv, TypeOK
<1>6. \E pc \in {"await", "pop", "status2", "done"} : Goto(q, pc)
  BY DEF WriteStatus, WriteStatusAgain
<1>7. PICK pc \in {"await", "pop", "status2", "done"} : Goto(q, pc)
  BY <1>6
<1>8. pc \in Points /\ request[q].pc \in OnARun /\ request[q].pc \in Aiming
  BY <1>1 DEF Points, OnARun, Aiming
<1>9. queued' \in [Runs -> 0..QueueSize] /\ closed' \in [Runs -> BOOLEAN]
  BY <1>1 DEF IInv, TypeOK
<1> QED BY <1>1, <1>5, <1>7, <1>8, <1>9, GoesOnSound

LEMMA AwaitSound ==
  ASSUME IInv, NEW q \in Requests,
         AwaitTask(q) \/ TaskEnded(q) \/ RemoveRow(q) \/ RequestError(q)
  PROVE  IInv'
<1>1. UNCHANGED <<thread, creator, resuming, task, outcome, tracked, queued, closed, asked, broken>>
  BY DEF AwaitTask, TaskEnded, RemoveRow, RequestError, rows, creation, tasks, broker, history
<1>2. /\ run' \in [Runs -> Active \cup Terminal \cup Absent]
      /\ \A s \in Runs : run'[s] = run[s] \/ (run[s] # "none" /\ run'[s] = "deleted")
  <2>1. CASE run' = run
    BY <2>1 DEF IInv, TypeOK
  <2>2. CASE RemoveRow(q)
    <3>1. request[q].run \in Runs /\ run[request[q].run] # "none"
      BY <2>2 DEF RemoveRow, IInv, RequestSound, OnARun
    <3>2. run' = [run EXCEPT ![request[q].run] = "deleted"]
      BY <2>2 DEF RemoveRow
    <3> QED BY <3>1, <3>2 DEF IInv, TypeOK, Absent
  <2> QED BY <2>1, <2>2 DEF AwaitTask, TaskEnded, RequestError, rows
<1>3. PICK pc \in {"waiting", "remove", "next", "done", "pop"} :
        Goto(q, pc) /\ (pc \in OnARun => request[q].pc \in OnARun)
  BY DEF AwaitTask, TaskEnded, RemoveRow, RequestError, AfterTask, OnARun, Aiming
<1>4. pc \in Points /\ pc \notin Aiming
  BY DEF Points, Aiming
<1>5. queued' \in [Runs -> 0..QueueSize] /\ closed' \in [Runs -> BOOLEAN]
  BY <1>1 DEF IInv, TypeOK
<1> QED BY <1>1, <1>2, <1>3, <1>4, <1>5, GoesOnSound

LEMMA NextRunSound ==
  ASSUME IInv, NEW q \in Requests, NextRun(q)
  PROVE  IInv'
<1>1. UNCHANGED <<run, thread, creator, resuming, task, outcome, tracked, queued, closed, asked,
                  broken>>
  BY DEF NextRun, rows, creation, tasks, broker, history
<1>2. PICK r \in request[q].todo :
        request' = [request EXCEPT ![q].run = r, ![q].pc = "signal", ![q].todo = @ \ {r}]
  BY DEF NextRun
<1> DEFINE new == [request[q] EXCEPT !.run = r, !.pc = "signal", !.todo = @ \ {r}]
<1>3. request' = [request EXCEPT ![q] = new]
  BY <1>2, RequestTypes
<1>4. r \in Runs /\ request[q].todo \subseteq Runs /\ request[q] \in RequestRecords
  BY DEF IInv, TypeOK, RequestRecords, RequestKinds, Points
<1>5. /\ new.pc = "signal" /\ new.run = r /\ new.todo = request[q].todo \ {r}
      /\ new \in RequestRecords
  BY <1>4 DEF RequestRecords, Points
<1>6. \A s \in request[q].todo : s \in asked /\ run[s] # "none"
  BY DEF IInv, RequestSound
<1> HIDE DEF new
<1>7. request' \in [Requests -> RequestRecords] /\ \A p \in Requests : RequestSound(p)'
  BY <1>1, <1>3, <1>4, <1>5, <1>6, RecordSound
<1>8. TypeOK'
  BY <1>1, <1>7 DEF IInv, TypeOK, RequestRecords, RequestKinds, Points
<1> QED BY <1>1, <1>7, <1>8, MarkSound

\* A request that cancels a task: a join whose time is up, a delete that pops it.
LEMMA RequestCancels ==
  ASSUME IInv, NEW q \in Requests, JoinTimeout(q) \/ PopAndCancel(q)
  PROVE  IInv'
<1>1. /\ request[q].pc \in {"waiting", "pop"}
      /\ UNCHANGED <<run, thread, creator, resuming, queued, closed, asked>>
  BY DEF JoinTimeout, PopAndCancel, rows, creation, broker
<1>2. PICK r \in Runs : r = request[q].run
  BY <1>1, RequestTypes DEF OnARun
<1>3. /\ tracked' = tracked \/ tracked' = tracked \ {r}
      /\ CancelTask(r) \/ (UNCHANGED <<task, outcome, broken>> /\ tracked' = tracked)
  BY <1>2 DEF JoinTimeout, PopAndCancel
<1>4. \E pc \in {"cancelling", "done", "waiting", "next"} : Goto(q, pc)
  BY DEF JoinTimeout, PopAndCancel
<1>5. PICK pc \in {"cancelling", "done", "waiting", "next"} : Goto(q, pc)
  BY <1>4
<1>6. pc \in Points /\ pc \notin Aiming /\ request[q].pc \in OnARun
  BY <1>1 DEF Points, Aiming, OnARun
<1>7. request' \in [Requests -> RequestRecords] /\ \A p \in Requests : RequestSound(p)'
  BY <1>1, <1>5, <1>6, GotoSound
<1>8. CASE UNCHANGED <<task, outcome, broken>> /\ tracked' = tracked
  <2>1. TypeOK'
    BY <1>1, <1>7, <1>8 DEF IInv, TypeOK, RequestRecords, RequestKinds, Points
  <2> QED BY <1>1, <1>7, <1>8, <2>1, MarkSound
<1>9. CASE CancelTask(r)
  <2>1. Interrupted(r, "cancelled")
    BY <1>9, CancelInterrupts
  <2>2. OthersKept(r)
    BY <1>1, <1>3, <2>1 DEF OthersKept, Interrupted, IInv, TypeOK
  <2>3. /\ RunSound(r)' /\ ThreadTold(r)' /\ (Attends(r) => Attends(r)')
        /\ task' \in [Runs -> Steps \cup {"none", "done"}]
        /\ outcome' \in [Runs -> {"none", "completed", "interrupted", "failed", "cancelled"}]
        /\ broken' \subseteq Runs
    BY <1>1, <1>3, <2>1, <2>2, InterruptedSound
  <2>4. TypeOK'
    BY <1>1, <1>3, <1>7, <2>3 DEF IInv, TypeOK, RequestRecords, RequestKinds, Points
  <2> QED BY <1>1, <1>7, <2>2, <2>3, <2>4, RunStepSound
<1> QED BY <1>3, <1>8, <1>9
---------------------------------------------------------------------------
(* The threads.                                                            *)

\* A step of one run that writes the status of its thread.
LEMMA ThreadStepSound ==
  ASSUME IInv, NEW r \in Runs, NEW x \in {"idle", "busy", "interrupted"}, TypeOK', OthersKept(r),
         thread' = [thread EXCEPT ![ThreadOf[r]] = IF @ = "absent" THEN @ ELSE x],
         RunSound(r)', ThreadTold(r)', request' = request, asked \subseteq asked', run' = run,
         creator'[r] \notin {"none", "checked"},
         thread[ThreadOf[r]] # "absent" /\ x = "busy" => Attends(r)'
  PROVE  IInv'
<1>1. /\ ThreadOf[r] \in Threads
      /\ \A t \in Threads \ {ThreadOf[r]} : thread'[t] = thread[t]
      /\ thread'[ThreadOf[r]] = IF thread[ThreadOf[r]] = "absent" THEN "absent" ELSE x
  BY LifecycleAssumption DEF IInv, TypeOK
<1>2. \A s \in Runs : RunSound(s)'
  BY <1>1, OthersSound
<1>3. ASSUME NEW s \in Runs \ {r} PROVE ThreadTold(s)'
  <2>1. ThreadTold(s) /\ ThreadOf[s] \in Threads
    BY LifecycleAssumption DEF IInv
  <2>2. CASE ThreadOf[s] = ThreadOf[r]
    <3>1. ~Alone(s)'
      BY <2>2 DEF Alone, RunsOf
    <3> QED BY <3>1 DEF ThreadTold
  <2>3. CASE ThreadOf[s] # ThreadOf[r]
    <3>1. Alone(s)' => Alone(s)
      BY <2>3 DEF Alone, OthersKept, RunsOf
    <3>2. thread'[ThreadOf[s]] = thread[ThreadOf[s]]
      BY <1>1, <2>1, <2>3
    <3> QED BY <2>1, <3>1, <3>2 DEF ThreadTold, OthersKept
  <2> QED BY <2>2, <2>3
<1>4. ASSUME NEW t \in Threads, thread'[t] = "busy"
      PROVE  \E s \in RunsOf(t) : Attends(s)'
  <2>1. CASE t = ThreadOf[r]
    BY <1>1, <1>4, <2>1 DEF RunsOf
  <2>2. CASE t # ThreadOf[r]
    <3>1. PICK s \in RunsOf(t) : Attends(s)
      BY <1>1, <1>4, <2>2 DEF IInv
    <3>2. s \in Runs \ {r}
      BY <2>2, <3>1 DEF RunsOf
    <3> QED BY <3>1, <3>2 DEF OthersKept, Attends
  <2> QED BY <2>1, <2>2
<1>5. \A q \in Requests : RequestSound(q)'
  BY RequestsKept
<1> QED BY <1>2, <1>3, <1>4, <1>5 DEF IInv, RunsOf

LEMMA SetBusySound ==
  ASSUME IInv, NEW r \in Runs, SetBusy(r) \/ SetBatchBusy(r)
  PROVE  IInv'
<1>1. /\ creator[r] \in {"checked", "batched"}
      /\ UNCHANGED <<run, resuming, task, outcome, tracked, queued, closed, request, asked, broken>>
      /\ thread' = [thread EXCEPT ![ThreadOf[r]] = IF @ = "absent" THEN @ ELSE "busy"]
  BY DEF SetBusy, SetBatchBusy, UpdateThread, tasks, broker, history
<1>2. \/ creator[r] = "checked" /\ creator' = [creator EXCEPT ![r] = "busy"]
      \/ /\ creator[r] = "batched"
         /\ \/ /\ thread[ThreadOf[r]] = "absent" /\ creator' = [creator EXCEPT ![r] = "ended"]
            \/ /\ thread[ThreadOf[r]] # "absent" /\ creator' = [creator EXCEPT ![r] = "inserted"]
  BY DEF SetBusy, SetBatchBusy
<1>3. TypeOK'
  <2>1. thread' \in [Threads -> {"absent", "idle", "busy", "interrupted"}]
    BY <1>1, Types DEF IInv, TypeOK
  <2>2. creator' \in [Runs -> {"none", "checked", "busy", "inserted", "insertedStream", "batched",
                               "streaming", "ended"}]
    BY <1>2 DEF IInv, TypeOK
  <2> QED BY <1>1, <2>1, <2>2 DEF IInv, TypeOK
<1>4. OthersKept(r)
  BY <1>1, <1>2 DEF OthersKept, IInv, TypeOK
<1>5. \/ creator[r] = "checked" /\ creator'[r] = "busy"
      \/ creator[r] = "batched" /\ creator'[r] = "ended" /\ thread[ThreadOf[r]] = "absent"
      \/ creator[r] = "batched" /\ creator'[r] = "inserted"
  BY <1>2 DEF IInv, TypeOK
<1>6. thread'[ThreadOf[r]] = "absent" => thread[ThreadOf[r]] = "absent"
  BY <1>1, Types DEF IInv, TypeOK
<1>7. RunSound(r) /\ task[r] = "none"
  BY <1>1 DEF IInv, RunSound, Places
<1>8. RunSound(r)'
  BY <1>1, <1>5, <1>6, <1>7
  DEF RunSound, Places, ActiveEnds, Attached, RowTold, Live, Inserted, Unfinished, Active, Absent
<1>9. ThreadTold(r)' /\ (thread[ThreadOf[r]] # "absent" => Attends(r)')
  BY <1>1, <1>5, <1>7 DEF ThreadTold, Attends, Inserted
<1> QED BY <1>1, <1>3, <1>4, <1>5, <1>8, <1>9, ThreadStepSound

LEMMA WriteThreadSound ==
  ASSUME IInv, NEW r \in Runs, WriteThreadStatus(r)
  PROVE  IInv'
<1> DEFINE x == IF outcome[r] = "interrupted" THEN "interrupted" ELSE "idle"
<1>1. /\ task[r] = "writeThread"
      /\ thread' = [thread EXCEPT ![ThreadOf[r]] = IF @ = "absent" THEN @ ELSE x]
      /\ UNCHANGED <<run, creator, resuming, outcome, tracked, queued, closed, request, asked, broken>>
  BY DEF WriteThreadStatus, UpdateThread, creation, broker, history
<1>2. \/ outcome[r] \in {"failed", "cancelled"} /\ task' = [task EXCEPT ![r] = "signal"]
      \/ outcome[r] \notin {"failed", "cancelled"} /\ task' = [task EXCEPT ![r] = "cleanup"]
  BY DEF WriteThreadStatus
<1>3. /\ ThreadOf[r] \in Threads
      /\ thread'[ThreadOf[r]] = IF thread[ThreadOf[r]] = "absent" THEN "absent" ELSE x
  BY <1>1, Types DEF IInv, TypeOK
<1>4. x' = x /\ x \in {"idle", "interrupted"}
  BY <1>1
<1>5. TypeOK'
  <2>1. thread' \in [Threads -> {"absent", "idle", "busy", "interrupted"}]
    BY <1>1, <1>3 DEF IInv, TypeOK
  <2>2. task' \in [Runs -> Steps \cup {"none", "done"}]
    BY <1>2 DEF IInv, TypeOK, Steps
  <2> QED BY <1>1, <2>1, <2>2 DEF IInv, TypeOK
<1>6. OthersKept(r)
  BY <1>1, <1>2 DEF OthersKept, IInv, TypeOK
<1>7. \/ outcome[r] \in {"failed", "cancelled"} /\ task'[r] = "signal"
      \/ outcome[r] \notin {"failed", "cancelled"} /\ task'[r] = "cleanup"
  BY <1>2 DEF IInv, TypeOK
<1>8. RunSound(r) /\ run[r] # "none" /\ creator[r] \in {"streaming", "ended"}
  BY <1>1 DEF IInv, RunSound, Places
<1>9. RunSound(r)'
  BY <1>1, <1>3, <1>7, <1>8
  DEF RunSound, Places, ActiveEnds, Attached, RowTold, Live, Early, Ending, Inserted, Unfinished
<1>10. ThreadTold(r)'
  BY <1>1, <1>3 DEF ThreadTold
<1> QED BY <1>1, <1>4, <1>5, <1>6, <1>8, <1>9, <1>10, ThreadStepSound

\* A thread is deleted, and its runs with it.
LEMMA DeletedSound ==
  ASSUME IInv, NEW t, DeleteThreadRow(t), TypeOK',
         UNCHANGED <<creator, task, outcome, tracked, asked, broken>>,
         \A q \in Requests : RequestSound(q)'
  PROVE  IInv'
<1>1. \A u \in Threads : thread'[u] = IF u = t THEN "absent" ELSE thread[u]
  BY DEF DeleteThreadRow, IInv, TypeOK
<1>2. \A r \in Runs : run'[r] = IF ThreadOf[r] = t /\ run[r] # "none" THEN "deleted" ELSE run[r]
  BY DEF DeleteThreadRow
<1>3. ASSUME NEW r \in Runs PROVE RunSound(r)' /\ ThreadTold(r)'
  <2>1. RunSound(r) /\ ThreadTold(r) /\ ThreadOf[r] \in Threads
    BY LifecycleAssumption DEF IInv
  <2>2. Alone(r)' = Alone(r)
    BY DEF Alone, RunsOf
  <2>3. CASE ThreadOf[r] = t
    <3>1. thread'[ThreadOf[r]] = "absent"
      BY <1>1, <2>1, <2>3
    <3>2. \/ run'[r] = run[r] /\ run[r] = "none"
          \/ run'[r] = "deleted" /\ run[r] # "none"
      BY <1>2, <2>3
    <3> QED BY <2>1, <3>1, <3>2
        DEF RunSound, Places, ActiveEnds, Attached, RowTold, Live, ThreadTold, Active, Absent
  <2>4. CASE ThreadOf[r] # t
    <3>1. thread'[ThreadOf[r]] = thread[ThreadOf[r]] /\ run'[r] = run[r]
      BY <1>1, <1>2, <2>1, <2>4
    <3> QED BY <2>1, <2>2, <3>1
        DEF RunSound, Places, ActiveEnds, Attached, RowTold, Live, ThreadTold
  <2> QED BY <2>3, <2>4
<1>4. ASSUME NEW u \in Threads, thread'[u] = "busy" PROVE \E s \in RunsOf(u) : Attends(s)'
  <2>1. thread[u] = "busy"
    BY <1>1, <1>4
  <2> QED BY <2>1 DEF IInv, RunsOf, Attends
<1> QED BY <1>3, <1>4 DEF IInv, RunsOf

LEMMA DeletedTypes ==
  ASSUME IInv, NEW t, DeleteThreadRow(t)
  PROVE  /\ thread' \in [Threads -> {"absent", "idle", "busy", "interrupted"}]
         /\ run' \in [Runs -> Active \cup Terminal \cup Absent]
         /\ \A s \in Runs : run[s] # "none" => run'[s] # "none"
BY DEF DeleteThreadRow, IInv, TypeOK, Absent

LEMMA DropSound ==
  ASSUME IInv, NEW q \in Requests, DropThread(q)
  PROVE  IInv'
<1>1. /\ DeleteThreadRow(request[q].thread) /\ Goto(q, "done")
      /\ UNCHANGED <<creator, resuming, task, outcome, tracked, queued, closed, asked, broken>>
  BY DEF DropThread, creation, tasks, broker, history
<1>2. /\ thread' \in [Threads -> {"absent", "idle", "busy", "interrupted"}]
      /\ run' \in [Runs -> Active \cup Terminal \cup Absent]
      /\ \A s \in Runs : run[s] # "none" => run'[s] # "none"
  BY <1>1, DeletedTypes
<1>3. request' \in [Requests -> RequestRecords] /\ \A p \in Requests : RequestSound(p)'
  BY <1>1, <1>2, GotoSound DEF Points, OnARun, Aiming
<1>4. TypeOK'
  BY <1>1, <1>2, <1>3 DEF IInv, TypeOK, RequestRecords, RequestKinds, Points
<1> QED BY <1>1, <1>3, <1>4, DeletedSound

LEMMA ExpireSound ==
  ASSUME IInv, NEW t \in Threads, ExpireThread(t)
  PROVE  IInv'
<1>1. /\ DeleteThreadRow(t)
      /\ UNCHANGED <<creator, resuming, task, outcome, tracked, queued, closed, request, asked,
                     broken>>
  BY DEF ExpireThread, creation, tasks, broker, history
<1>2. /\ thread' \in [Threads -> {"absent", "idle", "busy", "interrupted"}]
      /\ run' \in [Runs -> Active \cup Terminal \cup Absent]
      /\ \A s \in Runs : run[s] # "none" => run'[s] # "none"
  BY <1>1, DeletedTypes
<1>3. \A q \in Requests : request[q].todo \subseteq Runs
  BY DEF IInv, TypeOK
<1>4. \A q \in Requests : RequestSound(q)'
  BY <1>1, <1>2, <1>3 DEF IInv, RequestSound
<1>5. TypeOK'
  BY <1>1, <1>2 DEF IInv, TypeOK
<1> QED BY <1>1, <1>4, <1>5, DeletedSound

---------------------------------------------------------------------------
LEMMA RestartSound == IInv /\ Restart => IInv'
<1> SUFFICES ASSUME IInv, Restart PROVE IInv'
  OBVIOUS
<1>1. TypeOK /\ UNCHANGED <<run, thread, resuming, outcome, asked>>
  BY DEF IInv, Restart, rows
<1>2. request' \in [Requests -> RequestRecords] /\ \A q \in Requests : RequestSound(q)'
  <2>1. \A q \in Requests : request'[q] = IF request[q].pc = "idle" THEN Idle
                                          ELSE [request[q] EXCEPT !.pc = "done"]
    BY DEF Restart
  <2>2. "done" \in Points
    BY DEF Points
  <2>3. Idle \in RequestRecords /\ Idle.pc = "idle" /\ Idle.todo = {}
    BY DEF Idle, RequestRecords, RequestKinds, Points
  <2>4. ASSUME NEW q \in Requests PROVE request'[q] \in RequestRecords /\ RequestSound(q)'
    <3>1. CASE request[q].pc = "idle"
      <4>1. request'[q] = Idle
        BY <2>1, <3>1
      <4> QED BY <2>3, <4>1 DEF RequestSound, OnARun, Aiming
    <3>2. CASE request[q].pc # "idle"
      <4> DEFINE new == [request[q] EXCEPT !.pc = "done"]
      <4>1. request'[q] = new
        BY <2>1, <3>2
      <4>2. new \in RequestRecords /\ new.pc = "done" /\ new.todo = request[q].todo
        BY <2>2, RequestTypes, RecordMoves
      <4>3. RequestSound(q) /\ request[q].todo \subseteq Runs
        BY DEF IInv, TypeOK
      <4> HIDE DEF new
      <4> QED BY <1>1, <4>1, <4>2, <4>3 DEF RequestSound, OnARun, Aiming
    <3> QED BY <3>1, <3>2
  <2>5. request' = [q \in Requests |-> request'[q]]
    BY DEF Restart
  <2> QED BY <2>4, <2>5
<1>3. ASSUME NEW r \in Runs
      PROVE  /\ creator'[r] = IF creator[r] = "none" THEN "none" ELSE "ended"
             /\ task'[r] = IF task[r] = "none" THEN "none" ELSE "done"
             /\ r \notin tracked'
             /\ r \in broken' <=>
                  r \in broken \/ Live(r) \/ creator[r] \notin {"none", "ended", "streaming"}
  BY DEF Restart
<1>4. TypeOK'
  <2>1. /\ broken' \subseteq Runs /\ tracked' \subseteq Runs
        /\ creator' \in [Runs -> {"none", "checked", "busy", "inserted", "insertedStream",
                                  "batched", "streaming", "ended"}]
    BY <1>1 DEF Restart, TypeOK
  <2>2. task' \in [Runs -> Steps \cup {"none", "done"}]
    BY DEF Restart
  <2>3. queued' \in [Runs -> 0..QueueSize] /\ closed' \in [Runs -> BOOLEAN]
    BY LifecycleAssumption DEF Restart
  <2> QED BY <1>1, <1>2, <2>1, <2>2, <2>3 DEF TypeOK, RequestRecords, RequestKinds, Points
<1>5. ASSUME NEW r \in Runs PROVE RunSound(r)'
  <2>1. RunSound(r)
    BY DEF IInv
  <2> QED BY <1>1, <1>3, <2>1
      DEF RunSound, Places, ActiveEnds, Attached, RowTold, Live, Early, Ending, Inserted, Unfinished,
          Steps
<1>6. ASSUME NEW r \in Runs PROVE ThreadTold(r)'
  <2>1. Alone(r)' => Alone(r)
    BY <1>3 DEF Alone, RunsOf
  <2>2. ThreadTold(r) /\ task[r] \in Steps \cup {"none", "done"}
    BY <1>1 DEF IInv, TypeOK
  <2> QED BY <1>1, <1>3, <2>1, <2>2 DEF ThreadTold, Live
<1>7. ASSUME NEW t \in Threads, thread'[t] = "busy" PROVE \E s \in RunsOf(t) : Attends(s)'
  <2>1. PICK s \in RunsOf(t) : Attends(s)
    BY <1>1, <1>7 DEF IInv
  <2>2. s \in Runs
    BY DEF RunsOf
  <2>3. s \in broken'
    BY <1>3, <2>1, <2>2 DEF Attends, Live, Inserted, Unfinished
  <2> QED BY <2>3 DEF Attends
<1> QED BY <1>2, <1>4, <1>5, <1>6, <1>7 DEF IInv, RunsOf

LEMMA LifecycleGoesOn == IInv /\ [Next]_vars => IInv'
<1> SUFFICES ASSUME IInv, [Next]_vars PROVE IInv'
  OBVIOUS
<1>1. CASE \E r \in Runs : CreateStep(r) \/ TaskStep(r) \/ ReadStream(r)
                           \/ StreamDisconnect(r) \/ CreateError(r) \/ TaskError(r)
  <2> PICK r \in Runs : CreateStep(r) \/ TaskStep(r) \/ ReadStream(r)
                        \/ StreamDisconnect(r) \/ CreateError(r) \/ TaskError(r)
    BY <1>1
  <2>1. CASE CreateStep(r)
    BY <2>1, CheckSound, SetBusySound, InsertSound, CreateTaskSound DEF CreateStep
  <2>2. CASE TaskStep(r)
    BY <2>2, TaskMoves, WriteRunSound, WriteThreadSound, SignalEndSound, CleanUpSound DEF TaskStep
  <2> QED BY <2>1, <2>2, ReadStreamSound, StreamDisconnectSound, CreateErrorSound, TaskErrorSound
<1>2. CASE \E q \in Requests : Arrive(q) \/ RequestStep(q) \/ JoinTimeout(q) \/ RequestError(q)
  <2> PICK q \in Requests : Arrive(q) \/ RequestStep(q) \/ JoinTimeout(q) \/ RequestError(q)
    BY <1>2
  <2>1. CASE RequestStep(q)
    BY <2>1, SignalSound, WriteSound, AwaitSound, RequestCancels, NextRunSound, DropSound
    DEF RequestStep
  <2> QED BY <2>1, ArriveSound, RequestCancels, AwaitSound
<1>3. CASE \E t \in Threads : ExpireThread(t)
  BY <1>3, ExpireSound
<1>4. CASE Restart
  BY <1>4, RestartSound
<1>5. CASE UNCHANGED vars
  BY <1>5
  DEF vars, rows, creation, tasks, broker, history, IInv, TypeOK, RunSound, Places, ActiveEnds,
      Attached, RowTold, Live, ThreadTold, Alone, Attends, RequestSound, RunsOf
<1> QED BY <1>1, <1>2, <1>3, <1>4, <1>5 DEF Next

\* Whatever runs, threads, requests and queues there are, and with database
\* errors and restarts: no row of a run is left active, no thread busy and no
\* entry in active_runs without somebody who will change it, and the row of a
\* run nobody asked for tells how its task ended (runs.py:1095-1230).
THEOREM LifecycleSound == Spec => []LifecycleInv
<1>1. Spec => []IInv
  BY LifecycleBegins, LifecycleGoesOn, PTL DEF Spec
<1> QED BY <1>1, InvariantGives, PTL

\* Any number of runs on a thread, and requests for them: none goes on where
\* no request reaches it any more, and a run that had the thread for itself
\* leaves it interrupted exactly when its graph stopped at an interrupt
\* (runs.py:1138, 1171, 1197, api/threads.py:1093-1110).
THEOREM ThreadOfRunsSound == Spec => []RunsOfThreadInv
<1>1. Spec => []IInv
  BY LifecycleBegins, LifecycleGoesOn, PTL DEF Spec
<1> QED BY <1>1, InvariantGives, PTL

---------------------------------------------------------------------------
(* The connections                                                         *)

ConnRows == [kind : Kinds, state : {"opening", "open", "closed"}, ready : BOOLEAN, alive : BOOLEAN]
Numbered(n) == [Kinds -> 0..n]
CallRows(n) ==
    [op : {"none", "graph", "health", "ready", "store"}, graph : Graphs \cup {"none"},
     at : {"idle", "asking", "opening", "settingUp", "finishing"},
     want : Kinds \cup {"none"}, conn : 0..n, got : Numbered(n), bad : BOOLEAN, failed : BOOLEAN]

ConnTypes ==
    /\ setupOnInit \in BOOLEAN /\ adapter \in BOOLEAN
    /\ lifePhase \in {"starting", "serving", "stopping", "closed", "stuck", "aborted"}
    /\ steps \in 0..8 /\ running \subseteq Loops /\ bootGraphs \subseteq Graphs
    /\ conns \in Seq(ConnRows)
    /\ cm \in Numbered(Len(conns)) /\ inst \in Numbered(Len(conns)) /\ given \in Numbered(Len(conns))
    /\ compiled \in [Graphs -> {NotCompiled} \cup Numbered(Len(conns))]
    /\ call \in [Callers -> CallRows(Len(conns))]
    /\ overlap \subseteq Kinds /\ spoiled \subseteq Kinds
    /\ dbFaults \in 0..MaxDbFaults

\* What the steps of lifespan have started and stopped.
StepsDone ==
    /\ lifePhase = "starting" => /\ steps \in 0..5 /\ (steps > 0 => adapter)
                                 /\ running = Loops \cap {Startup[i] : i \in 1..steps}
    /\ lifePhase = "starting" /\ steps = 0 => conns = <<>>
    /\ lifePhase = "serving"  => running = Loops
    /\ lifePhase = "stopping" => steps \in 0..7 /\ running = Loops \ {Shutdown[i] : i \in 1..steps}
    /\ lifePhase \in {"closed", "stuck", "aborted"} => running = {}
    /\ adapter <=> lifePhase \in {"serving", "stopping", "stuck"} \/ (lifePhase = "starting" /\ steps > 0)

\* A connection and the call that opens it.
IsOpening(c, i) == call[c].at = "opening" /\ call[c].conn = i
CallsOpen ==
    /\ \A c \in Callers :
          /\ call[c].at # "idle" => call[c].want \in Kinds
          /\ call[c].at = "finishing" => call[c].want = "store"
          /\ call[c].at \in {"opening", "settingUp"} =>
                call[c].conn # None /\ conns[call[c].conn].kind = call[c].want
          /\ call[c].at = "opening" => conns[call[c].conn].state = "opening"
          /\ call[c].at = "settingUp" => /\ setupOnInit /\ conns[call[c].conn].state # "opening"
                                         /\ lifePhase \in {"starting", "serving"} =>
                                               conns[call[c].conn].state = "open"
    /\ \A c, d \in Callers : c # d /\ call[c].at \in {"opening", "settingUp"}
                                   /\ call[d].at \in {"opening", "settingUp"}
                                => call[c].conn # call[d].conn
    /\ \A i \in 1..Len(conns) : conns[i].state = "opening" => \E c \in Callers : IsOpening(c, i)
    /\ lifePhase = "starting" => \A c \in Askers : call[c] = Resting
    /\ lifePhase = "aborted" =>
          /\ \A c \in Callers : call[c].at = "idle"
          /\ \A i \in 1..Len(conns) : conns[i].state = "closed"

\* Each of the places holds a connection of its kind.
KindsMatch ==
    \A k \in Kinds :
        /\ cm[k] # None => conns[cm[k]].kind = k
        /\ inst[k] # None => conns[inst[k]].kind = k
        /\ given[k] # None => conns[given[k]].kind = k

\* The life of a kind whose first requests did not meet.
OneAtATime(k) ==
    /\ \A i \in 1..Len(conns) : NotClosed(i) /\ conns[i].kind = k => cm[k] = i
    /\ lifePhase # "aborted" /\ inst[k] # None => inst[k] = cm[k] /\ conns[inst[k]].state = "open"
    /\ cm[k] # None /\ conns[cm[k]].state = "open" => inst[k] = cm[k]
    /\ Opening(k) => given[k] = None /\ lifePhase # "closed"
    /\ \A c \in Callers : call[c].want = k /\ call[c].at = "settingUp" => inst[k] = call[c].conn
    /\ given[k] # None /\ ~Closing /\ lifePhase \in {"starting", "serving", "stopping"} => given[k] = inst[k]
    /\ inst[k] # None /\ given[k] = None /\ lifePhase # "closed" => k \in spoiled \/ Opening(k)
    /\ given[k] # None /\ setupOnInit /\ k \notin spoiled => conns[given[k]].ready
    /\ lifePhase = "closed" => given[k] = None

\* What a request for a graph has been given.
HasBeenGiven(c, k) ==
    /\ call[c].op = "graph"
    /\ \/ call[c].at = "finishing"
       \/ call[c].at # "idle" /\ call[c].want = "store" /\ k = "checkpointer"

GotShared ==
    lifePhase \in {"starting", "serving"} =>
        \A k \in Kinds \ overlap :
            /\ \A c \in Callers : HasBeenGiven(c, k) => call[c].got[k] # None /\ call[c].got[k] = given[k]
            /\ \A g \in Graphs : compiled[g] \notin {NotCompiled, Nothing} =>
                   compiled[g][k] # None /\ compiled[g][k] = given[k]

FaultsShow ==
    /\ \A i \in 1..Len(conns) : ~conns[i].alive => dbFaults > 0
    /\ lifePhase = "serving" /\ dbFaults = 0 => \A c \in Askers : ~call[c].bad /\ ~call[c].failed

ConnsIInv ==
    /\ ConnTypes /\ StepsDone /\ CallsOpen /\ KindsMatch
    /\ \A k \in Kinds \ overlap : OneAtATime(k)
    /\ GotShared /\ FaultsShow

---------------------------------------------------------------------------
LEMMA NumbersGrow ==
    ASSUME NEW m \in Nat, NEW n \in Nat, m <= n
    PROVE  Numbered(m) \subseteq Numbered(n) /\ CallRows(m) \subseteq CallRows(n)
<1>1. 0..m \subseteq 0..n
  OBVIOUS
<1>2. Numbered(m) \subseteq Numbered(n)
  BY <1>1 DEF Numbered
<1> QED BY <1>1, <1>2 DEF CallRows

LEMMA NothingNumbered ==
    ASSUME NEW n \in Nat
    PROVE  /\ Nothing \in Numbered(n) /\ \A k \in Kinds : Nothing[k] = None
           /\ Resting \in CallRows(n)
           /\ Resting.at = "idle" /\ Resting.op = "none" /\ ~Resting.bad /\ ~Resting.failed
<1>1. 0 \in 0..n
  OBVIOUS
<1>2. Nothing \in Numbered(n) /\ \A k \in Kinds : Nothing[k] = None
  BY <1>1 DEF Nothing, Numbered, None
<1> QED BY <1>1, <1>2 DEF Resting, CallRows, None

LEMMA CallUpdate ==
    ASSUME ConnTypes, NEW c \in Callers, NEW x, call' = [call EXCEPT ![c] = x]
    PROVE  /\ call'[c] = x /\ \A d \in Callers : d # c => call'[d] = call[d]
           /\ \A n \in Nat : Len(conns) <= n /\ x \in CallRows(n) => call' \in [Callers -> CallRows(n)]
<1>1. call \in [Callers -> CallRows(Len(conns))] /\ Len(conns) \in Nat
  BY LenProperties DEF ConnTypes
<1>2. ASSUME NEW n \in Nat, Len(conns) <= n, x \in CallRows(n)
      PROVE  call' \in [Callers -> CallRows(n)]
  <2>1. CallRows(Len(conns)) \subseteq CallRows(n)
    BY <1>1, <1>2, NumbersGrow
  <2> QED BY <1>1, <1>2, <2>1
<1> QED BY <1>1, <1>2

LEMMA ConnUpdate ==
    ASSUME ConnTypes, NEW i \in 1..Len(conns), NEW y \in ConnRows, conns' = [conns EXCEPT ![i] = y]
    PROVE  /\ conns' \in Seq(ConnRows) /\ Len(conns') = Len(conns)
           /\ conns'[i] = y /\ \A j \in 1..Len(conns) : j # i => conns'[j] = conns[j]
BY ExceptSeq DEF ConnTypes

LEMMA ConnFacts ==
    ASSUME ConnTypes
    PROVE  /\ Len(conns) \in Nat /\ \A i \in 1..Len(conns) : conns[i] \in ConnRows
           /\ \A k \in Kinds : /\ cm[k] \in 0..Len(conns) /\ inst[k] \in 0..Len(conns)
                               /\ given[k] \in 0..Len(conns)
           /\ \A c \in Callers : call[c] \in CallRows(Len(conns))
<1>1. Len(conns) \in Nat /\ \A i \in 1..Len(conns) : conns[i] \in ConnRows
  BY LenProperties, ElementOfSeq DEF ConnTypes
<1> QED BY <1>1 DEF ConnTypes, Numbered

\* The fields of a call after an answer.
AfterOf(r, v) ==
    LET now == [r EXCEPT !.got[r.want] = v, !.conn = None]
    IN  IF now.want = "checkpointer" THEN [now EXCEPT !.want = "store", !.at = "asking"]
                                     ELSE [now EXCEPT !.at = "finishing"]

LEMMA AfterOfFields ==
    ASSUME NEW n \in Nat, NEW r \in CallRows(n), NEW v \in 0..n, r.want \in Kinds
    PROVE  /\ AfterOf(r, v) \in CallRows(n)
           /\ AfterOf(r, v).op = r.op /\ AfterOf(r, v).graph = r.graph /\ AfterOf(r, v).bad = r.bad
           /\ AfterOf(r, v).failed = r.failed /\ AfterOf(r, v).want = "store"
           /\ AfterOf(r, v).at = IF r.want = "checkpointer" THEN "asking" ELSE "finishing"
           /\ AfterOf(r, v).got[r.want] = v
           /\ \A k \in Kinds : k # r.want => AfterOf(r, v).got[k] = r.got[k]
<1>1. 0 \in 0..n /\ r.got \in [Kinds -> 0..n]
  BY DEF CallRows, Numbered
<1> DEFINE g == [r.got EXCEPT ![r.want] = v]
           now == [r EXCEPT !.got = g, !.conn = None]
<1>2. g \in [Kinds -> 0..n] /\ g[r.want] = v /\ \A k \in Kinds : k # r.want => g[k] = r.got[k]
  BY <1>1
<1>3. now = [r EXCEPT !.got[r.want] = v, !.conn = None]
  BY DEF CallRows
<1> HIDE DEF g
<1>4. /\ now \in CallRows(n) /\ now.op = r.op /\ now.graph = r.graph /\ now.bad = r.bad
      /\ now.failed = r.failed /\ now.want = r.want /\ now.got = g
  BY <1>1, <1>2 DEF CallRows, Numbered, None
<1> HIDE DEF now
<1>5. CASE r.want = "checkpointer"
  <2>1. AfterOf(r, v) = [now EXCEPT !.want = "store", !.at = "asking"]
    BY <1>3, <1>4, <1>5 DEF AfterOf
  <2> DEFINE x == [now EXCEPT !.want = "store", !.at = "asking"]
  <2>2. /\ x \in CallRows(n) /\ x.op = r.op /\ x.graph = r.graph /\ x.bad = r.bad
        /\ x.failed = r.failed /\ x.want = "store" /\ x.at = "asking" /\ x.got = g
    BY <1>4 DEF CallRows, Kinds
  <2> HIDE DEF x
  <2>3. AfterOf(r, v) = x
    BY <2>1 DEF x
  <2> QED BY <1>2, <1>5, <2>2, <2>3
<1>6. CASE r.want = "store"
  <2>1. AfterOf(r, v) = [now EXCEPT !.at = "finishing"]
    BY <1>3, <1>4, <1>6 DEF AfterOf
  <2> DEFINE x == [now EXCEPT !.at = "finishing"]
  <2>2. /\ x \in CallRows(n) /\ x.op = r.op /\ x.graph = r.graph /\ x.bad = r.bad
        /\ x.failed = r.failed /\ x.want = "store" /\ x.at = "finishing" /\ x.got = g
    BY <1>4, <1>6 DEF CallRows, Kinds
  <2> HIDE DEF x
  <2>3. AfterOf(r, v) = x
    BY <2>1 DEF x
  <2> QED BY <1>2, <1>6, <2>2, <2>3
<1> QED BY <1>5, <1>6 DEF Kinds

LEMMA AfterFields ==
    ASSUME ConnTypes, NEW c \in Callers, NEW v \in 0..Len(conns), call[c].want \in Kinds
    PROVE  /\ After(c, v) \in CallRows(Len(conns))
           /\ After(c, v).op = call[c].op /\ After(c, v).graph = call[c].graph
           /\ After(c, v).bad = call[c].bad /\ After(c, v).failed = call[c].failed
           /\ After(c, v).want = "store"
           /\ After(c, v).at = IF call[c].want = "checkpointer" THEN "asking" ELSE "finishing"
           /\ After(c, v).got[call[c].want] = v
           /\ \A k \in Kinds : k # call[c].want => After(c, v).got[k] = call[c].got[k]
<1>1. Len(conns) \in Nat /\ call[c] \in CallRows(Len(conns))
  BY ConnFacts
<1>2. After(c, v) = AfterOf(call[c], v)
  BY DEF After, AfterOf
<1> QED BY <1>1, <1>2, AfterOfFields

\* An answer to the caller, or an error: the call rests, or, of /health, goes on to
\* the store.
LEMMA ToldFields ==
    ASSUME ConnTypes, NEW c \in Callers, NEW well \in BOOLEAN
    PROVE  /\ Told(c, well) \in CallRows(Len(conns)) /\ Told(c, well).at = "idle"
           /\ ~Told(c, well).bad /\ Told(c, well).op # "graph"
           /\ well => ~Told(c, well).failed
<1>1. Len(conns) \in Nat /\ call[c] \in CallRows(Len(conns))
  BY ConnFacts
<1>2. CASE well \/ call[c].op \notin {"health", "ready"}
  BY <1>1, <1>2, NothingNumbered DEF Told
<1>3. CASE ~(well \/ call[c].op \notin {"health", "ready"})
  <2>1. PICK o \in {"health", "ready"} : o = call[c].op
    BY <1>3
  <2>2. Told(c, well) = [Resting EXCEPT !.op = o, !.failed = TRUE]
    BY <1>3, <2>1 DEF Told
  <2>3. /\ [Resting EXCEPT !.op = o, !.failed = TRUE] \in CallRows(Len(conns))
        /\ [Resting EXCEPT !.op = o, !.failed = TRUE].at = "idle"
        /\ ~[Resting EXCEPT !.op = o, !.failed = TRUE].bad
        /\ [Resting EXCEPT !.op = o, !.failed = TRUE].op = o
    BY <1>1, NothingNumbered DEF CallRows
  <2> QED BY <1>3, <2>1, <2>2, <2>3
<1> QED BY <1>2, <1>3

LEMMA ErrorFields ==
    ASSUME ConnTypes, NEW c \in Callers
    PROVE  /\ AfterError(c) \in CallRows(Len(conns))
           /\ AfterError(c).at \in {"idle", "asking"} /\ AfterError(c).op # "graph"
           /\ AfterError(c).at = "asking" => AfterError(c).want = "store"
<1>1. Len(conns) \in Nat /\ call[c] \in CallRows(Len(conns))
  BY ConnFacts
<1>2. CASE call[c].op = "health" /\ call[c].want = "checkpointer"
  <2>1. ASSUME NEW n \in Nat, NEW r \in CallRows(n), NEW b \in BOOLEAN
        PROVE  LET x == [r EXCEPT !.want = "store", !.at = "asking", !.conn = None, !.bad = b] IN
               x \in CallRows(n) /\ x.op = r.op /\ x.at = "asking" /\ x.want = "store"
    <3>1. "store" \in Kinds \cup {"none"} /\ None \in 0..n
      BY DEF None, Kinds
    <3> QED BY <3>1 DEF CallRows
  <2>2. PICK r \in CallRows(Len(conns)) : r = call[c]
    BY <1>1
  <2>3. AfterError(c) = [r EXCEPT !.want = "store", !.at = "asking", !.conn = None, !.bad = TRUE]
    BY <1>2, <2>2 DEF AfterError
  <2>4. r.op = "health"
    BY <1>2, <2>2
  <2>5. TRUE \in BOOLEAN
    OBVIOUS
  <2>6. LET x == [r EXCEPT !.want = "store", !.at = "asking", !.conn = None, !.bad = TRUE] IN
        x \in CallRows(Len(conns)) /\ x.op = r.op /\ x.at = "asking" /\ x.want = "store"
    BY <1>1, <2>1, <2>5, Zenon
  <2> QED BY <2>3, <2>4, <2>6
<1>3. CASE ~(call[c].op = "health" /\ call[c].want = "checkpointer")
  <2>1. AfterError(c) = Told(c, FALSE)
    BY <1>3 DEF AfterError
  <2> QED BY <2>1, ToldFields
<1> QED BY <1>2, <1>3

---------------------------------------------------------------------------
LEMMA ConnsBegin == InitConns => ConnsIInv
<1> SUFFICES ASSUME InitConns PROVE ConnsIInv
  OBVIOUS
<1>1. /\ setupOnInit \in BOOLEAN /\ lifePhase = "starting" /\ steps = 0 /\ running = {} /\ adapter = FALSE
      /\ bootGraphs = {} /\ cm = Nothing /\ inst = Nothing /\ given = Nothing /\ conns = <<>>
      /\ compiled = [g \in Graphs |-> NotCompiled] /\ call = [c \in Callers |-> Resting]
      /\ overlap = {} /\ spoiled = {} /\ dbFaults = 0 /\ Len(conns) = 0
  BY DEF InitConns
<1>2. /\ Nothing \in Numbered(Len(conns)) /\ \A k \in Kinds : Nothing[k] = None
      /\ Resting \in CallRows(Len(conns)) /\ Resting.at = "idle" /\ Resting.op = "none"
      /\ ~Resting.bad /\ ~Resting.failed
  BY <1>1, NothingNumbered
<1>3. ConnTypes
  <2>1. conns \in Seq(ConnRows) /\ dbFaults \in 0..MaxDbFaults
    BY <1>1, ConnectionsAssumption
  <2>2. compiled \in [Graphs -> {NotCompiled} \cup Numbered(Len(conns))]
        /\ call \in [Callers -> CallRows(Len(conns))]
    BY <1>1, <1>2
  <2>3. steps \in 0..8 /\ running \subseteq Loops /\ bootGraphs \subseteq Graphs
        /\ overlap \subseteq Kinds /\ spoiled \subseteq Kinds
    BY <1>1
  <2>4. adapter \in BOOLEAN
    BY <1>1, Zenon
  <2> QED BY <1>1, <1>2, <2>1, <2>2, <2>3, <2>4 DEF ConnTypes
<1>4. StepsDone
  <2>1. 1..steps = {}
    BY <1>1
  <2> QED BY <1>1, <2>1 DEF StepsDone
<1>5. CallsOpen /\ KindsMatch
  BY <1>1, <1>2 DEF CallsOpen, KindsMatch, Callers
<1>6. ASSUME NEW k \in Kinds PROVE OneAtATime(k)
  <2>1. ~Opening(k)
    BY <1>1, <1>2 DEF Opening
  <2> QED BY <1>1, <1>2, <2>1 DEF OneAtATime
<1>7. GotShared
  BY <1>1, <1>2 DEF GotShared, HasBeenGiven
<1>8. FaultsShow
  BY <1>1 DEF FaultsShow
<1> QED BY <1>3, <1>4, <1>5, <1>6, <1>7, <1>8 DEF ConnsIInv

---------------------------------------------------------------------------
(* lifespan.                                                               *)

LEMMA StartupSteps ==
    /\ Len(Startup) = 6 /\ Startup[1] = "database" /\ Startup[2] = "graphs" /\ Startup[3] = "events"
    /\ Startup[4] = "threads" /\ Startup[5] = "crons" /\ Startup[6] = "mover"
BY DEF Startup

LEMMA ShutdownSteps ==
    /\ Shutdown[1] = "mover" /\ Shutdown[2] = "events" /\ Shutdown[3] = "threads"
    /\ Shutdown[4] = "crons" /\ Shutdown[5] = "engine" /\ Shutdown[6] = "checkpointer"
    /\ Shutdown[7] = "store" /\ Shutdown[8] = "manager"
BY DEF Shutdown

\* A step of lifespan that leaves connections and calls alone, before the stop closes
\* any.
LEMMA LifeGoesOn ==
    ASSUME ConnsIInv, UNCHANGED <<setupOnInit, keptVars, conns, compiled, call, overlap, spoiled, dbFaults>>,
           lifePhase \in {"starting", "serving"}, lifePhase' \in {"starting", "serving", "stopping"},
           lifePhase' = "stopping" => steps' = 0, lifePhase' = "starting" => lifePhase = "starting",
           lifePhase' = "starting" => steps' # 0,
           StepsDone', steps' \in 0..8, adapter' \in BOOLEAN, running' \subseteq Loops,
           bootGraphs' \subseteq Graphs
    PROVE  ConnsIInv'
<1>1. /\ UNCHANGED <<setupOnInit, cm, inst, given, conns, compiled, call, overlap, spoiled, dbFaults>>
      /\ \A k : Opening(k)' <=> Opening(k)
      /\ ~Closing /\ ~Closing'
  BY DEF keptVars, Opening, Closing
<1>2. ConnTypes'
  BY <1>1 DEF ConnsIInv, ConnTypes
<1>3. CallsOpen' /\ KindsMatch'
  BY <1>1 DEF ConnsIInv, CallsOpen, KindsMatch, IsOpening
<1>4. ASSUME NEW k \in Kinds \ overlap PROVE OneAtATime(k)'
  <2>1. OneAtATime(k)
    BY <1>4 DEF ConnsIInv
  <2> QED BY <1>1, <2>1 DEF OneAtATime, NotClosed
<1>5. GotShared'
  BY <1>1 DEF ConnsIInv, GotShared, HasBeenGiven
<1>6. FaultsShow'
  <2>1. CASE lifePhase = "starting"
    <3>1. \A c \in Askers : ~call[c].bad /\ ~call[c].failed
      <4>1. \A c \in Askers : call[c] = Resting
        BY <2>1 DEF ConnsIInv, CallsOpen
      <4> QED BY <4>1 DEF Resting
    <3> QED BY <1>1, <3>1 DEF ConnsIInv, FaultsShow
  <2>2. CASE lifePhase = "serving"
    BY <1>1, <2>2 DEF ConnsIInv, FaultsShow
  <2> QED BY <2>1, <2>2
<1> QED BY <1>1, <1>2, <1>3, <1>4, <1>5, <1>6 DEF ConnsIInv

LEMMA StartStepSound ==
    ASSUME ConnsIInv, StartStep
    PROVE  ConnsIInv'
<1>1. /\ lifePhase = "starting" /\ steps \in 0..5 /\ (steps > 0 => adapter) /\ adapter \in BOOLEAN
      /\ running = Loops \cap {Startup[i] : i \in 1..steps} /\ running \subseteq Loops
      /\ bootGraphs \subseteq Graphs
  BY DEF ConnsIInv, ConnTypes, StepsDone, StartStep
<1>2. /\ adapter' = (adapter \/ Startup[steps + 1] = "database")
      /\ running' = running \cup ({Startup[steps + 1]} \cap Loops)
      /\ steps' = IF steps + 1 = 6 THEN 0 ELSE steps + 1
      /\ lifePhase' = IF steps + 1 = 6 THEN "serving" ELSE lifePhase
      /\ UNCHANGED <<setupOnInit, bootGraphs, keptVars, conns, compiled, call, overlap, spoiled, dbFaults>>
  BY StartupSteps DEF StartStep
<1>3. adapter'
  <2>1. CASE steps = 0
    <3>1. steps + 1 = 1
      BY <2>1
    <3> QED BY <1>2, <3>1, StartupSteps
  <2>2. CASE steps # 0
    BY <1>1, <1>2, <2>2
  <2> QED BY <2>1, <2>2
<1>4. running' = Loops \cap {Startup[i] : i \in 1..(steps + 1)} /\ running' \subseteq Loops
  <2>1. 1..(steps + 1) = (1..steps) \cup {steps + 1}
    BY <1>1
  <2> QED BY <1>1, <1>2, <2>1
<1>5. CASE steps # 5
  <2>1. steps' = steps + 1 /\ lifePhase' = "starting" /\ steps + 1 \in 1..5
    BY <1>1, <1>2, <1>5
  <2>2. adapter' <=> TRUE
    BY <1>3
  <2>3. StepsDone'
    BY <1>3, <1>4, <2>1 DEF StepsDone
  <2>4. adapter' \in BOOLEAN /\ steps' \in 0..8 /\ steps' # 0
    BY <1>1, <1>2, <2>1
  <2> QED BY <1>1, <1>2, <1>4, <2>1, <2>3, <2>4, LifeGoesOn
<1>6. CASE steps = 5
  <2>1. steps' = 0 /\ lifePhase' = "serving"
    BY <1>2, <1>6
  <2>2. Loops \subseteq {Startup[i] : i \in 1..6}
    <3>1. \A i \in {3, 4, 5, 6} : i \in 1..6
      OBVIOUS
    <3> QED BY <3>1, StartupSteps DEF Loops
  <2>3. running' = Loops
    BY <1>4, <1>6, <2>2
  <2>4. StepsDone'
    BY <1>3, <2>1, <2>3 DEF StepsDone
  <2>5. adapter' \in BOOLEAN
    BY <1>1, <1>2
  <2> QED BY <1>1, <1>2, <1>4, <2>1, <2>4, <2>5, LifeGoesOn
<1> QED BY <1>5, <1>6

LEMMA StopSound ==
    ASSUME ConnsIInv, Stop
    PROVE  ConnsIInv'
<1>1. /\ lifePhase = "serving" /\ running = Loops /\ adapter /\ adapter \in BOOLEAN
      /\ bootGraphs \subseteq Graphs
  BY DEF ConnsIInv, ConnTypes, StepsDone, Stop
<1>2. /\ lifePhase' = "stopping" /\ steps' = 0
      /\ UNCHANGED <<setupOnInit, running, adapter, bootGraphs, keptVars, conns, compiled, call, overlap,
                     spoiled, dbFaults>>
  BY DEF Stop
<1>3. 1..steps' = {}
  BY <1>2
<1>4. StepsDone'
  BY <1>1, <1>2, <1>3 DEF StepsDone
<1> QED BY <1>1, <1>2, <1>4, LifeGoesOn

LEMMA StartFailsSound ==
    ASSUME ConnsIInv, StartFails
    PROVE  ConnsIInv'
<1>1. /\ lifePhase = "starting" /\ call[Boot].at = "idle" /\ Fault
      /\ lifePhase' = "aborted" /\ running' = {} /\ adapter' = FALSE
      /\ conns' = [i \in 1..Len(conns) |-> [conns[i] EXCEPT !.state = "closed"]]
      /\ UNCHANGED <<setupOnInit, steps, bootGraphs, cm, inst, given, compiled, call, overlap, spoiled>>
  BY DEF StartFails, keptVars
<1>2. /\ Len(conns) \in Nat /\ \A i \in 1..Len(conns) : conns[i] \in ConnRows
  BY ConnFacts DEF ConnsIInv
<1>3. /\ conns' \in Seq(ConnRows) /\ Len(conns') = Len(conns)
      /\ \A i \in 1..Len(conns) : /\ conns'[i].state = "closed" /\ conns'[i].kind = conns[i].kind
                                  /\ conns'[i].ready = conns[i].ready /\ conns'[i].alive = conns[i].alive
  <2>1. \A i \in 1..Len(conns) : [conns[i] EXCEPT !.state = "closed"] \in ConnRows
    BY <1>2 DEF ConnRows
  <2>2. conns' \in [1..Len(conns) -> ConnRows]
    BY <1>1, <2>1
  <2>3. \A f \in [1..Len(conns) -> ConnRows] : f \in Seq(ConnRows) /\ Len(f) = Len(conns)
    BY <1>2
  <2> QED BY <1>1, <1>2, <2>2, <2>3 DEF ConnRows
<1>4. \A c \in Callers : call[c].at = "idle"
  <2>1. \A c \in Askers : call[c] = Resting
    BY <1>1 DEF ConnsIInv, CallsOpen
  <2> QED BY <1>1, <2>1, NothingNumbered DEF Callers, Resting
<1>5. dbFaults' \in 0..MaxDbFaults /\ dbFaults' > 0
  BY <1>1, ConnectionsAssumption DEF ConnsIInv, ConnTypes, Fault
<1>6. ConnTypes'
  BY <1>1, <1>3, <1>5 DEF ConnsIInv, ConnTypes
<1>7. StepsDone'
  BY <1>1 DEF StepsDone
<1>8. CallsOpen'
  BY <1>1, <1>3, <1>4 DEF CallsOpen
<1>9. KindsMatch'
  BY <1>1, <1>2, <1>3, ConnFacts DEF ConnsIInv, KindsMatch, None
<1>10. ASSUME NEW k \in Kinds \ overlap PROVE OneAtATime(k)'
  <2>1. ~Opening(k) /\ ~Opening(k)'
    BY <1>1, <1>4 DEF Opening
  <2>2. OneAtATime(k)
    BY <1>10 DEF ConnsIInv
  <2>3. given[k] \in 0..Len(conns) /\ cm[k] \in 0..Len(conns)
    BY <1>10, ConnFacts DEF ConnsIInv
  <2>4. cm[k] # None => conns'[cm[k]].state = "closed"
    BY <1>2, <1>3, <2>3 DEF None
  <2>5. given[k] # None => conns'[given[k]].ready = conns[given[k]].ready
    BY <1>2, <1>3, <2>3 DEF None
  <2>6. \A i \in 1..Len(conns') : ~NotClosed(i)'
    BY <1>3 DEF NotClosed
  <2>7. inst[k] # None /\ given[k] = None => k \in spoiled
    BY <1>1, <2>1, <2>2 DEF OneAtATime
  <2> QED BY <1>1, <1>4, <2>1, <2>2, <2>4, <2>5, <2>6, <2>7 DEF OneAtATime
<1>11. GotShared'
  BY <1>1 DEF GotShared
<1>12. FaultsShow'
  BY <1>1, <1>5 DEF FaultsShow
<1> QED BY <1>1, <1>6, <1>7, <1>8, <1>9, <1>10, <1>11, <1>12 DEF ConnsIInv

LEMMA StopStepSound ==
    ASSUME ConnsIInv, StopStep
    PROVE  ConnsIInv'
<1> PICK step : step = Shutdown[steps + 1]
  OBVIOUS
<1>1. /\ lifePhase = "stopping" /\ steps \in 0..7 /\ running = Loops \ {Shutdown[i] : i \in 1..steps}
      /\ steps' = steps + 1 /\ running' = running \ {step}
      /\ overlap' = overlap \cup {k \in Kinds : Closing /\ Opening(k)}
      /\ adapter /\ adapter \in BOOLEAN
      /\ UNCHANGED <<setupOnInit, bootGraphs, compiled, call, spoiled, dbFaults>>
  BY DEF ConnsIInv, ConnTypes, StepsDone, StopStep
<1>2. \/ step \in Kinds /\ CloseKind(step) /\ UNCHANGED <<given, adapter>>
      \/ step = "manager" /\ adapter' = FALSE /\ given' = Nothing /\ lifePhase' = "closed"
         /\ UNCHANGED <<cm, inst, conns>>
      \/ step \notin Kinds \cup {"manager"} /\ UNCHANGED <<lifePhase, cm, inst, given, adapter, conns>>
  BY DEF StopStep, keptVars, Kinds
<1>3. /\ step \in {"mover", "events", "threads", "crons", "engine", "checkpointer", "store", "manager"}
      /\ step \in Kinds => steps \in {5, 6}
      /\ step = "manager" <=> steps = 7
  <2>1. steps + 1 \in 1..8
    BY <1>1
  <2> QED BY <1>1, <2>1, ShutdownSteps DEF Kinds
<1>4. running' = Loops \ {Shutdown[i] : i \in 1..(steps + 1)}
  <2>1. 1..(steps + 1) = (1..steps) \cup {steps + 1}
    BY <1>1
  <2> QED BY <1>1, <2>1
<1>5. steps >= 4 => running = {} /\ running' = {}
  <2>1. SUFFICES ASSUME steps >= 4 PROVE running = {}
    BY <1>1
  <2>2. \A i \in {1, 2, 3, 4} : i \in 1..steps
    BY <1>1, <2>1
  <2>3. Loops \subseteq {Shutdown[i] : i \in 1..steps}
    BY <2>2, ShutdownSteps DEF Loops
  <2> QED BY <1>1, <2>3
<1>6. Closing <=> steps >= 4
  BY <1>1 DEF Closing
<1>7. /\ ConnTypes /\ Len(conns) \in Nat /\ \A i \in 1..Len(conns) : conns[i] \in ConnRows
      /\ \A k \in Kinds : /\ cm[k] \in 0..Len(conns) /\ inst[k] \in 0..Len(conns)
                          /\ given[k] \in 0..Len(conns)
      /\ KindsMatch
  BY ConnFacts DEF ConnsIInv
<1>8. \A k \in Kinds : cm[k] # None /\ conns[cm[k]].state = "opening" => Opening(k)
  <2> SUFFICES ASSUME NEW k \in Kinds, cm[k] # None, conns[cm[k]].state = "opening" PROVE Opening(k)
    OBVIOUS
  <2>1. cm[k] \in 1..Len(conns) /\ conns[cm[k]].kind = k
    BY <1>7 DEF None, KindsMatch
  <2>2. PICK c \in Callers : call[c].at = "opening" /\ call[c].conn = cm[k]
    BY <2>1 DEF ConnsIInv, CallsOpen, IsOpening
  <2>3. call[c].want = k
    BY <2>1, <2>2 DEF ConnsIInv, CallsOpen
  <2> QED BY <2>2, <2>3 DEF Opening
\* What close does to the connections.
<1>9. PICK shut \in SUBSET (1..Len(conns)) :
        /\ conns' = IF shut = {} THEN conns
                    ELSE [i \in 1..Len(conns) |-> IF i \in shut THEN [conns[i] EXCEPT !.state = "closed"]
                                                  ELSE conns[i]]
        /\ \A i \in shut : step \in Kinds /\ i = cm[step] /\ conns[i].state # "opening"
        /\ step \in Kinds /\ lifePhase' # "stuck" /\ cm[step] # None => cm[step] \in shut
  <2>1. CASE step \in Kinds /\ lifePhase' # "stuck" /\ cm[step] # None
    <3>1. ~(cm[step] # None /\ conns[cm[step]].state = "opening")
      BY <1>2, <1>3, <2>1 DEF CloseKind, Kinds
    <3>2. conns' = [i \in 1..Len(conns) |-> IF i = cm[step] THEN [conns[i] EXCEPT !.state = "closed"]
                                            ELSE conns[i]]
      BY <1>2, <1>3, <2>1, <3>1 DEF CloseKind, Kinds
    <3>3. cm[step] \in 1..Len(conns) /\ conns[cm[step]].state # "opening"
      BY <1>7, <2>1, <3>1 DEF None
    <3>4. PICK p \in 1..Len(conns) : p = cm[step]
      BY <3>3
    <3>5. conns' = [i \in 1..Len(conns) |-> IF i = p THEN [conns[i] EXCEPT !.state = "closed"]
                                            ELSE conns[i]]
      BY <3>2, <3>4
    <3>6. conns' = [i \in 1..Len(conns) |-> IF i \in {p} THEN [conns[i] EXCEPT !.state = "closed"]
                                            ELSE conns[i]]
      BY <3>5, Zenon
    <3> WITNESS {p} \in SUBSET (1..Len(conns))
    <3> QED BY <2>1, <3>3, <3>4, <3>6
  <2>2. CASE ~(step \in Kinds /\ lifePhase' # "stuck" /\ cm[step] # None)
    <3>1. conns' = conns
      <4>1. CASE step \in Kinds /\ lifePhase' # "stuck"
        <5>1. cm[step] = None
          BY <2>2, <4>1
        <5>2. conns' = [i \in 1..Len(conns) |-> IF i = 0 THEN [conns[i] EXCEPT !.state = "closed"]
                                                ELSE conns[i]]
          BY <1>2, <1>3, <4>1, <5>1 DEF CloseKind, Kinds, None
        <5>3. conns' = [i \in 1..Len(conns) |-> conns[i]]
          BY <5>2
        <5>4. conns = [i \in 1..Len(conns) |-> conns[i]]
          BY <1>7 DEF ConnTypes
        <5> QED BY <5>3, <5>4
      <4>2. CASE step \in Kinds /\ lifePhase' = "stuck"
        <5>1. CloseKind(step)
          BY <1>2, <1>3, <4>2 DEF Kinds
        <5> QED BY <1>1, <4>2, <5>1 DEF CloseKind
      <4>3. CASE step \notin Kinds
        BY <1>2, <4>3
      <4> QED BY <4>1, <4>2, <4>3
    <3> WITNESS {} \in SUBSET (1..Len(conns))
    <3> QED BY <2>2, <3>1
  <2> QED BY <2>1, <2>2
<1>10. /\ conns' \in Seq(ConnRows) /\ Len(conns') = Len(conns)
       /\ \A i \in 1..Len(conns) : /\ conns'[i].state = IF i \in shut THEN "closed" ELSE conns[i].state
                                   /\ conns'[i].kind = conns[i].kind
                                   /\ conns'[i].ready = conns[i].ready /\ conns'[i].alive = conns[i].alive
  <2>1. CASE shut = {}
    BY <1>7, <1>9, <2>1 DEF ConnTypes
  <2>2. CASE shut # {}
    <3>1. \A i \in 1..Len(conns) : [conns[i] EXCEPT !.state = "closed"] \in ConnRows
      BY <1>7 DEF ConnRows
    <3>2. conns' \in [1..Len(conns) -> ConnRows]
      BY <1>7, <1>9, <2>2, <3>1
    <3>3. \A f \in [1..Len(conns) -> ConnRows] : f \in Seq(ConnRows) /\ Len(f) = Len(conns)
      BY <1>7
    <3> QED BY <1>7, <1>9, <2>2, <3>2, <3>3, ZenonT(60) DEF ConnRows
  <2> QED BY <2>1, <2>2
<1>11. /\ lifePhase' \in {"stopping", "stuck", "closed"}
       /\ lifePhase' = "closed" => step = "manager"
       /\ lifePhase' = "stuck" => step \in Kinds /\ Opening(step) /\ UNCHANGED <<cm, inst, given>>
       /\ step \in Kinds /\ lifePhase' # "stuck" =>
             /\ cm' = [cm EXCEPT ![step] = None]
             /\ inst' = IF cm[step] = None THEN inst ELSE [inst EXCEPT ![step] = None]
       /\ step \notin Kinds => UNCHANGED <<cm, inst>>
       /\ step # "manager" => UNCHANGED <<given, adapter>>
       /\ step = "manager" => adapter' = FALSE /\ given' = Nothing /\ lifePhase' = "closed"
  BY <1>1, <1>2, <1>3, <1>8 DEF CloseKind, Kinds
<1>12. /\ cm' \in Numbered(Len(conns)) /\ inst' \in Numbered(Len(conns)) /\ given' \in Numbered(Len(conns))
       /\ \A k \in Kinds : (cm'[k] \in {cm[k], None}) /\ inst'[k] \in {inst[k], None}
                           /\ given'[k] \in {given[k], None}
  <2>1. None \in 0..Len(conns) /\ Nothing \in Numbered(Len(conns)) /\ \A k \in Kinds : Nothing[k] = None
    BY <1>7, NothingNumbered DEF None
  <2>2. cm \in Numbered(Len(conns)) /\ inst \in Numbered(Len(conns)) /\ given \in Numbered(Len(conns))
    BY <1>7 DEF ConnTypes
  <2>3. cm' = cm \/ (step \in Kinds /\ cm' = [cm EXCEPT ![step] = None])
    BY <1>11
  <2>4. inst' = inst \/ (step \in Kinds /\ inst' = [inst EXCEPT ![step] = None])
    BY <1>11
  <2>5. given' = given \/ given' = Nothing
    BY <1>11
  <2>6. cm' \in Numbered(Len(conns)) /\ \A k \in Kinds : cm'[k] \in {cm[k], None}
    BY <2>1, <2>2, <2>3 DEF Numbered
  <2>7. inst' \in Numbered(Len(conns)) /\ \A k \in Kinds : inst'[k] \in {inst[k], None}
    BY <2>1, <2>2, <2>4 DEF Numbered
  <2> QED BY <2>1, <2>2, <2>5, <2>6, <2>7
<1>13. ConnTypes'
  <2>1. steps' \in 0..8 /\ running' \subseteq Loops /\ overlap' \subseteq Kinds
    BY <1>1, <1>7 DEF ConnTypes
  <2>2. adapter' = FALSE \/ adapter' = adapter
    BY <1>11
  <2>3. adapter' \in BOOLEAN
    BY <1>1, <2>2
  <2> QED BY <1>1, <1>7, <1>10, <1>11, <1>12, <2>1, <2>3 DEF ConnTypes
<1>14. StepsDone'
  <2>1. CASE lifePhase' = "stopping"
    <3>4. step = "manager" => lifePhase' = "closed"
      BY <1>11, Zenon
    <3>1. step # "manager" /\ steps # 7
      BY <1>3, <2>1, <3>4
    <3>5. adapter' = adapter
      BY <1>11, <3>1, Zenon
    <3>2. adapter' /\ steps' \in 0..7
      BY <1>1, <3>1, <3>5
    <3>3. running' = Loops \ {Shutdown[i] : i \in 1..steps'}
      BY <1>1, <1>4
    <3> QED BY <2>1, <3>2, <3>3 DEF StepsDone
  <2>2. CASE lifePhase' = "stuck"
    <3>1. step \in Kinds /\ step # "manager"
      BY <1>11, <2>2 DEF Kinds
    <3>2. steps \in {5, 6} /\ running' = {}
      BY <1>3, <1>5, <3>1
    <3>3. adapter' = adapter
      BY <1>11, <3>1, Zenon
    <3> QED BY <1>1, <2>2, <3>2, <3>3 DEF StepsDone
  <2>3. CASE lifePhase' = "closed"
    BY <1>1, <1>3, <1>5, <1>11, <2>3 DEF StepsDone
  <2> QED BY <1>11, <2>1, <2>2, <2>3
<1>15. \A i \in 1..Len(conns) : conns'[i].state = "opening" <=> conns[i].state = "opening"
  BY <1>9, <1>10
<1>16. CallsOpen'
  <2>1. \A c \in Callers : call[c].at \in {"opening", "settingUp"} => call[c].conn \in 1..Len(conns)
    <3>1. \A c \in Callers : call[c].conn \in 0..Len(conns)
      BY <1>7, ConnFacts DEF CallRows
    <3> QED BY <1>7, <3>1 DEF ConnsIInv, CallsOpen, None
  <2>2. lifePhase' \notin {"starting", "serving", "aborted"}
    BY <1>11
  <2>3. \A c, i : IsOpening(c, i)' <=> IsOpening(c, i)
    BY <1>1 DEF IsOpening
  <2> QED BY <1>1, <1>10, <1>15, <2>1, <2>2, <2>3 DEF ConnsIInv, CallsOpen
<1>17. KindsMatch'
  BY <1>7, <1>10, <1>12 DEF KindsMatch, None
<1>18. ASSUME NEW k \in Kinds \ overlap' PROVE OneAtATime(k)'
  <2>1. OneAtATime(k) /\ (Closing => ~Opening(k)) /\ (Opening(k)' <=> Opening(k))
    BY <1>1, <1>18 DEF ConnsIInv, Opening
  <2>2. /\ cm[k] \in 0..Len(conns) /\ inst[k] \in 0..Len(conns) /\ given[k] \in 0..Len(conns)
        /\ KindsMatch /\ Len(conns) \in Nat
    BY <1>7, <1>18
  <2>3. CASE k = step
    <3>1. steps \in {5, 6} /\ Closing /\ ~Opening(k)
      BY <1>3, <1>6, <1>18, <2>1, <2>3
    <3>2. lifePhase' = "stopping" /\ cm' = [cm EXCEPT ![k] = None] /\ Closing' /\ given' = given
          /\ inst' = IF cm[k] = None THEN inst ELSE [inst EXCEPT ![k] = None]
      <4>1. step \in Kinds /\ step # "manager"
        BY <1>18, <2>3 DEF Kinds
      <4>2. lifePhase' = "stopping"
        BY <1>11, <2>3, <3>1, <4>1
      <4>3. steps' >= 4
        BY <1>1, <3>1
      <4> QED BY <1>11, <2>3, <4>1, <4>2, <4>3 DEF Closing
    <3>3. cm'[k] = None /\ inst'[k] = None
      BY <1>1, <1>7, <1>18, <2>1, <3>2 DEF OneAtATime, ConnTypes, Numbered
    <3>4. \A i \in 1..Len(conns) : ~(NotClosed(i)' /\ conns'[i].kind = k)
      <4> SUFFICES ASSUME NEW i \in 1..Len(conns), NotClosed(i)', conns'[i].kind = k PROVE FALSE
        OBVIOUS
      <4>1. NotClosed(i) /\ conns[i].kind = k /\ i \notin shut
        BY <1>10 DEF NotClosed
      <4>2. cm[k] = i
        BY <2>1, <4>1 DEF OneAtATime
      <4> QED BY <1>9, <1>18, <2>3, <3>2, <4>1, <4>2 DEF None
    <3>5. given[k] # None => conns'[given[k]].ready = conns[given[k]].ready
      BY <1>10, <2>2 DEF None
    <3>6. \A c \in Callers : ~(call'[c].want = k /\ call'[c].at = "settingUp")
      BY <1>1, <3>1 DEF Opening
    <3> QED BY <1>1, <1>10, <2>1, <3>1, <3>2, <3>3, <3>4, <3>5, <3>6 DEF OneAtATime
  <2>4. CASE k # step
    <3>1. \A i \in 1..Len(conns) : conns[i].kind = k =>
             conns'[i].state = conns[i].state /\ conns'[i].ready = conns[i].ready
      <4> SUFFICES ASSUME NEW i \in 1..Len(conns), conns[i].kind = k PROVE i \notin shut
        BY <1>10
      <4> QED BY <1>9, <2>2, <2>4 DEF KindsMatch, None
    <3>2. cm'[k] = cm[k] /\ inst'[k] = inst[k]
      BY <1>7, <1>11, <1>18, <2>4 DEF ConnTypes, Numbered
    <3>3. \A i \in 1..Len(conns) : NotClosed(i)' /\ conns'[i].kind = k => NotClosed(i) /\ conns[i].kind = k
      BY <1>10, <3>1 DEF NotClosed
    <3>4. /\ cm[k] # None => conns'[cm[k]].state = conns[cm[k]].state
          /\ inst[k] # None => conns'[inst[k]].state = conns[inst[k]].state
          /\ given[k] # None => conns'[given[k]].ready = conns[given[k]].ready
      BY <2>2, <3>1 DEF KindsMatch, None
    <3>5. CASE step = "manager"
      <4>1. given'[k] = None /\ lifePhase' = "closed" /\ ~Opening(k) /\ lifePhase = "stopping"
        BY <1>1, <1>3, <1>6, <1>11, <1>18, <2>1, <3>5, NothingNumbered, <2>2
      <4>2. \A c \in Callers : ~(call'[c].want = k /\ call'[c].at = "settingUp")
        BY <1>1, <4>1 DEF Opening
      <4> QED BY <1>10, <2>1, <3>2, <3>3, <3>4, <4>1, <4>2 DEF OneAtATime
    <3>6. CASE step # "manager"
      <4>1. given' = given /\ lifePhase' \in {"stopping", "stuck"} /\ lifePhase = "stopping" /\ (Closing => Closing' \/ lifePhase' = "stuck")
        <5>1. given' = given /\ lifePhase' \in {"stopping", "stuck"}
          BY <1>11, <3>6
        <5>2. Closing => steps' >= 4
          BY <1>1, <1>6
        <5> QED BY <1>1, <5>1, <5>2 DEF Closing
      <4> QED BY <1>1, <1>10, <2>1, <3>2, <3>3, <3>4, <4>1 DEF OneAtATime
    <3> QED BY <3>5, <3>6
  <2> QED BY <2>3, <2>4
<1>19. GotShared'
  BY <1>11 DEF GotShared
<1>20. FaultsShow'
  BY <1>1, <1>10, <1>11 DEF ConnsIInv, FaultsShow
<1> QED BY <1>13, <1>14, <1>16, <1>17, <1>18, <1>19, <1>20 DEF ConnsIInv

---------------------------------------------------------------------------
(* The callers.                                                            *)

LEMMA OpeningMeans ==
    ASSUME ConnTypes, NEW c \in Callers, NEW x, call' = [call EXCEPT ![c] = x], NEW k
    PROVE  /\ x.at \notin {"opening", "settingUp"} \/ x.want # k =>
                (Opening(k)' => \E d \in Callers : d # c /\ call[d].want = k
                                                         /\ call[d].at \in {"opening", "settingUp"})
           /\ call[c].at \notin {"opening", "settingUp"} \/ call[c].want # k =>
                (Opening(k) => Opening(k)')
           /\ (\E d \in Callers : d # c /\ call[d].want = k /\ call[d].at \in {"opening", "settingUp"})
                 => Opening(k)' /\ Opening(k)
BY CallUpdate, ZenonT(60) DEF Opening

\* What the steps of the callers do to the calls: only Ask makes a connection.
LEMMA CallsOpenStep ==
    ASSUME ConnTypes, CallsOpen, NEW c \in Callers, NEW x, call' = [call EXCEPT ![c] = x],
           UNCHANGED <<lifePhase, setupOnInit>>, Len(conns') = Len(conns),
           \A j \in 1..Len(conns) :
               /\ conns'[j].kind = conns[j].kind
               /\ \/ conns'[j].state = conns[j].state
                  \/ call[c].at = "opening" /\ j = call[c].conn,
           call[c].at = "opening" => conns'[call[c].conn].state # "opening",
           x.at # "idle" => x.want \in Kinds, x.at = "finishing" => x.want = "store",
           x.at # "opening",
           x.at = "settingUp" => /\ call[c].at = "opening" /\ x.conn = call[c].conn
                                 /\ x.want = call[c].want /\ setupOnInit
                                 /\ conns'[x.conn].state = "open",
           lifePhase # "aborted", lifePhase = "starting" => c \notin Askers
    PROVE  CallsOpen'
<1>1. call'[c] = x /\ \A d \in Callers : d # c => call'[d] = call[d]
  BY CallUpdate
<1>2. Len(conns) \in Nat /\ \A d \in Callers : call[d].conn \in 0..Len(conns)
  BY ConnFacts DEF CallRows
<1>3. \A d \in Callers : call[d].at \in {"opening", "settingUp"} =>
         /\ call[d].conn \in 1..Len(conns) /\ conns[call[d].conn].kind = call[d].want
         /\ d # c /\ call[c].at = "opening" => call[d].conn # call[c].conn
  BY <1>2 DEF CallsOpen, None
<1>4. ASSUME NEW d \in Callers
      PROVE  /\ call'[d].at # "idle" => call'[d].want \in Kinds
             /\ call'[d].at = "finishing" => call'[d].want = "store"
             /\ call'[d].at \in {"opening", "settingUp"} =>
                   call'[d].conn # None /\ conns'[call'[d].conn].kind = call'[d].want
             /\ call'[d].at = "opening" => conns'[call'[d].conn].state = "opening"
             /\ call'[d].at = "settingUp" => /\ setupOnInit /\ conns'[call'[d].conn].state # "opening"
                                             /\ lifePhase \in {"starting", "serving"} =>
                                                   conns'[call'[d].conn].state = "open"
  <2>1. CASE d = c
    <3>1. x.at = "settingUp" => x.conn \in 1..Len(conns) /\ conns'[x.conn].kind = x.want
      BY <1>3
    <3> QED BY <1>1, <2>1, <3>1 DEF None
  <2>2. CASE d # c
    <3>1. call'[d] = call[d]
      BY <1>1, <2>2
    <3>2. call[d].at \in {"opening", "settingUp"} =>
             /\ conns'[call[d].conn].kind = conns[call[d].conn].kind
             /\ conns'[call[d].conn].state = conns[call[d].conn].state
      BY <1>3, <2>2
    <3> QED BY <3>1, <3>2 DEF CallsOpen
  <2> QED BY <2>1, <2>2
<1>5. ASSUME NEW d \in Callers, NEW e \in Callers, d # e, call'[d].at \in {"opening", "settingUp"},
             call'[e].at \in {"opening", "settingUp"}
      PROVE  call'[d].conn # call'[e].conn
  <2>1. \A u \in Callers : call'[u].at \in {"opening", "settingUp"} =>
           call[u].at \in {"opening", "settingUp"} /\ call'[u].conn = call[u].conn
    BY <1>1
  <2> QED BY <1>5, <2>1 DEF CallsOpen
<1>6. ASSUME NEW i \in 1..Len(conns'), conns'[i].state = "opening"
      PROVE  \E d \in Callers : IsOpening(d, i)'
  <2>1. conns[i].state = "opening" /\ ~(call[c].at = "opening" /\ i = call[c].conn)
    BY <1>6
  <2>2. PICK d \in Callers : call[d].at = "opening" /\ call[d].conn = i
    BY <1>6, <2>1 DEF CallsOpen, IsOpening
  <2>3. d # c
    BY <2>1, <2>2
  <2> QED BY <1>1, <2>2, <2>3 DEF IsOpening
<1>7. lifePhase = "starting" => \A d \in Askers : call'[d] = Resting
  BY <1>1 DEF CallsOpen, Callers
<1> QED BY <1>4, <1>5, <1>6, <1>7 DEF CallsOpen

LEMMA NotStarting ==
    ASSUME ConnsIInv, NEW c \in Callers, call[c].at # "idle"
    PROVE  lifePhase # "aborted" /\ (lifePhase = "starting" => c \notin Askers) /\ call[c].want \in Kinds
BY DEF ConnsIInv, CallsOpen, Resting

\* A call that moves and opens nothing, by which no place of a connection changes.
LEMMA CallMoves ==
    ASSUME ConnsIInv, NEW c \in Callers, NEW x, call' = [call EXCEPT ![c] = x],
           x \in CallRows(Len(conns)),
           UNCHANGED <<setupOnInit, lifePhase, steps, running, adapter, keptVars, conns, overlap>>,
           bootGraphs' \subseteq Graphs,
           call[c].at \notin {"opening", "settingUp"}, x.at \notin {"opening", "settingUp"},
           x.at # "idle" => x.want \in Kinds, x.at = "finishing" => x.want = "store",
           lifePhase # "aborted", lifePhase = "starting" => c \notin Askers,
           compiled' \in [Graphs -> {NotCompiled} \cup Numbered(Len(conns))],
           spoiled' = spoiled, dbFaults' = dbFaults, GotShared',
           c \in Askers /\ dbFaults = 0 /\ lifePhase = "serving" => ~x.bad /\ ~x.failed
    PROVE  ConnsIInv'
<1>1. /\ call'[c] = x /\ \A d \in Callers : d # c => call'[d] = call[d]
      /\ call' \in [Callers -> CallRows(Len(conns))]
  <2>1. Len(conns) \in Nat /\ Len(conns) <= Len(conns) /\ ConnTypes
    BY ConnFacts DEF ConnsIInv
  <2> QED BY <2>1, CallUpdate
<1>2. ConnTypes' /\ StepsDone' /\ KindsMatch'
  BY <1>1 DEF ConnsIInv, ConnTypes, StepsDone, KindsMatch, keptVars
<1>3. CallsOpen'
  BY CallsOpenStep DEF ConnsIInv
<1>4. ASSUME NEW k \in Kinds \ overlap' PROVE OneAtATime(k)'
  <2>1. OneAtATime(k) /\ (Opening(k)' <=> Opening(k)) /\ (Closing' <=> Closing)
    BY <1>4, OpeningMeans DEF ConnsIInv, Closing, Opening
  <2>2. \A d \in Callers : call'[d].at = "settingUp" => call'[d] = call[d]
    BY <1>1
  <2> QED BY <2>1, <2>2 DEF OneAtATime, NotClosed, keptVars
<1>5. FaultsShow'
  BY <1>1 DEF ConnsIInv, FaultsShow, Callers
<1> QED BY <1>2, <1>3, <1>4, <1>5 DEF ConnsIInv

LEMMA BeginSound ==
    ASSUME ConnsIInv, NEW c \in Callers, NEW op \in {"graph", "health", "ready", "store"},
           NEW g \in Graphs \cup {"none"}, Begin(c, op, g), bootGraphs' \subseteq Graphs,
           lifePhase # "aborted", lifePhase = "starting" => c \notin Askers
    PROVE  ConnsIInv'
<1> PICK want \in Kinds : want = IF op = "store" THEN "store" ELSE "checkpointer"
  BY DEF Kinds
<1> DEFINE x == [Resting EXCEPT !.op = op, !.graph = g, !.at = "asking", !.want = want]
<1>1. /\ call[c].at = "idle" /\ call' = [call EXCEPT ![c] = x]
      /\ UNCHANGED <<setupOnInit, lifePhase, steps, running, adapter, keptVars, conns, compiled, overlap,
                     spoiled, dbFaults>>
  BY DEF Begin
<1>2. Len(conns) \in Nat /\ Resting \in CallRows(Len(conns)) /\ ~Resting.bad /\ ~Resting.failed
  BY ConnFacts, NothingNumbered DEF ConnsIInv
<1>3. /\ x \in CallRows(Len(conns)) /\ x.op = op /\ x.at = "asking" /\ x.want = want
      /\ x.bad = Resting.bad /\ x.failed = Resting.failed
  BY <1>2, ZenonT(60) DEF CallRows
<1>4. op = "graph" => want = "checkpointer"
  OBVIOUS
<1> HIDE DEF x
<1>5. GotShared'
  <2>1. /\ call'[c] = x /\ \A d \in Callers : d # c => call'[d] = call[d]
    BY <1>1, CallUpdate DEF ConnsIInv
  <2>2. \A d \in Callers : \A k : HasBeenGiven(d, k)' => call'[d] = call[d] /\ HasBeenGiven(d, k)
    BY <1>3, <1>4, <2>1 DEF HasBeenGiven
  <2>3. UNCHANGED <<lifePhase, overlap, compiled, given>>
    BY <1>1 DEF keptVars
  <2>4. \A d \in Callers : \A k : HasBeenGiven(d, k)' => call'[d].got = call[d].got /\ HasBeenGiven(d, k)
    BY <2>2
  <2>5. GotShared
    BY DEF ConnsIInv
  <2> HIDE DEF HasBeenGiven
  <2> QED BY <2>3, <2>4, <2>5 DEF GotShared
<1>6. compiled' \in [Graphs -> {NotCompiled} \cup Numbered(Len(conns))]
  BY <1>1 DEF ConnsIInv, ConnTypes
<1> QED BY <1>1, <1>2, <1>3, <1>5, <1>6, CallMoves

LEMMA BootSound ==
    ASSUME ConnsIInv, BootGraph
    PROVE  ConnsIInv'
<1>1. PICK g \in Graphs \ bootGraphs :
         /\ bootGraphs' = bootGraphs \cup {g}
         /\ \/ Begin(Boot, "graph", g)
            \/ /\ call[Boot].at = "idle"
               /\ UNCHANGED <<setupOnInit, lifePhase, steps, running, adapter, keptVars,
                              conns, compiled, call, overlap, spoiled, dbFaults>>
  BY DEF BootGraph
<1>2. /\ lifePhase = "starting" /\ Boot \in Callers /\ Boot \notin Askers /\ bootGraphs' \subseteq Graphs
      /\ Startup[steps + 1] = "graphs"
  BY <1>1, ConnectionsAssumption DEF ConnsIInv, ConnTypes, BootGraph, Callers
<1>3. CASE Begin(Boot, "graph", g)
  BY <1>2, <1>3, BeginSound
<1>4. CASE UNCHANGED <<setupOnInit, lifePhase, steps, running, adapter, keptVars,
                       conns, compiled, call, overlap, spoiled, dbFaults>>
  <2>1. steps # 0
    <3>1. SUFFICES ASSUME steps = 0 PROVE FALSE
      OBVIOUS
    <3>2. steps + 1 = 1
      BY <3>1
    <3> QED BY <1>2, <3>2, StartupSteps
  <2>2. StepsDone' /\ steps' \in 0..8 /\ adapter' \in BOOLEAN /\ running' \subseteq Loops
    BY <1>4 DEF ConnsIInv, ConnTypes, StepsDone
  <2> QED BY <1>2, <1>4, <2>1, <2>2, LifeGoesOn
<1> QED BY <1>1, <1>3, <1>4

LEMMA AskerSound ==
    ASSUME ConnsIInv, NEW c \in Askers, Request(c)
    PROVE  ConnsIInv'
<1>1. lifePhase \in {"serving", "stopping", "closed"} /\ bootGraphs' = bootGraphs /\ c \in Callers
  BY DEF Request, Callers
<1>2. bootGraphs' \subseteq Graphs
  BY <1>1 DEF ConnsIInv, ConnTypes
<1>3. PICK op \in {"graph", "health", "ready", "store"}, g \in Graphs \cup {"none"} : Begin(c, op, g)
  BY DEF Request
<1> QED BY <1>1, <1>2, <1>3, BeginSound

LEMMA LoseSound ==
    ASSUME ConnsIInv, LoseConnection
    PROVE  ConnsIInv'
<1>1. PICK i \in 1..Len(conns) :
        conns[i].state = "open" /\ conns' = [conns EXCEPT ![i].alive = FALSE]
  BY DEF LoseConnection
<1>2. /\ UNCHANGED <<setupOnInit, lifePhase, steps, running, adapter, bootGraphs, cm, inst, given, compiled,
                     call, overlap, spoiled>>
      /\ Fault
  BY DEF LoseConnection, lifeVars, keptVars
<1>3. /\ Len(conns) \in Nat /\ \A j \in 1..Len(conns) : conns[j] \in ConnRows
      /\ \A k \in Kinds : /\ cm[k] \in 0..Len(conns) /\ inst[k] \in 0..Len(conns)
                          /\ given[k] \in 0..Len(conns)
      /\ ConnTypes
  BY ConnFacts DEF ConnsIInv
<1> DEFINE y == [conns[i] EXCEPT !.alive = FALSE]
<1>4. y \in ConnRows /\ y.state = conns[i].state /\ y.kind = conns[i].kind /\ y.ready = conns[i].ready
  BY <1>3 DEF ConnRows
<1>5. conns' = [conns EXCEPT ![i] = y]
  BY <1>1
<1> HIDE DEF y
<1>6. /\ conns' \in Seq(ConnRows) /\ Len(conns') = Len(conns)
      /\ \A j \in 1..Len(conns) : /\ conns'[j].state = conns[j].state /\ conns'[j].kind = conns[j].kind
                                  /\ conns'[j].ready = conns[j].ready
  BY <1>3, <1>4, <1>5, ConnUpdate, ZenonT(60)
<1>7. dbFaults' \in 0..MaxDbFaults /\ dbFaults' > 0
  BY <1>2, ConnectionsAssumption DEF ConnsIInv, ConnTypes, Fault
<1>8. ConnTypes'
  BY <1>2, <1>6, <1>7 DEF ConnsIInv, ConnTypes
<1>9. StepsDone'
  <2>1. conns # <<>>
    BY <1>1, <1>3
  <2> QED BY <1>2, <2>1 DEF ConnsIInv, StepsDone
<1>10. CallsOpen'
  <2>1. lifePhase # "aborted"
    BY <1>1 DEF ConnsIInv, CallsOpen
  <2>2. \A c \in Callers : call[c].at \in {"opening", "settingUp"} => call[c].conn \in 1..Len(conns)
    <3>1. \A c \in Callers : call[c].conn \in 0..Len(conns)
      BY <1>3, ConnFacts DEF CallRows
    <3> QED BY <1>3, <3>1 DEF ConnsIInv, CallsOpen, None
  <2>3. \A c, j : IsOpening(c, j)' <=> IsOpening(c, j)
    BY <1>2 DEF IsOpening
  <2> QED BY <1>2, <1>6, <2>1, <2>2, <2>3 DEF ConnsIInv, CallsOpen
<1>11. KindsMatch'
  BY <1>2, <1>3, <1>6 DEF ConnsIInv, KindsMatch, None
<1>12. ASSUME NEW k \in Kinds \ overlap PROVE OneAtATime(k)'
  <2>1. OneAtATime(k) /\ (Opening(k)' <=> Opening(k)) /\ (Closing' <=> Closing)
    BY <1>2, <1>12 DEF ConnsIInv, Opening, Closing
  <2>2. /\ cm[k] # None => conns'[cm[k]].state = conns[cm[k]].state
        /\ inst[k] # None => conns'[inst[k]].state = conns[inst[k]].state
        /\ given[k] # None => conns'[given[k]].ready = conns[given[k]].ready
    BY <1>3, <1>6, <1>12 DEF None
  <2>3. \A j \in 1..Len(conns') : NotClosed(j)' /\ conns'[j].kind = k => cm[k] = j
    BY <1>6, <2>1 DEF OneAtATime, NotClosed
  <2> QED BY <1>2, <2>1, <2>2, <2>3 DEF OneAtATime
<1>13. GotShared'
  BY <1>2 DEF ConnsIInv, GotShared, HasBeenGiven
<1>14. FaultsShow'
  BY <1>7 DEF FaultsShow
<1> QED BY <1>2, <1>8, <1>9, <1>10, <1>11, <1>12, <1>13, <1>14 DEF ConnsIInv

\* Two calls that open a kind have met, and the overlap remembers it.
LEMMA OnlyOpener ==
    ASSUME ConnsIInv, NEW k \in Kinds \ overlap, NEW c \in Callers, NEW d \in Callers,
           call[c].want = k, call[c].at \in {"opening", "settingUp"},
           call[d].want = k, call[d].at \in {"opening", "settingUp"}
    PROVE  c = d
<1> SUFFICES ASSUME c # d PROVE FALSE
  OBVIOUS
<1>1. call[c].conn # call[d].conn /\ lifePhase # "aborted" /\ OneAtATime(k)
  BY DEF ConnsIInv, CallsOpen
<1>2. ASSUME NEW e \in Callers, call[e].want = k, call[e].at \in {"opening", "settingUp"}
      PROVE  cm[k] = call[e].conn
  <2>1. call[e].conn \in 1..Len(conns) /\ conns[call[e].conn].kind = k
    <3>1. call[e].conn \in 0..Len(conns) /\ Len(conns) \in Nat
      BY ConnFacts DEF ConnsIInv, CallRows
    <3> QED BY <1>2, <3>1 DEF ConnsIInv, CallsOpen, None
  <2>2. CASE call[e].at = "opening"
    <3>1. NotClosed(call[e].conn)
      BY <2>2 DEF ConnsIInv, CallsOpen, NotClosed
    <3> QED BY <1>1, <2>1, <3>1 DEF OneAtATime
  <2>3. CASE call[e].at = "settingUp"
    <3>1. inst[k] = call[e].conn /\ inst[k] # None
      BY <1>1, <1>2, <2>1, <2>3 DEF OneAtATime, None
    <3> QED BY <1>1, <3>1 DEF OneAtATime
  <2> QED BY <1>2, <2>2, <2>3
<1> QED BY <1>1, <1>2

\* A step of a caller leaves the other kind as it was.
LEMMA OtherKinds ==
    ASSUME ConnsIInv, NEW c \in Callers, NEW x, call' = [call EXCEPT ![c] = x],
           NEW k, call[c].want = k, x.at \notin {"opening", "settingUp"} \/ x.want = k,
           NEW j \in Kinds \ overlap, j # k,
           UNCHANGED <<lifePhase, setupOnInit, steps>>,
           cm'[j] = cm[j], inst'[j] = inst[j], given'[j] = given[j],
           \A i \in 1..Len(conns) : conns[i].kind = j =>
               conns'[i].state = conns[i].state /\ conns'[i].ready = conns[i].ready,
           \A i \in 1..Len(conns') : conns'[i].kind = j => i \in 1..Len(conns) /\ conns[i].kind = j,
           spoiled \subseteq spoiled'
    PROVE  OneAtATime(j)'
<1>1. OneAtATime(j) /\ ConnTypes /\ KindsMatch
  BY DEF ConnsIInv
<1>2. call'[c] = x /\ \A d \in Callers : d # c => call'[d] = call[d]
  BY <1>1, CallUpdate
<1>3. (Opening(j)' <=> Opening(j)) /\ (Closing' <=> Closing)
  BY <1>1, OpeningMeans, ZenonT(60) DEF Closing
<1>4. \A d \in Callers : call'[d].want = j /\ call'[d].at = "settingUp" => call'[d] = call[d]
  BY <1>2
<1>5. /\ cm[j] # None => conns'[cm[j]].state = conns[cm[j]].state
      /\ inst[j] # None => conns'[inst[j]].state = conns[inst[j]].state
      /\ given[j] # None => conns'[given[j]].ready = conns[given[j]].ready
  <2>1. \A i \in 0..Len(conns) : i # None => i \in 1..Len(conns)
    BY <1>1, ConnFacts DEF None
  <2>2. cm[j] \in 0..Len(conns) /\ inst[j] \in 0..Len(conns) /\ given[j] \in 0..Len(conns)
    BY <1>1, ConnFacts
  <2> QED BY <1>1, <2>1, <2>2 DEF KindsMatch
<1>6. \A i \in 1..Len(conns') : NotClosed(i)' /\ conns'[i].kind = j => cm[j] = i
  BY <1>1 DEF OneAtATime, NotClosed
<1> QED BY <1>1, <1>3, <1>4, <1>5, <1>6 DEF OneAtATime

\* What a caller has been given is shared as long as DatabaseManager keeps it.
LEMMA GotStays ==
    ASSUME ConnsIInv, NEW c \in Callers, NEW x, call' = [call EXCEPT ![c] = x],
           UNCHANGED <<lifePhase, compiled, given>>, overlap \subseteq overlap',
           \/ x.op # "graph"
           \/ /\ x.at \notin {"idle", "finishing"} /\ call[c].at \notin {"idle", "finishing"}
              /\ x.want = call[c].want /\ x.op = call[c].op /\ x.got = call[c].got
    PROVE  GotShared'
<1>1. call'[c] = x /\ \A d \in Callers : d # c => call'[d] = call[d]
  BY CallUpdate DEF ConnsIInv
<1>2. \A d \in Callers : \A k : HasBeenGiven(d, k)' => call'[d].got = call[d].got /\ HasBeenGiven(d, k)
  BY <1>1 DEF HasBeenGiven
<1>3. GotShared
  BY DEF ConnsIInv
<1> HIDE DEF HasBeenGiven
<1> QED BY <1>2, <1>3 DEF GotShared

LEMMA GotAfter ==
    ASSUME ConnsIInv, NEW c \in Callers, NEW v \in 0..Len(conns), call[c].at # "idle",
           call[c].want \in Kinds,
           call' = [call EXCEPT ![c] = After(c, v)], given' = [given EXCEPT ![call[c].want] = v],
           UNCHANGED <<lifePhase, compiled>>, overlap \subseteq overlap',
           call[c].want \notin overlap' => v # None /\ (given[call[c].want] # None => v = given[call[c].want])
    PROVE  GotShared'
<1> DEFINE x == After(c, v)
<1> PICK w \in Kinds : w = call[c].want
  OBVIOUS
<1>1. ConnTypes /\ GotShared
  BY DEF ConnsIInv
<1>2. /\ x.op = call[c].op /\ x.want = "store" /\ x.at = IF w = "checkpointer" THEN "asking" ELSE "finishing"
      /\ x.got[w] = v /\ \A k \in Kinds : k # w => x.got[k] = call[c].got[k]
  BY <1>1, AfterFields
<1>3. call'[c] = x /\ \A d \in Callers : d # c => call'[d] = call[d]
  BY <1>1, CallUpdate
<1>4. given'[w] = v /\ \A k \in Kinds : k # w => given'[k] = given[k]
  BY <1>1 DEF ConnTypes, Numbered
<1> HIDE DEF x
<1>5. ASSUME NEW k \in Kinds \ overlap', lifePhase' \in {"starting", "serving"}
      PROVE  /\ \A d \in Callers : HasBeenGiven(d, k)' => call'[d].got[k] # None /\ call'[d].got[k] = given'[k]
             /\ \A g \in Graphs : compiled'[g] \notin {NotCompiled, Nothing} =>
                    compiled'[g][k] # None /\ compiled'[g][k] = given'[k]
  <2>1. k \in Kinds \ overlap /\ lifePhase \in {"starting", "serving"}
    BY <1>5
  <2>2. given[k] # None => given'[k] = given[k]
    BY <1>4, <1>5
  <2>3. ASSUME NEW d \in Callers, HasBeenGiven(d, k)'
        PROVE  call'[d].got[k] # None /\ call'[d].got[k] = given'[k]
    <3>1. CASE d # c
      <4>1. HasBeenGiven(d, k) /\ call'[d] = call[d]
        BY <1>3, <2>3, <3>1 DEF HasBeenGiven
      <4>2. call[d].got[k] # None /\ call[d].got[k] = given[k]
        BY <1>1, <2>1, <4>1 DEF GotShared
      <4> QED BY <2>2, <4>1, <4>2
    <3>2. CASE d = c /\ k = w
      BY <1>2, <1>3, <1>4, <1>5, <3>2
    <3>3. CASE d = c /\ k # w
      <4>1. x.op = "graph" /\ x.at # "idle" /\ (x.at = "finishing" \/ k = "checkpointer")
        BY <1>3, <2>3, <3>3 DEF HasBeenGiven
      <4>2. w = "store" /\ k = "checkpointer"
        BY <1>2, <3>3, <4>1 DEF Kinds
      <4>3. HasBeenGiven(c, k)
        BY <1>2, <4>1, <4>2 DEF HasBeenGiven
      <4>4. call[c].got[k] # None /\ call[c].got[k] = given[k]
        BY <1>1, <2>1, <4>3 DEF GotShared
      <4> QED BY <1>2, <1>3, <2>2, <3>3, <4>4
    <3> QED BY <3>1, <3>2, <3>3
  <2>4. \A g \in Graphs : compiled'[g] \notin {NotCompiled, Nothing} =>
           compiled'[g][k] # None /\ compiled'[g][k] = given'[k]
    BY <1>1, <2>1, <2>2 DEF GotShared
  <2> QED BY <2>3, <2>4
<1> QED BY <1>5 DEF GotShared

LEMMA AskNoAdapter ==
    ASSUME ConnsIInv, NEW c \in Callers, Ask(c), ~adapter
    PROVE  ConnsIInv'
<1> DEFINE x == AfterError(c)
<1>1. /\ call[c].at = "asking" /\ call' = [call EXCEPT ![c] = x]
      /\ UNCHANGED <<setupOnInit, lifePhase, steps, running, adapter, bootGraphs, keptVars, conns, overlap,
                     compiled, spoiled, dbFaults>>
  BY DEF Ask, lifeVars
<1>2. ConnTypes /\ lifePhase # "serving" /\ bootGraphs \subseteq Graphs
      /\ compiled \in [Graphs -> {NotCompiled} \cup Numbered(Len(conns))]
  BY DEF ConnsIInv, ConnTypes, StepsDone
<1>3. /\ x \in CallRows(Len(conns)) /\ x.at \in {"idle", "asking"} /\ x.op # "graph"
      /\ x.at = "asking" => x.want = "store"
  BY <1>2, ErrorFields
<1>4. lifePhase # "aborted" /\ (lifePhase = "starting" => c \notin Askers)
  BY <1>1, NotStarting
<1> HIDE DEF x
<1>5. GotShared'
  BY <1>1, <1>3, GotStays DEF keptVars
<1>6. x.at # "idle" => x.want \in Kinds
  BY <1>3 DEF Kinds
<1> QED BY <1>1, <1>2, <1>3, <1>4, <1>5, <1>6, CallMoves

LEMMA AskKnown ==
    ASSUME ConnsIInv, NEW c \in Callers, Ask(c), adapter, Known(call[c].want) # None
    PROVE  ConnsIInv'
<1>1. call[c].at = "asking" /\ lifePhase # "aborted" /\ (lifePhase = "starting" => c \notin Askers)
      /\ call[c].want \in Kinds /\ lifePhase # "closed"
  BY NotStarting DEF Ask, ConnsIInv, StepsDone
<1> PICK k \in Kinds : k = call[c].want
  BY <1>1
<1> PICK v : v = Known(k)
  OBVIOUS
<1> DEFINE x == After(c, v)
<1>2. /\ given' = [given EXCEPT ![k] = v] /\ call' = [call EXCEPT ![c] = x]
      /\ overlap' = overlap \cup {z \in {k} : given[k] = None /\ Opening(k)}
      /\ UNCHANGED <<setupOnInit, lifePhase, steps, running, adapter, bootGraphs, cm, inst, conns, compiled,
                     spoiled, dbFaults>>
  BY DEF Ask, lifeVars
<1>3. /\ ConnTypes /\ KindsMatch /\ Len(conns) \in Nat
      /\ \A j \in Kinds : /\ cm[j] \in 0..Len(conns) /\ inst[j] \in 0..Len(conns)
                          /\ given[j] \in 0..Len(conns)
  BY ConnFacts DEF ConnsIInv
<1>4. /\ v = IF given[k] # None THEN given[k] ELSE inst[k]
      /\ v # None /\ v \in 1..Len(conns) /\ conns[v].kind = k
  <2>1. v = IF given[k] # None THEN given[k] ELSE inst[k]
    BY DEF Known
  <2>2. v # None
    OBVIOUS
  <2> QED BY <1>3, <2>1, <2>2 DEF KindsMatch, None
<1>5. /\ x \in CallRows(Len(conns)) /\ x.want = "store" /\ x.at \in {"asking", "finishing"}
      /\ x.bad = call[c].bad /\ x.failed = call[c].failed
  BY <1>1, <1>3, <1>4, AfterFields
<1>6. GotShared'
  BY <1>1, <1>2, <1>3, <1>4, GotAfter
<1> HIDE DEF x
<1>7. /\ call'[c] = x /\ \A d \in Callers : d # c => call'[d] = call[d]
      /\ call' \in [Callers -> CallRows(Len(conns))]
  <2>1. Len(conns) <= Len(conns)
    BY <1>3
  <2> QED BY <1>2, <1>3, <1>5, <2>1, CallUpdate
<1>8. given' \in Numbered(Len(conns)) /\ given'[k] = v /\ \A j \in Kinds : j # k => given'[j] = given[j]
  BY <1>2, <1>3, <1>4 DEF ConnTypes, Numbered
<1>9. ConnTypes'
  BY <1>2, <1>3, <1>7, <1>8 DEF ConnTypes
<1>10. StepsDone'
  BY <1>2 DEF ConnsIInv, StepsDone
<1>11. CallsOpen'
  BY <1>1, <1>2, <1>5, CallsOpenStep DEF ConnsIInv, Kinds
<1>12. KindsMatch'
  BY <1>2, <1>3, <1>4, <1>8 DEF KindsMatch
<1>13. ASSUME NEW j \in Kinds \ overlap' PROVE OneAtATime(j)'
  <2>1. j \in Kinds \ overlap /\ OneAtATime(j)
    BY <1>2, <1>13 DEF ConnsIInv
  <2>2. CASE j # k
    <3>1. /\ cm'[j] = cm[j] /\ inst'[j] = inst[j] /\ given'[j] = given[j]
          /\ \A i \in 1..Len(conns) : conns'[i].state = conns[i].state /\ conns'[i].ready = conns[i].ready
          /\ \A i \in 1..Len(conns') : i \in 1..Len(conns) /\ conns'[i].kind = conns[i].kind
          /\ spoiled \subseteq spoiled' /\ UNCHANGED <<lifePhase, setupOnInit, steps>>
          /\ x.at \notin {"opening", "settingUp"}
      BY <1>2, <1>5, <1>8, <2>1, <2>2
    <3> QED BY <1>2, <2>1, <2>2, <3>1, OtherKinds
  <2>3. CASE j = k
    <3>1. given[k] = None => ~Opening(k)
      BY <1>2, <1>13, <2>3
    <3>2. ~Opening(k)
      BY <2>1, <2>3, <3>1 DEF OneAtATime
    <3>3. ~Opening(k)' /\ (Closing' <=> Closing)
      BY <1>2, <1>3, <1>5, <3>2, OpeningMeans DEF Opening, Closing
    <3>4. \A d \in Callers : ~(call'[d].want = k /\ call'[d].at = "settingUp")
      BY <3>3 DEF Opening
    <3>5. given'[k] # None /\ ~Closing /\ lifePhase \in {"starting", "serving", "stopping"} => given'[k] = inst[k]
      BY <1>4, <1>8, <2>1, <2>3 DEF OneAtATime
    <3>6. setupOnInit /\ k \notin spoiled => conns[v].ready
      <4>1. CASE given[k] # None
        BY <1>4, <2>1, <2>3, <4>1 DEF OneAtATime
      <4>2. CASE given[k] = None
        BY <1>1, <1>4, <2>1, <2>3, <3>2, <4>2 DEF OneAtATime
      <4> QED BY <4>1, <4>2
    <3>7. \A i \in 1..Len(conns') : NotClosed(i)' /\ conns'[i].kind = k => cm[k] = i
      BY <1>2, <2>1, <2>3 DEF OneAtATime, NotClosed
    <3>8. given'[k] # None /\ lifePhase' # "closed"
      BY <1>1, <1>2, <1>4, <1>8
    <3> QED BY <1>2, <1>8, <2>1, <2>3, <3>3, <3>4, <3>5, <3>6, <3>7, <3>8 DEF OneAtATime
  <2> QED BY <2>2, <2>3
<1>14. FaultsShow'
  BY <1>2, <1>5, <1>7 DEF ConnsIInv, FaultsShow, Callers
<1> QED BY <1>6, <1>9, <1>10, <1>11, <1>12, <1>13, <1>14 DEF ConnsIInv

LEMMA AskOpens ==
    ASSUME ConnsIInv, NEW c \in Callers, Ask(c), adapter, Known(call[c].want) = None
    PROVE  ConnsIInv'
<1>1. call[c].at = "asking" /\ lifePhase # "aborted" /\ (lifePhase = "starting" => c \notin Askers)
      /\ call[c].want \in Kinds /\ lifePhase # "closed"
  BY NotStarting DEF Ask, ConnsIInv, StepsDone
<1> PICK k \in Kinds : k = call[c].want
  BY <1>1
<1>2. /\ ConnTypes /\ KindsMatch /\ Len(conns) \in Nat /\ \A i \in 1..Len(conns) : conns[i] \in ConnRows
      /\ \A j \in Kinds : /\ cm[j] \in 0..Len(conns) /\ inst[j] \in 0..Len(conns)
                          /\ given[j] \in 0..Len(conns)
      /\ \A d \in Callers : call[d] \in CallRows(Len(conns))
  BY ConnFacts DEF ConnsIInv
<1> PICK n \in Nat : n = Len(conns) + 1
  BY <1>2
<1> DEFINE x == [call[c] EXCEPT !.at = "opening", !.conn = n]
           y == [kind |-> k, state |-> "opening", ready |-> FALSE, alive |-> TRUE]
<1>3. /\ conns' = Append(conns, y) /\ cm' = [cm EXCEPT ![k] = n] /\ call' = [call EXCEPT ![c] = x]
      /\ overlap' = overlap \cup {z \in {k} : Opening(k) \/ Closing}
      /\ UNCHANGED <<setupOnInit, lifePhase, steps, running, adapter, bootGraphs, inst, given, compiled,
                     spoiled, dbFaults>>
  <2>1. ~(Known(k) # None) /\ ~(~adapter)
    OBVIOUS
  <2>2. /\ conns' = Append(conns, y) /\ cm' = [cm EXCEPT ![k] = Len(conns) + 1]
        /\ call' = [call EXCEPT ![c].at = "opening", ![c].conn = Len(conns) + 1]
        /\ overlap' = overlap \cup {z \in {k} : Opening(k) \/ Closing}
        /\ UNCHANGED <<inst, given>>
    BY <2>1 DEF Ask
  <2>3. [call EXCEPT ![c].at = "opening", ![c].conn = Len(conns) + 1] = [call EXCEPT ![c] = x]
    <3>1. call \in [Callers -> CallRows(Len(conns))]
      BY <1>2 DEF ConnTypes
    <3> QED BY <3>1 DEF CallRows
  <2>4. UNCHANGED <<setupOnInit, lifePhase, steps, running, adapter, bootGraphs, compiled, spoiled, dbFaults>>
    BY DEF Ask, lifeVars
  <2> QED BY <2>2, <2>3, <2>4
<1>4. given[k] = None /\ inst[k] = None
  BY DEF Known
<1>5. y \in ConnRows /\ y.kind = k /\ y.state = "opening" /\ y.alive
  BY DEF ConnRows
<1> HIDE DEF y
<1>6. /\ conns' \in Seq(ConnRows) /\ Len(conns') = n /\ n \in 1..n /\ conns'[n] = y
      /\ \A i \in 1..Len(conns) : conns'[i] = conns[i]
      /\ 1..n = 1..Len(conns) \cup {n} /\ n \notin 0..Len(conns)
  <2>1. conns \in Seq(ConnRows)
    BY <1>2 DEF ConnTypes
  <2> QED BY <1>2, <1>3, <1>5, <2>1, AppendProperties
<1>7. Numbered(Len(conns)) \subseteq Numbered(n) /\ CallRows(Len(conns)) \subseteq CallRows(n)
  BY <1>2, NumbersGrow
<1>8. /\ x \in CallRows(n) /\ x.op = call[c].op /\ x.at = "opening" /\ x.conn = n /\ x.want = k
      /\ x.got = call[c].got /\ x.bad = call[c].bad /\ x.failed = call[c].failed
  <2>1. ASSUME NEW r \in CallRows(n)
        PROVE  LET z == [r EXCEPT !.at = "opening", !.conn = n] IN
               /\ z \in CallRows(n) /\ z.op = r.op /\ z.at = "opening" /\ z.conn = n /\ z.want = r.want
               /\ z.got = r.got /\ z.bad = r.bad /\ z.failed = r.failed
    <3>1. n \in 0..n
      OBVIOUS
    <3> QED BY <3>1 DEF CallRows
  <2>2. call[c] \in CallRows(n)
    BY <1>2, <1>7
  <2> QED BY <2>1, <2>2
<1> HIDE DEF x
<1>9. /\ call'[c] = x /\ \A d \in Callers : d # c => call'[d] = call[d]
      /\ call' \in [Callers -> CallRows(n)]
  <2>1. Len(conns) <= n
    BY <1>2
  <2> QED BY <1>2, <1>3, <1>8, <2>1, CallUpdate
<1>10. cm' \in Numbered(n) /\ cm'[k] = n /\ \A j \in Kinds : j # k => cm'[j] = cm[j]
  BY <1>2, <1>3, <1>6, <1>7 DEF ConnTypes, Numbered
<1>11. ConnTypes'
  <2>1. inst' \in Numbered(n) /\ given' \in Numbered(n)
    BY <1>2, <1>3, <1>7 DEF ConnTypes
  <2>2. compiled' \in [Graphs -> {NotCompiled} \cup Numbered(n)]
    BY <1>2, <1>3, <1>7 DEF ConnTypes
  <2>3. overlap' \subseteq Kinds
    BY <1>2, <1>3 DEF ConnTypes
  <2> QED BY <1>2, <1>3, <1>6, <1>9, <1>10, <2>1, <2>2, <2>3 DEF ConnTypes
<1>12. StepsDone'
  <2>1. ~(lifePhase = "starting" /\ steps = 0)
    BY <1>2 DEF ConnsIInv, StepsDone, ConnTypes
  <2> QED BY <1>3, <2>1 DEF ConnsIInv, StepsDone
<1>13. CallsOpen'
  <2>1. \A d \in Callers : call[d].at \in {"opening", "settingUp"} =>
           call[d].conn \in 1..Len(conns) /\ d # c
    <3>1. \A d \in Callers : call[d].conn \in 0..Len(conns)
      BY <1>2 DEF CallRows
    <3> QED BY <1>1, <1>2, <3>1 DEF ConnsIInv, CallsOpen, None
  <2>2. ASSUME NEW d \in Callers
        PROVE  /\ call'[d].at # "idle" => call'[d].want \in Kinds
               /\ call'[d].at = "finishing" => call'[d].want = "store"
               /\ call'[d].at \in {"opening", "settingUp"} =>
                     call'[d].conn # None /\ conns'[call'[d].conn].kind = call'[d].want
               /\ call'[d].at = "opening" => conns'[call'[d].conn].state = "opening"
               /\ call'[d].at = "settingUp" => /\ setupOnInit /\ conns'[call'[d].conn].state # "opening"
                                               /\ lifePhase \in {"starting", "serving"} =>
                                                     conns'[call'[d].conn].state = "open"
    <3>1. CASE d = c
      BY <1>5, <1>6, <1>8, <1>9, <3>1 DEF None
    <3>2. CASE d # c
      <4>1. call'[d] = call[d]
        BY <1>9, <3>2
      <4>2. call[d].at \in {"opening", "settingUp"} => conns'[call[d].conn] = conns[call[d].conn]
        BY <1>6, <2>1
      <4> QED BY <4>1, <4>2 DEF ConnsIInv, CallsOpen
    <3> QED BY <3>1, <3>2
  <2>3. ASSUME NEW d \in Callers, NEW e \in Callers, d # e, call'[d].at \in {"opening", "settingUp"},
               call'[e].at \in {"opening", "settingUp"}
        PROVE  call'[d].conn # call'[e].conn
    <3>1. CASE d # c /\ e # c
      BY <1>9, <2>3, <3>1 DEF ConnsIInv, CallsOpen
    <3>2. CASE d = c
      BY <1>2, <1>6, <1>8, <1>9, <2>1, <2>3, <3>2
    <3>3. CASE e = c
      BY <1>2, <1>6, <1>8, <1>9, <2>1, <2>3, <3>3
    <3> QED BY <3>1, <3>2, <3>3
  <2>4. ASSUME NEW i \in 1..Len(conns'), conns'[i].state = "opening"
        PROVE  \E d \in Callers : IsOpening(d, i)'
    <3>1. CASE i = n
      BY <1>8, <1>9, <3>1 DEF IsOpening
    <3>2. CASE i # n
      <4>1. i \in 1..Len(conns) /\ conns[i].state = "opening"
        BY <1>6, <2>4, <3>2
      <4>2. PICK d \in Callers : call[d].at = "opening" /\ call[d].conn = i
        BY <4>1 DEF ConnsIInv, CallsOpen, IsOpening
      <4>3. d # c
        BY <1>1, <4>2
      <4> QED BY <1>9, <4>2, <4>3 DEF IsOpening
    <3> QED BY <3>1, <3>2
  <2>5. lifePhase = "starting" => \A d \in Askers : call'[d] = Resting
    BY <1>1, <1>9 DEF ConnsIInv, CallsOpen, Callers
  <2> QED BY <1>1, <1>3, <2>2, <2>3, <2>4, <2>5 DEF CallsOpen
<1>14. KindsMatch'
  <2>1. \A i \in 0..Len(conns) : i # None => conns'[i] = conns[i]
    BY <1>2, <1>6 DEF None
  <2>2. ASSUME NEW j \in Kinds
        PROVE  /\ cm'[j] # None => conns'[cm'[j]].kind = j
               /\ inst'[j] # None => conns'[inst'[j]].kind = j
               /\ given'[j] # None => conns'[given'[j]].kind = j
    <3>1. cm'[j] # None => conns'[cm'[j]].kind = j
      <4>1. CASE j = k
        BY <1>5, <1>6, <1>10, <4>1
      <4>2. CASE j # k
        BY <1>2, <1>10, <2>1, <4>2 DEF KindsMatch
      <4> QED BY <4>1, <4>2
    <3>2. inst'[j] = inst[j] /\ given'[j] = given[j]
      BY <1>3
    <3> QED BY <1>2, <2>1, <3>1, <3>2 DEF KindsMatch
  <2> QED BY <2>2 DEF KindsMatch
<1>15. ASSUME NEW j \in Kinds \ overlap' PROVE OneAtATime(j)'
  <2>1. j \in Kinds \ overlap /\ OneAtATime(j)
    BY <1>3, <1>15 DEF ConnsIInv
  <2>2. CASE j # k
    <3>1. \A i \in 1..Len(conns') : conns'[i].kind = j => i \in 1..Len(conns) /\ conns[i].kind = j
      BY <1>5, <1>6, <2>2
    <3>2. /\ cm'[j] = cm[j] /\ inst'[j] = inst[j] /\ given'[j] = given[j]
          /\ \A i \in 1..Len(conns) : conns'[i].state = conns[i].state /\ conns'[i].ready = conns[i].ready
          /\ spoiled \subseteq spoiled' /\ UNCHANGED <<lifePhase, setupOnInit, steps>>
          /\ x.want = k
      BY <1>3, <1>6, <1>8, <1>10, <2>1, <2>2
    <3> QED BY <1>3, <2>1, <2>2, <3>1, <3>2, OtherKinds
  <2>3. CASE j = k
    <3>1. ~Opening(k) /\ ~Closing
      BY <1>3, <1>15, <2>3
    <3>2. \A d \in Callers : d # c => ~(call'[d].want = k /\ call'[d].at \in {"opening", "settingUp"})
      BY <1>9, <3>1 DEF Opening
    <3>3. \A d \in Callers : ~(call'[d].want = k /\ call'[d].at = "settingUp")
      BY <1>8, <1>9, <3>2
    <3>4. ASSUME NEW i \in 1..Len(conns), NotClosed(i), conns[i].kind = k PROVE FALSE
      <4>1. cm[k] = i /\ i # None
        BY <2>1, <2>3, <3>4 DEF OneAtATime, None
      <4>2. CASE conns[i].state = "open"
        BY <1>4, <2>1, <2>3, <4>1, <4>2 DEF OneAtATime
      <4>3. CASE conns[i].state = "opening"
        <5>1. PICK d \in Callers : call[d].at = "opening" /\ call[d].conn = i
          BY <4>3 DEF ConnsIInv, CallsOpen, IsOpening
        <5>2. call[d].want = k
          BY <3>4, <5>1 DEF ConnsIInv, CallsOpen
        <5> QED BY <3>1, <5>1, <5>2 DEF Opening
      <4> QED BY <3>4, <4>2, <4>3 DEF NotClosed
    <3>5. \A i \in 1..Len(conns') : NotClosed(i)' /\ conns'[i].kind = k => cm'[k] = i
      BY <1>6, <1>10, <3>4 DEF NotClosed
    <3>6. conns'[cm'[k]].state = "opening"
      BY <1>5, <1>6, <1>10
    <3>7. inst'[k] = None /\ given'[k] = None /\ lifePhase' # "closed"
      BY <1>1, <1>3, <1>4
    <3> QED BY <2>3, <3>3, <3>5, <3>6, <3>7 DEF OneAtATime
  <2> QED BY <2>2, <2>3
<1>16. GotShared'
  <2>1. overlap \subseteq overlap' /\ UNCHANGED <<lifePhase, compiled, given>>
    BY <1>3
  <2> QED BY <1>1, <1>3, <1>8, <2>1, GotStays
<1>17. FaultsShow'
  BY <1>3, <1>5, <1>6, <1>8, <1>9 DEF ConnsIInv, FaultsShow, Callers
<1> QED BY <1>11, <1>12, <1>13, <1>14, <1>15, <1>16, <1>17 DEF ConnsIInv

\* A call that opens a kind no other call has met: the connection is the adapter's,
\* and no other call opens one.
LEMMA OpenersConnection ==
    ASSUME ConnsIInv, NEW c \in Callers, call[c].at \in {"opening", "settingUp"}
    PROVE  /\ call[c].conn \in 1..Len(conns) /\ conns[call[c].conn].kind = call[c].want
           /\ call[c].want \in Kinds /\ lifePhase # "aborted" /\ (lifePhase = "starting" => c \notin Askers)
           /\ call[c].at = "opening" => conns[call[c].conn].state = "opening"
           /\ call[c].want \notin overlap =>
                 /\ given[call[c].want] = None /\ lifePhase # "closed"
                 /\ cm[call[c].want] = call[c].conn
                 /\ call[c].at = "opening" => inst[call[c].want] = None
                 /\ call[c].at = "settingUp" => inst[call[c].want] = call[c].conn
                 /\ \A d \in Callers : d # c => ~(call[d].want = call[c].want
                                                    /\ call[d].at \in {"opening", "settingUp"})
<1>1. lifePhase # "aborted" /\ (lifePhase = "starting" => c \notin Askers) /\ call[c].want \in Kinds
  BY NotStarting
<1>2. call[c].conn \in 1..Len(conns) /\ conns[call[c].conn].kind = call[c].want
  <2>1. call[c].conn \in 0..Len(conns) /\ Len(conns) \in Nat
    BY ConnFacts DEF ConnsIInv, CallRows
  <2> QED BY <2>1 DEF ConnsIInv, CallsOpen, None
<1>3. call[c].at = "opening" => conns[call[c].conn].state = "opening"
  BY DEF ConnsIInv, CallsOpen
<1>4. ASSUME NEW k \in Kinds \ overlap, k = call[c].want
      PROVE  /\ given[k] = None /\ lifePhase # "closed" /\ cm[k] = call[c].conn
             /\ call[c].at = "opening" => inst[k] = None
             /\ call[c].at = "settingUp" => inst[k] = call[c].conn
             /\ \A d \in Callers : d # c => ~(call[d].want = k /\ call[d].at \in {"opening", "settingUp"})
  <2>1. OneAtATime(k) /\ Opening(k)
    BY <1>4 DEF ConnsIInv, Opening
  <2>2. \A d \in Callers : d # c => ~(call[d].want = k /\ call[d].at \in {"opening", "settingUp"})
    BY <1>4, OnlyOpener
  <2>3. CASE call[c].at = "opening"
    <3>1. cm[k] = call[c].conn /\ conns[cm[k]].state = "opening"
      BY <1>2, <1>3, <1>4, <2>1, <2>3 DEF OneAtATime, NotClosed
    <3>2. inst[k] = None
      BY <1>1, <2>1, <3>1 DEF OneAtATime
    <3> QED BY <2>1, <2>2, <2>3, <3>1, <3>2 DEF OneAtATime
  <2>4. CASE call[c].at = "settingUp"
    <3>1. inst[k] = call[c].conn /\ inst[k] # None
      BY <1>2, <1>4, <2>1, <2>4 DEF OneAtATime, None
    <3>2. cm[k] = inst[k]
      BY <1>1, <2>1, <3>1 DEF OneAtATime
    <3> QED BY <2>1, <2>2, <2>4, <3>1, <3>2 DEF OneAtATime
  <2> QED BY <2>3, <2>4
<1> QED BY <1>1, <1>2, <1>3, <1>4

LEMMA OpenedSound ==
    ASSUME ConnsIInv, NEW c \in Callers, Opened(c)
    PROVE  ConnsIInv'
<1> PICK k : k = call[c].want
  OBVIOUS
<1> PICK i : i = call[c].conn
  OBVIOUS
<1> PICK x : x = IF setupOnInit THEN [call[c] EXCEPT !.at = "settingUp"] ELSE After(c, i)
  OBVIOUS
<1>1. /\ call[c].at = "opening"
      /\ conns' = [conns EXCEPT ![i].state = "open"] /\ inst' = [inst EXCEPT ![k] = i]
      /\ call' = [call EXCEPT ![c] = x]
      /\ given' = IF setupOnInit THEN given ELSE [given EXCEPT ![k] = i]
      /\ UNCHANGED <<setupOnInit, lifePhase, steps, running, adapter, bootGraphs, cm, compiled, overlap,
                     spoiled, dbFaults>>
  <2>1. [call EXCEPT ![c].at = "settingUp"] = [call EXCEPT ![c] = [call[c] EXCEPT !.at = "settingUp"]]
    OBVIOUS
  <2> QED BY <2>1 DEF Opened, lifeVars
<1>2. /\ ConnTypes /\ KindsMatch /\ Len(conns) \in Nat /\ \A n \in 1..Len(conns) : conns[n] \in ConnRows
      /\ \A j \in Kinds : /\ cm[j] \in 0..Len(conns) /\ inst[j] \in 0..Len(conns)
                          /\ given[j] \in 0..Len(conns)
      /\ call[c] \in CallRows(Len(conns))
  BY ConnFacts DEF ConnsIInv
<1>3. /\ i \in 1..Len(conns) /\ i \in 0..Len(conns) /\ conns[i].kind = k /\ k \in Kinds /\ lifePhase # "aborted"
      /\ (lifePhase = "starting" => c \notin Askers) /\ conns[i].state = "opening"
      /\ k \notin overlap =>
            /\ given[k] = None /\ lifePhase # "closed" /\ cm[k] = i
            /\ \A d \in Callers : d # c => ~(call[d].want = k /\ call[d].at \in {"opening", "settingUp"})
  BY <1>1, <1>2, OpenersConnection
<1> DEFINE y == [conns[i] EXCEPT !.state = "open"]
<1>4. /\ y \in ConnRows /\ y.state = "open" /\ y.kind = k /\ y.ready = conns[i].ready
      /\ y.alive = conns[i].alive
  BY <1>2, <1>3 DEF ConnRows
<1>5. conns' = [conns EXCEPT ![i] = y]
  BY <1>1
<1> HIDE DEF y
<1>6. /\ conns' \in Seq(ConnRows) /\ Len(conns') = Len(conns) /\ conns'[i] = y
      /\ \A j \in 1..Len(conns) : j # i => conns'[j] = conns[j]
  BY <1>2, <1>3, <1>4, <1>5, ConnUpdate, ZenonT(60)
<1>7. /\ x \in CallRows(Len(conns)) /\ x.op = call[c].op
      /\ x.bad = call[c].bad /\ x.failed = call[c].failed
      /\ x.at # "opening" /\ x.at # "idle" /\ x.want \in Kinds /\ (x.at = "finishing" => x.want = "store")
      /\ setupOnInit => x.at = "settingUp" /\ x.want = k /\ x.conn = i /\ x.got = call[c].got
      /\ ~setupOnInit => x.at # "settingUp"
  <2>1. CASE setupOnInit
    <3>1. x = [call[c] EXCEPT !.at = "settingUp"]
      BY <2>1
    <3> QED BY <1>2, <1>3, <2>1, <3>1 DEF CallRows
  <2>2. CASE ~setupOnInit
    <3>1. x = After(c, i)
      BY <2>2
    <3> QED BY <1>2, <1>3, <2>2, <3>1, AfterFields DEF Kinds
  <2> QED BY <2>1, <2>2
<1>8. GotShared'
  <2>1. overlap \subseteq overlap' /\ UNCHANGED <<lifePhase, compiled>>
    BY <1>1
  <2>2. CASE setupOnInit
    BY <1>1, <1>7, <2>1, <2>2, GotStays
  <2>3. CASE ~setupOnInit
    <3>1. call' = [call EXCEPT ![c] = After(c, i)] /\ given' = [given EXCEPT ![call[c].want] = i]
      BY <1>1, <2>3
    <3>2. i # None /\ (call[c].want \notin overlap' => given[call[c].want] = None)
      BY <1>1, <1>3 DEF None
    <3> QED BY <1>1, <1>3, <2>1, <3>1, <3>2, GotAfter, ZenonT(60)
  <2> QED BY <2>2, <2>3
<1>9. /\ call'[c] = x /\ \A d \in Callers : d # c => call'[d] = call[d]
      /\ call' \in [Callers -> CallRows(Len(conns))]
  <2>1. Len(conns) <= Len(conns)
    BY <1>2
  <2> QED BY <1>1, <1>2, <1>7, <2>1, CallUpdate
<1>10. /\ inst' \in Numbered(Len(conns)) /\ inst'[k] = i /\ \A j \in Kinds : j # k => inst'[j] = inst[j]
       /\ given' \in Numbered(Len(conns)) /\ given'[k] = IF setupOnInit THEN given[k] ELSE i
       /\ \A j \in Kinds : j # k => given'[j] = given[j]
  BY <1>1, <1>2, <1>3 DEF ConnTypes, Numbered
<1>11. ConnTypes'
  BY <1>1, <1>2, <1>6, <1>9, <1>10 DEF ConnTypes
<1>12. StepsDone'
  <2>1. conns # <<>>
    BY <1>2, <1>3
  <2> QED BY <1>1, <2>1 DEF ConnsIInv, StepsDone
<1>13. CallsOpen'
  <2>1. /\ \A j \in 1..Len(conns) : /\ conns'[j].kind = conns[j].kind
                                    /\ conns'[j].state = conns[j].state \/ (call[c].at = "opening" /\ j = call[c].conn)
        /\ conns'[call[c].conn].state = "open"
    BY <1>1, <1>3, <1>4, <1>6
  <2>2. CallsOpen /\ UNCHANGED <<lifePhase, setupOnInit>> /\ Len(conns') = Len(conns)
    BY <1>1, <1>6 DEF ConnsIInv
  <2>3. x.at = "settingUp" => /\ call[c].at = "opening" /\ x.conn = call[c].conn
                              /\ x.want = call[c].want /\ setupOnInit /\ conns'[x.conn].state = "open"
    BY <1>1, <1>7, <2>1
  <2> QED BY <1>1, <1>2, <1>3, <1>7, <2>1, <2>2, <2>3, CallsOpenStep, ZenonT(60)
<1>14. KindsMatch'
  <2>1. \A n \in 0..Len(conns) : n # None => conns'[n].kind = conns[n].kind
    BY <1>2, <1>3, <1>4, <1>6 DEF None
  <2>2. inst'[k] # None => conns'[inst'[k]].kind = k
    BY <1>4, <1>6, <1>10
  <2>3. given'[k] # None => conns'[given'[k]].kind = k
    BY <1>2, <1>3, <1>4, <1>6, <1>10, <2>1 DEF KindsMatch
  <2> QED BY <1>1, <1>2, <1>10, <2>1, <2>2, <2>3 DEF KindsMatch
<1>15. ASSUME NEW j \in Kinds \ overlap' PROVE OneAtATime(j)'
  <2>1. j \in Kinds \ overlap /\ OneAtATime(j)
    BY <1>1, <1>15 DEF ConnsIInv
  <2>2. CASE j # k
    <3>1. /\ cm'[j] = cm[j] /\ inst'[j] = inst[j] /\ given'[j] = given[j]
          /\ \A n \in 1..Len(conns) : conns[n].kind = j =>
                conns'[n].state = conns[n].state /\ conns'[n].ready = conns[n].ready
          /\ \A n \in 1..Len(conns') : conns'[n].kind = j => n \in 1..Len(conns) /\ conns[n].kind = j
          /\ spoiled \subseteq spoiled' /\ UNCHANGED <<lifePhase, setupOnInit, steps>>
          /\ x.at \notin {"opening", "settingUp"} \/ x.want = k
      BY <1>1, <1>3, <1>4, <1>6, <1>7, <1>10, <2>1, <2>2
    <3>2. call[c].want = k /\ j # k /\ call' = [call EXCEPT ![c] = x]
      BY <1>1, <2>2
    <3> QED BY <2>1, <3>1, <3>2, OtherKinds, ZenonT(60)
  <2>3. CASE j = k
    <3>1. /\ given[k] = None /\ lifePhase # "closed" /\ cm[k] = i
          /\ \A d \in Callers : d # c => ~(call'[d].want = k /\ call'[d].at \in {"opening", "settingUp"})
      BY <1>3, <1>9, <2>1, <2>3
    <3>2. Opening(k)' => setupOnInit
      BY <1>7, <1>9, <3>1 DEF Opening
    <3>3. setupOnInit => Opening(k)'
      BY <1>7, <1>9 DEF Opening
    <3>4. \A d \in Callers : call'[d].want = k /\ call'[d].at = "settingUp" => inst'[k] = call'[d].conn
      BY <1>7, <1>9, <1>10, <3>1, ZenonT(60)
    <3>5. \A n \in 1..Len(conns') : NotClosed(n)' /\ conns'[n].kind = k => cm'[k] = n
      <4> SUFFICES ASSUME NEW n \in 1..Len(conns), n # i, NotClosed(n)', conns'[n].kind = k PROVE FALSE
        BY <1>1, <1>6, <3>1
      <4>1. NotClosed(n) /\ conns[n].kind = k
        BY <1>6 DEF NotClosed
      <4> QED BY <2>1, <2>3, <3>1, <4>1 DEF OneAtATime
    <3>6. inst'[k] = i /\ cm'[k] = i /\ conns'[i].state = "open" /\ i # None
      BY <1>1, <1>3, <1>4, <1>6, <1>10, <3>1 DEF None
    <3>7. given'[k] = (IF setupOnInit THEN None ELSE i) /\ lifePhase' # "closed" /\ setupOnInit' = setupOnInit
      BY <1>1, <1>10, <3>1
    <3> QED BY <2>3, <3>2, <3>3, <3>4, <3>5, <3>6, <3>7 DEF OneAtATime
  <2> QED BY <2>2, <2>3
<1>16. FaultsShow'
  <2>1. \A n \in 1..Len(conns) : conns'[n].alive = conns[n].alive
    BY <1>4, <1>6
  <2> QED BY <1>1, <1>6, <1>7, <1>9, <2>1 DEF ConnsIInv, FaultsShow, Callers
<1> QED BY <1>8, <1>11, <1>12, <1>13, <1>14, <1>15, <1>16 DEF ConnsIInv

LEMMA RefusedSound ==
    ASSUME ConnsIInv, NEW c \in Callers, Refused(c)
    PROVE  ConnsIInv'
<1> PICK k : k = call[c].want
  OBVIOUS
<1> PICK i : i = call[c].conn
  OBVIOUS
<1> DEFINE x == AfterError(c)
<1>1. /\ call[c].at = "opening" /\ Fault /\ conns' = [conns EXCEPT ![i].state = "closed"]
      /\ call' = [call EXCEPT ![c] = x]
      /\ UNCHANGED <<setupOnInit, lifePhase, steps, running, adapter, bootGraphs, cm, inst, given, compiled,
                     overlap, spoiled>>
  BY DEF Refused, lifeVars, keptVars
<1>2. /\ ConnTypes /\ KindsMatch /\ Len(conns) \in Nat /\ \A n \in 1..Len(conns) : conns[n] \in ConnRows
      /\ \A j \in Kinds : /\ cm[j] \in 0..Len(conns) /\ inst[j] \in 0..Len(conns)
                          /\ given[j] \in 0..Len(conns)
  BY ConnFacts DEF ConnsIInv
<1>3. /\ i \in 1..Len(conns) /\ conns[i].kind = k /\ k \in Kinds /\ lifePhase # "aborted"
      /\ (lifePhase = "starting" => c \notin Askers) /\ conns[i].state = "opening"
      /\ k \notin overlap =>
            /\ given[k] = None /\ lifePhase # "closed" /\ cm[k] = i /\ inst[k] = None
            /\ \A d \in Callers : d # c => ~(call[d].want = k /\ call[d].at \in {"opening", "settingUp"})
  BY <1>1, OpenersConnection
<1> DEFINE y == [conns[i] EXCEPT !.state = "closed"]
<1>4. /\ y \in ConnRows /\ y.state = "closed" /\ y.kind = k /\ y.ready = conns[i].ready
      /\ y.alive = conns[i].alive
  BY <1>2, <1>3 DEF ConnRows
<1>5. conns' = [conns EXCEPT ![i] = y]
  BY <1>1
<1> HIDE DEF y
<1>6. /\ conns' \in Seq(ConnRows) /\ Len(conns') = Len(conns) /\ conns'[i] = y
      /\ \A j \in 1..Len(conns) : j # i => conns'[j] = conns[j]
  BY <1>2, <1>3, <1>4, <1>5, ConnUpdate
<1>7. /\ x \in CallRows(Len(conns)) /\ x.at \in {"idle", "asking"} /\ x.op # "graph"
      /\ x.at = "asking" => x.want = "store"
  BY <1>2, ErrorFields
<1> HIDE DEF x
<1>8. GotShared'
  <2>1. overlap \subseteq overlap'
    BY <1>1
  <2> QED BY <1>1, <1>7, <2>1, GotStays
<1>9. /\ call'[c] = x /\ \A d \in Callers : d # c => call'[d] = call[d]
      /\ call' \in [Callers -> CallRows(Len(conns))]
  <2>1. Len(conns) <= Len(conns)
    BY <1>2
  <2> QED BY <1>1, <1>2, <1>7, <2>1, CallUpdate
<1>10. dbFaults' \in 0..MaxDbFaults /\ dbFaults' > 0
  BY <1>1, ConnectionsAssumption DEF ConnsIInv, ConnTypes, Fault
<1>11. ConnTypes'
  BY <1>1, <1>2, <1>6, <1>9, <1>10 DEF ConnTypes
<1>12. StepsDone'
  <2>1. conns # <<>>
    BY <1>2, <1>3
  <2> QED BY <1>1, <2>1 DEF ConnsIInv, StepsDone
<1>13. CallsOpen'
  <2>1. /\ \A j \in 1..Len(conns) : /\ conns'[j].kind = conns[j].kind
                                    /\ conns'[j].state = conns[j].state \/ (call[c].at = "opening" /\ j = call[c].conn)
        /\ conns'[call[c].conn].state # "opening"
    BY <1>1, <1>3, <1>4, <1>6
  <2>2. CallsOpen /\ UNCHANGED <<lifePhase, setupOnInit>> /\ Len(conns') = Len(conns)
    BY <1>1, <1>6 DEF ConnsIInv
  <2>3. /\ x.at # "idle" => x.want \in Kinds
        /\ x.at \notin {"opening", "settingUp", "finishing"}
    BY <1>7 DEF Kinds
  <2> QED BY <1>1, <1>2, <1>3, <2>1, <2>2, <2>3, CallsOpenStep
<1>14. KindsMatch'
  <2>1. \A n \in 0..Len(conns) : n # None => conns'[n].kind = conns[n].kind
    BY <1>2, <1>3, <1>4, <1>6 DEF None
  <2> QED BY <1>1, <1>2, <2>1 DEF KindsMatch
<1>15. ASSUME NEW j \in Kinds \ overlap' PROVE OneAtATime(j)'
  <2>1. j \in Kinds \ overlap /\ OneAtATime(j)
    BY <1>1, <1>15 DEF ConnsIInv
  <2>2. CASE j # k
    <3>1. /\ cm'[j] = cm[j] /\ inst'[j] = inst[j] /\ given'[j] = given[j]
          /\ \A n \in 1..Len(conns) : conns[n].kind = j =>
                conns'[n].state = conns[n].state /\ conns'[n].ready = conns[n].ready
          /\ \A n \in 1..Len(conns') : conns'[n].kind = j => n \in 1..Len(conns) /\ conns[n].kind = j
          /\ spoiled \subseteq spoiled' /\ UNCHANGED <<lifePhase, setupOnInit, steps>>
          /\ x.at \notin {"opening", "settingUp"}
      BY <1>1, <1>3, <1>4, <1>6, <1>7, <2>1, <2>2
    <3>2. call[c].want = k /\ j # k /\ call' = [call EXCEPT ![c] = x]
      BY <1>1, <2>2
    <3> QED BY <2>1, <3>1, <3>2, OtherKinds
  <2>3. CASE j = k
    <3>1. /\ given[k] = None /\ lifePhase # "closed" /\ cm[k] = i /\ inst[k] = None
          /\ \A d \in Callers : d # c => ~(call'[d].want = k /\ call'[d].at \in {"opening", "settingUp"})
      BY <1>3, <1>9, <2>1, <2>3
    <3>2. ~Opening(k)' /\ \A d \in Callers : ~(call'[d].want = k /\ call'[d].at = "settingUp")
      BY <1>7, <1>9, <3>1 DEF Opening
    <3>3. \A n \in 1..Len(conns') : NotClosed(n)' /\ conns'[n].kind = k => cm'[k] = n
      <4> SUFFICES ASSUME NEW n \in 1..Len(conns), n # i, NotClosed(n)', conns'[n].kind = k PROVE FALSE
        BY <1>1, <1>6, <3>1
      <4>1. NotClosed(n) /\ conns[n].kind = k
        BY <1>6 DEF NotClosed
      <4> QED BY <2>1, <2>3, <3>1, <4>1 DEF OneAtATime
    <3>4. conns'[cm'[k]].state = "closed" /\ inst'[k] = None /\ given'[k] = None /\ lifePhase' # "closed"
      BY <1>1, <1>4, <1>6, <3>1
    <3> QED BY <2>3, <3>2, <3>3, <3>4 DEF OneAtATime
  <2> QED BY <2>2, <2>3
<1>16. FaultsShow'
  BY <1>10 DEF FaultsShow
<1> QED BY <1>8, <1>11, <1>12, <1>13, <1>14, <1>15, <1>16 DEF ConnsIInv

LEMMA SetUpSound ==
    ASSUME ConnsIInv, NEW c \in Callers, SetUp(c)
    PROVE  ConnsIInv'
<1> PICK k : k = call[c].want
  OBVIOUS
<1> PICK i : i = call[c].conn
  OBVIOUS
<1> PICK v : v = inst[k]
  OBVIOUS
<1> DEFINE x == After(c, v)
<1>1. /\ call[c].at = "settingUp" /\ conns[i].state = "open"
      /\ conns' = [conns EXCEPT ![i].ready = TRUE]
      /\ call' = [call EXCEPT ![c] = x] /\ given' = [given EXCEPT ![k] = v]
      /\ UNCHANGED <<setupOnInit, lifePhase, steps, running, adapter, bootGraphs, cm, inst, compiled, overlap,
                     spoiled, dbFaults>>
  BY DEF SetUp, lifeVars
<1>2. /\ ConnTypes /\ KindsMatch /\ Len(conns) \in Nat /\ \A n \in 1..Len(conns) : conns[n] \in ConnRows
      /\ \A j \in Kinds : /\ cm[j] \in 0..Len(conns) /\ inst[j] \in 0..Len(conns)
                          /\ given[j] \in 0..Len(conns)
      /\ call[c] \in CallRows(Len(conns))
  BY ConnFacts DEF ConnsIInv
<1>3. /\ i \in 1..Len(conns) /\ conns[i].kind = k /\ k \in Kinds /\ lifePhase # "aborted"
      /\ (lifePhase = "starting" => c \notin Askers)
      /\ k \notin overlap =>
            /\ given[k] = None /\ lifePhase # "closed" /\ cm[k] = i /\ v = i
            /\ \A d \in Callers : d # c => ~(call[d].want = k /\ call[d].at \in {"opening", "settingUp"})
  BY <1>1, OpenersConnection
<1> DEFINE y == [conns[i] EXCEPT !.ready = TRUE]
<1>4. /\ y \in ConnRows /\ y.state = conns[i].state /\ y.kind = k /\ y.ready
      /\ y.alive = conns[i].alive
  BY <1>2, <1>3 DEF ConnRows
<1>5. conns' = [conns EXCEPT ![i] = y]
  BY <1>1
<1> HIDE DEF y
<1>6. /\ conns' \in Seq(ConnRows) /\ Len(conns') = Len(conns) /\ conns'[i] = y
      /\ \A j \in 1..Len(conns) : j # i => conns'[j] = conns[j]
  BY <1>2, <1>3, <1>4, <1>5, ConnUpdate, ZenonT(60)
<1>7. /\ x \in CallRows(Len(conns)) /\ x.bad = call[c].bad /\ x.failed = call[c].failed
      /\ x.at \in {"asking", "finishing"} /\ x.want = "store"
  BY <1>2, <1>3, AfterFields
<1>8. GotShared'
  <2>1. v \in 0..Len(conns) /\ overlap \subseteq overlap' /\ call[c].at # "idle" /\ call[c].want \in Kinds
        /\ UNCHANGED <<lifePhase, compiled>>
    BY <1>1, <1>2, <1>3
  <2>2. call' = [call EXCEPT ![c] = After(c, v)] /\ given' = [given EXCEPT ![call[c].want] = v]
    BY <1>1
  <2>3. call[c].want \notin overlap' => v # None /\ given[call[c].want] = None
    BY <1>1, <1>3 DEF None
  <2> QED BY <2>1, <2>2, <2>3, GotAfter
<1> HIDE DEF x
<1>9. /\ call'[c] = x /\ \A d \in Callers : d # c => call'[d] = call[d]
      /\ call' \in [Callers -> CallRows(Len(conns))]
  <2>1. Len(conns) <= Len(conns)
    BY <1>2
  <2> QED BY <1>1, <1>2, <1>7, <2>1, CallUpdate
<1>10. /\ given' \in Numbered(Len(conns)) /\ given'[k] = v
       /\ \A j \in Kinds : j # k => given'[j] = given[j]
  BY <1>1, <1>2, <1>3 DEF ConnTypes, Numbered
<1>11. ConnTypes'
  BY <1>1, <1>2, <1>6, <1>9, <1>10 DEF ConnTypes
<1>12. StepsDone'
  <2>1. conns # <<>>
    BY <1>2, <1>3
  <2> QED BY <1>1, <2>1 DEF ConnsIInv, StepsDone
<1>13. CallsOpen'
  <2>1. \A j \in 1..Len(conns) : conns'[j].kind = conns[j].kind /\ conns'[j].state = conns[j].state
    BY <1>1, <1>3, <1>4, <1>6
  <2>2. CallsOpen /\ UNCHANGED <<lifePhase, setupOnInit>> /\ Len(conns') = Len(conns)
    BY <1>1, <1>6 DEF ConnsIInv
  <2>3. x.at \notin {"opening", "settingUp"} /\ x.want \in Kinds /\ call[c].at # "opening"
    BY <1>1, <1>7 DEF Kinds
  <2> QED BY <1>1, <1>2, <1>3, <1>7, <2>1, <2>2, <2>3, CallsOpenStep
<1>14. KindsMatch'
  <2>1. \A n \in 0..Len(conns) : n # None => conns'[n].kind = conns[n].kind
    BY <1>2, <1>3, <1>4, <1>6 DEF None
  <2>2. ASSUME NEW j \in Kinds
        PROVE  given'[j] # None => conns'[given'[j]].kind = j
    <3>1. CASE j = k
      BY <1>2, <1>10, <2>1, <3>1 DEF KindsMatch
    <3>2. CASE j # k
      BY <1>2, <1>10, <2>1, <3>2 DEF KindsMatch
    <3> QED BY <3>1, <3>2
  <2> QED BY <1>1, <1>2, <2>1, <2>2 DEF KindsMatch
<1>15. ASSUME NEW j \in Kinds \ overlap' PROVE OneAtATime(j)'
  <2>1. j \in Kinds \ overlap /\ OneAtATime(j)
    BY <1>1, <1>15 DEF ConnsIInv
  <2>2. CASE j # k
    <3>1. /\ cm'[j] = cm[j] /\ inst'[j] = inst[j] /\ given'[j] = given[j]
          /\ \A n \in 1..Len(conns) : conns[n].kind = j =>
                conns'[n].state = conns[n].state /\ conns'[n].ready = conns[n].ready
          /\ \A n \in 1..Len(conns') : conns'[n].kind = j => n \in 1..Len(conns) /\ conns[n].kind = j
          /\ spoiled \subseteq spoiled' /\ UNCHANGED <<lifePhase, setupOnInit, steps>>
          /\ x.at \notin {"opening", "settingUp"}
      <4>1. \A n \in 1..Len(conns) : conns'[n].kind = conns[n].kind /\ (n = i => conns[n].kind = k)
        BY <1>3, <1>4, <1>6
      <4>2. Len(conns') = Len(conns) /\ \A n \in 1..Len(conns) : n # i => conns'[n] = conns[n]
        BY <1>6
      <4>3. x.at \notin {"opening", "settingUp"}
        BY <1>7
      <4> QED BY <1>1, <1>10, <2>1, <2>2, <4>1, <4>2, <4>3
    <3>2. call[c].want = k /\ j # k /\ call' = [call EXCEPT ![c] = x]
      BY <1>1, <2>2
    <3> QED BY <2>1, <3>1, <3>2, OtherKinds
  <2>3. CASE j = k
    <3>1. /\ lifePhase # "closed" /\ cm[k] = i /\ v = i /\ inst[k] = i
          /\ \A d \in Callers : d # c => ~(call'[d].want = k /\ call'[d].at \in {"opening", "settingUp"})
      BY <1>3, <1>9, <2>1, <2>3
    <3>2. ~Opening(k)' /\ \A d \in Callers : ~(call'[d].want = k /\ call'[d].at = "settingUp")
      BY <1>7, <1>9, <3>1 DEF Opening
    <3>3. \A n \in 1..Len(conns') : NotClosed(n)' /\ conns'[n].kind = k => cm'[k] = n
      <4> SUFFICES ASSUME NEW n \in 1..Len(conns), n # i, NotClosed(n)', conns'[n].kind = k PROVE FALSE
        BY <1>1, <1>6, <3>1
      <4>1. NotClosed(n) /\ conns[n].kind = k
        BY <1>6 DEF NotClosed
      <4> QED BY <2>1, <2>3, <3>1, <4>1 DEF OneAtATime
    <3>4. /\ conns'[i].state = "open" /\ conns'[i].ready /\ inst'[k] = i /\ cm'[k] = i /\ given'[k] = i
          /\ i # None /\ lifePhase' # "closed"
      BY <1>1, <1>3, <1>4, <1>6, <1>10, <3>1 DEF None
    <3> QED BY <2>3, <3>2, <3>3, <3>4 DEF OneAtATime
  <2> QED BY <2>2, <2>3
<1>16. FaultsShow'
  <2>1. \A n \in 1..Len(conns) : conns'[n].alive = conns[n].alive
    BY <1>4, <1>6
  <2> QED BY <1>1, <1>6, <1>7, <1>9, <2>1 DEF ConnsIInv, FaultsShow, Callers
<1> QED BY <1>8, <1>11, <1>12, <1>13, <1>14, <1>15, <1>16 DEF ConnsIInv

LEMMA SetUpFailsSound ==
    ASSUME ConnsIInv, NEW c \in Callers, SetUpFails(c)
    PROVE  ConnsIInv'
<1> PICK k : k = call[c].want
  OBVIOUS
<1> PICK i : i = call[c].conn
  OBVIOUS
<1> DEFINE x == AfterError(c)
<1>1. /\ call[c].at = "settingUp" /\ call' = [call EXCEPT ![c] = x]
      /\ spoiled' = spoiled \cup {k}
      /\ \/ Fault
         \/ ~(conns[i].state = "open" /\ conns[i].alive) /\ dbFaults' = dbFaults
      /\ UNCHANGED <<setupOnInit, lifePhase, steps, running, adapter, bootGraphs, cm, inst, given, conns,
                     compiled, overlap>>
  BY DEF SetUpFails, lifeVars, keptVars
<1>2. /\ ConnTypes /\ KindsMatch /\ Len(conns) \in Nat /\ \A n \in 1..Len(conns) : conns[n] \in ConnRows
  BY ConnFacts DEF ConnsIInv
<1>3. /\ i \in 1..Len(conns) /\ k \in Kinds /\ lifePhase # "aborted"
      /\ (lifePhase = "starting" => c \notin Askers)
      /\ k \notin overlap =>
            /\ given[k] = None /\ lifePhase # "closed" /\ cm[k] = i /\ inst[k] = i
            /\ \A d \in Callers : d # c => ~(call[d].want = k /\ call[d].at \in {"opening", "settingUp"})
  BY <1>1, OpenersConnection
<1>4. /\ x \in CallRows(Len(conns)) /\ x.at \in {"idle", "asking"} /\ x.op # "graph"
      /\ x.at = "asking" => x.want = "store"
  BY <1>2, ErrorFields
<1> HIDE DEF x
<1>5. GotShared'
  <2>1. overlap \subseteq overlap'
    BY <1>1
  <2> QED BY <1>1, <1>4, <2>1, GotStays
<1>6. /\ call'[c] = x /\ \A d \in Callers : d # c => call'[d] = call[d]
      /\ call' \in [Callers -> CallRows(Len(conns))]
  <2>1. Len(conns) <= Len(conns)
    BY <1>2
  <2> QED BY <1>1, <1>2, <1>4, <2>1, CallUpdate
<1>7. dbFaults' \in 0..MaxDbFaults /\ dbFaults' >= dbFaults /\ dbFaults \in Nat
      /\ (dbFaults' = 0 => ~(conns[i].state = "open" /\ conns[i].alive) /\ dbFaults = 0)
  BY <1>1, ConnectionsAssumption DEF ConnsIInv, ConnTypes, Fault
<1>8. ConnTypes'
  BY <1>1, <1>2, <1>3, <1>6, <1>7 DEF ConnTypes
<1>9. StepsDone'
  BY <1>1 DEF ConnsIInv, StepsDone
<1>10. CallsOpen'
  <2>1. CallsOpen /\ UNCHANGED <<lifePhase, setupOnInit>> /\ Len(conns') = Len(conns)
    BY <1>1 DEF ConnsIInv
  <2>2. /\ x.at # "idle" => x.want \in Kinds
        /\ x.at \notin {"opening", "settingUp", "finishing"} /\ call[c].at # "opening"
    BY <1>1, <1>4 DEF Kinds
  <2>3. \A j \in 1..Len(conns) : conns'[j].kind = conns[j].kind /\ conns'[j].state = conns[j].state
    BY <1>1
  <2> QED BY <1>1, <1>2, <1>3, <2>1, <2>2, <2>3, CallsOpenStep
<1>11. KindsMatch'
  BY <1>1, <1>2 DEF KindsMatch
<1>12. ASSUME NEW j \in Kinds \ overlap' PROVE OneAtATime(j)'
  <2>1. j \in Kinds \ overlap /\ OneAtATime(j)
    BY <1>1, <1>12 DEF ConnsIInv
  <2>2. CASE j # k
    <3>1. /\ cm'[j] = cm[j] /\ inst'[j] = inst[j] /\ given'[j] = given[j]
          /\ \A n \in 1..Len(conns) : conns[n].kind = j =>
                conns'[n].state = conns[n].state /\ conns'[n].ready = conns[n].ready
          /\ \A n \in 1..Len(conns') : conns'[n].kind = j => n \in 1..Len(conns) /\ conns[n].kind = j
          /\ spoiled \subseteq spoiled' /\ UNCHANGED <<lifePhase, setupOnInit, steps>>
          /\ x.at \notin {"opening", "settingUp"}
      BY <1>1, <1>4, <2>1, <2>2
    <3>2. call[c].want = k /\ j # k /\ call' = [call EXCEPT ![c] = x]
      BY <1>1, <2>2
    <3> QED BY <2>1, <3>1, <3>2, OtherKinds
  <2>3. CASE j = k
    <3>1. /\ lifePhase # "closed" /\ given[k] = None
          /\ \A d \in Callers : d # c => ~(call'[d].want = k /\ call'[d].at \in {"opening", "settingUp"})
      BY <1>3, <1>6, <2>1, <2>3
    <3>2. ~Opening(k)' /\ \A d \in Callers : ~(call'[d].want = k /\ call'[d].at = "settingUp")
      BY <1>4, <1>6, <3>1 DEF Opening
    <3>3. k \in spoiled' /\ given'[k] = None /\ lifePhase' # "closed"
      BY <1>1, <3>1
    <3> QED BY <1>1, <2>1, <2>3, <3>2, <3>3 DEF OneAtATime, NotClosed
  <2> QED BY <2>2, <2>3
<1>13. FaultsShow'
  <2>1. ASSUME lifePhase = "serving" PROVE dbFaults' > 0
    <3>1. conns[i].state = "open"
      BY <1>1, <2>1 DEF ConnsIInv, CallsOpen
    <3>2. ~conns[i].alive => dbFaults > 0
      BY <1>3 DEF ConnsIInv, FaultsShow
    <3> QED BY <1>7, <3>1, <3>2
  <2>2. \A n \in 1..Len(conns') : ~conns'[n].alive => dbFaults' > 0
    BY <1>1, <1>7 DEF ConnsIInv, FaultsShow
  <2> QED BY <1>1, <1>7, <2>1, <2>2 DEF FaultsShow
<1> QED BY <1>5, <1>8, <1>9, <1>10, <1>11, <1>12, <1>13 DEF ConnsIInv

LEMMA FinishSound ==
    ASSUME ConnsIInv, NEW c \in Callers, Finish(c)
    PROVE  ConnsIInv'
<1> PICK well \in BOOLEAN : well = ~call[c].bad
  OBVIOUS
<1> DEFINE x == Told(c, well)
<1>1. /\ call[c].at = "finishing" /\ call' = [call EXCEPT ![c] = x]
      /\ UNCHANGED <<setupOnInit, lifePhase, steps, running, adapter, bootGraphs, keptVars, conns, overlap,
                     spoiled, dbFaults>>
      /\ \/ /\ call[c].op = "graph"
            /\ \E with \in {call[c].got, Nothing} :
                  compiled' = [compiled EXCEPT ![call[c].graph] = with]
         \/ compiled' = compiled
  BY DEF Finish, lifeVars
<1>2. /\ ConnTypes /\ Len(conns) \in Nat /\ call[c] \in CallRows(Len(conns)) /\ GotShared
      /\ compiled \in [Graphs -> {NotCompiled} \cup Numbered(Len(conns))]
  BY ConnFacts DEF ConnsIInv, ConnTypes
<1>3. /\ x \in CallRows(Len(conns)) /\ x.at = "idle" /\ ~x.bad /\ x.op # "graph" /\ (well => ~x.failed)
  BY <1>2, ToldFields
<1>4. lifePhase # "aborted" /\ (lifePhase = "starting" => c \notin Askers) /\ call[c].want \in Kinds
  BY <1>1, NotStarting
<1> HIDE DEF x
<1>5. /\ compiled' \in [Graphs -> {NotCompiled} \cup Numbered(Len(conns))]
      /\ \A g \in Graphs : \/ compiled'[g] = compiled[g]
                           \/ compiled'[g] = Nothing
                           \/ call[c].op = "graph" /\ compiled'[g] = call[c].got
  <2>1. Nothing \in Numbered(Len(conns)) /\ call[c].got \in Numbered(Len(conns))
    BY <1>2, NothingNumbered DEF CallRows
  <2>2. CASE compiled' = compiled
    BY <1>2, <2>2
  <2>3. CASE compiled' # compiled
    <3>1. call[c].op = "graph"
      BY <1>1, <2>3
    <3>2. PICK with \in {call[c].got, Nothing} : compiled' = [compiled EXCEPT ![call[c].graph] = with]
      BY <1>1, <2>3
    <3>3. with \in Numbered(Len(conns))
      BY <2>1, <3>2
    <3> QED BY <1>2, <3>1, <3>2, <3>3
  <2> QED BY <2>2, <2>3
<1>6. /\ call'[c] = x /\ \A d \in Callers : d # c => call'[d] = call[d]
  BY <1>1, <1>2, CallUpdate
<1>7. GotShared'
  <2>1. \A d \in Callers : \A k : HasBeenGiven(d, k)' => call'[d].got = call[d].got /\ HasBeenGiven(d, k)
    BY <1>3, <1>6 DEF HasBeenGiven
  <2>2. call[c].op = "graph" => \A k : HasBeenGiven(c, k)
    BY <1>1 DEF HasBeenGiven
  <2>3. UNCHANGED <<lifePhase, overlap, given>>
    BY <1>1 DEF keptVars
  <2> HIDE DEF HasBeenGiven
  <2>4. ASSUME NEW k \in Kinds \ overlap', lifePhase' \in {"starting", "serving"}, NEW g \in Graphs,
               compiled'[g] \notin {NotCompiled, Nothing}
        PROVE  compiled'[g][k] # None /\ compiled'[g][k] = given'[k]
    <3>1. CASE compiled'[g] = compiled[g]
      BY <1>2, <2>3, <2>4, <3>1 DEF GotShared
    <3>2. CASE call[c].op = "graph" /\ compiled'[g] = call[c].got
      BY <1>2, <2>2, <2>3, <2>4, <3>2 DEF GotShared
    <3> QED BY <1>5, <2>4, <3>1, <3>2
  <2>5. ASSUME NEW k \in Kinds \ overlap', lifePhase' \in {"starting", "serving"}, NEW d \in Callers,
               HasBeenGiven(d, k)'
        PROVE  call'[d].got[k] # None /\ call'[d].got[k] = given'[k]
    BY <1>2, <2>1, <2>3, <2>5 DEF GotShared
  <2> QED BY <2>4, <2>5 DEF GotShared
<1>8. c \in Askers /\ dbFaults = 0 /\ lifePhase = "serving" => ~x.bad /\ ~x.failed
  BY <1>3 DEF ConnsIInv, FaultsShow
<1>9. bootGraphs' \subseteq Graphs
  BY <1>1, <1>2 DEF ConnTypes
<1> QED BY <1>1, <1>3, <1>4, <1>5, <1>7, <1>8, <1>9, CallMoves

LEMMA ConnsNext ==
    ASSUME ConnsIInv, [NextConns]_connVars
    PROVE  ConnsIInv'
<1>1. CASE UNCHANGED connVars
  <2>1. UNCHANGED <<setupOnInit, lifePhase, steps, running, adapter, bootGraphs, cm, inst, given, conns,
                    compiled, call, overlap, spoiled, dbFaults>>
    BY <1>1 DEF connVars, lifeVars, keptVars
  <2>2. ConnTypes' /\ StepsDone' /\ KindsMatch' /\ FaultsShow'
    BY <2>1 DEF ConnsIInv, ConnTypes, StepsDone, KindsMatch, FaultsShow
  <2>3. CallsOpen'
    BY <2>1 DEF ConnsIInv, CallsOpen, IsOpening
  <2>4. GotShared'
    BY <2>1 DEF ConnsIInv, GotShared, HasBeenGiven
  <2>5. \A k \in Kinds \ overlap' : OneAtATime(k)'
    BY <2>1 DEF ConnsIInv, OneAtATime, NotClosed, Opening, Closing
  <2> QED BY <2>2, <2>3, <2>4, <2>5 DEF ConnsIInv
<1>2. CASE StartStep
  BY <1>2, StartStepSound
<1>3. CASE StartFails
  BY <1>3, StartFailsSound
<1>4. CASE Stop
  BY <1>4, StopSound
<1>5. CASE StopStep
  BY <1>5, StopStepSound
<1>6. CASE BootGraph
  BY <1>6, BootSound
<1>7. CASE LoseConnection
  BY <1>7, LoseSound
<1>8. CASE \E c \in Askers : Request(c)
  BY <1>8, AskerSound
<1>9. ASSUME NEW c \in Callers, CallStep(c) PROVE ConnsIInv'
  <2>1. CASE Ask(c)
    BY <2>1, AskNoAdapter, AskKnown, AskOpens
  <2>2. CASE Opened(c)
    BY <2>2, OpenedSound
  <2>3. CASE Refused(c)
    BY <2>3, RefusedSound
  <2>4. CASE SetUp(c)
    BY <2>4, SetUpSound
  <2>5. CASE SetUpFails(c)
    BY <2>5, SetUpFailsSound
  <2>6. CASE Finish(c)
    BY <2>6, FinishSound
  <2> QED BY <1>9, <2>1, <2>2, <2>3, <2>4, <2>5, <2>6 DEF CallStep
<1> QED BY <1>1, <1>2, <1>3, <1>4, <1>5, <1>6, <1>7, <1>8, <1>9 DEF NextConns

LEMMA ConnsMeans ==
    ASSUME ConnsIInv
    PROVE  ConnsInv
<1>1. /\ ConnTypes /\ StepsDone /\ KindsMatch /\ GotShared /\ FaultsShow
      /\ \A k \in Kinds \ overlap : OneAtATime(k)
  BY DEF ConnsIInv
<1>2. /\ Len(conns) \in Nat /\ \A i \in 1..Len(conns) : conns[i] \in ConnRows
      /\ \A k \in Kinds : given[k] \in 0..Len(conns)
  BY <1>1, ConnFacts
<1>3. ConnsTypeOK
  BY <1>1 DEF ConnTypes, ConnsTypeOK, Numbered
<1>4. NoneIsLost
  BY <1>1, <1>2 DEF NoneIsLost, OneAtATime, ConnRows
<1>5. KeptIsReady
  <2> SUFFICES ASSUME NEW k \in Kinds, given[k] # None, k \notin overlap
               PROVE  /\ conns[given[k]].kind = k
                      /\ ~Closing /\ lifePhase \notin {"stuck", "aborted"} => conns[given[k]].state = "open"
                      /\ setupOnInit /\ k \notin spoiled => conns[given[k]].ready
    BY DEF KeptIsReady
  <2>1. OneAtATime(k) /\ conns[given[k]].kind = k
    BY <1>1 DEF KindsMatch
  <2>2. ASSUME ~Closing, lifePhase \notin {"stuck", "aborted"} PROVE conns[given[k]].state = "open"
    <3>1. lifePhase \in {"starting", "serving", "stopping"}
      BY <1>1, <2>1, <2>2 DEF ConnTypes, OneAtATime
    <3> QED BY <2>1, <2>2, <3>1 DEF OneAtATime
  <2> QED BY <2>1, <2>2 DEF OneAtATime
<1>6. GraphsShareConnections
  BY <1>1 DEF GotShared, GraphsShareConnections
<1>7. LoopsStopFirst
  <2>1. ASSUME Closing PROVE running = {}
    <3>1. lifePhase = "stopping" /\ steps \in 4..7 /\ running = Loops \ {Shutdown[i] : i \in 1..steps}
      BY <1>1, <2>1 DEF StepsDone, Closing
    <3>2. \A i \in {1, 2, 3, 4} : i \in 1..steps
      BY <3>1
    <3>3. Loops \subseteq {Shutdown[i] : i \in 1..steps}
      BY <3>2, ShutdownSteps DEF Loops
    <3> QED BY <3>1, <3>3
  <2> QED BY <1>1, <2>1 DEF StepsDone, LoopsStopFirst
<1>8. NoFalseAlarm
  <2>1. dbFaults \in Nat
    BY <1>1, ConnectionsAssumption DEF ConnTypes
  <2> QED BY <1>1, <2>1 DEF FaultsShow, NoFalseAlarm
<1> QED BY <1>3, <1>4, <1>5, <1>6, <1>7, <1>8 DEF ConnsInv

LEMMA ConnsInductive == ConnsSpec => []ConnsIInv
<1>1. InitConns => ConnsIInv
  BY ConnsBegin
<1>2. ConnsIInv /\ [NextConns]_connVars => ConnsIInv'
  BY ConnsNext
<1> QED BY <1>1, <1>2, PTL DEF ConnsSpec

\* As long as first requests do not meet each other or the stop, every connection that
\* was opened is the one its adapter will close, everybody (DatabaseManager and every
\* compiled graph) uses the same one, and it is open and set up; no background loop
\* outlives the engine; and no probe alarms while requests are served without a fault:
\* whatever the numbers of requests, graphs, connections and faults, and whatever the
\* setup fails at (core/checkpointer, core/database.py, core/health.py, lifespan of
\* main.py).
THEOREM ConnectionsSound == ConnsSpec => []ConnsInv
<1>1. ConnsIInv => ConnsInv
  BY ConnsMeans
<1> QED BY <1>1, ConnsInductive, PTL
=============================================================================
