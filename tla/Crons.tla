------------------------------- MODULE Crons -------------------------------
(***************************************************************************)
(* Scheduled runs (CronSchedulerService, api/crons.py).  Each server looks *)
(* once a minute for the jobs that are due.  For each of them it inserts a *)
(* run and moves the job's next date in one transaction for all, but the   *)
(* task of the run is started at once and writes the run's status in       *)
(* transactions of its own.                                                *)
(*                                                                         *)
(* Time is counted in dates of the schedules.  end_time is never set and   *)
(* trigger_cron_now never called; a schedule that has no next date is not  *)
(* accepted in the first place.                                            *)
(***************************************************************************)
EXTENDS Integers, FiniteSets

CONSTANTS
    CronIds,
    Servers,
    ForThreads,     \* the jobs that are made for a thread
    Runnable,       \* the jobs whose assistant has the name of a graph
    MaxTime,        \* bound of the model: dates that pass; no job is made after
    MaxCronRuns,    \* bound of the model: runs, kept or lost
    MaxCronFaults   \* bound of the model: failed transactions and crashes

ASSUME CronConstants ==
    /\ Runnable \subseteq CronIds /\ ForThreads \subseteq CronIds
    /\ MaxTime \in Nat /\ MaxCronRuns \in Nat /\ MaxCronFaults \in Nat

VARIABLES
    now,        \* the date that has come last
    cron,       \* the row of each job, or why it has none
    tick,       \* what the scheduler of each server is doing
    run,        \* the runs so far, with those that are gone again
    job,        \* what the task of each run is doing
    unheard,    \* history: runs whose task could not write its last status
    cronFaults

cronVars == <<now, cron, tick, run, job, unheard, cronFaults>>

---------------------------------------------------------------------------
CronRuns == 1..MaxCronRuns
NotMade  == [is |-> "not made"]
Deleted  == [is |-> "deleted"]
Orphaned == [is |-> "orphaned"]     \* it went with its assistant
NoRun    == [status |-> "unused"]
Asleep == [at |-> "asleep", todo |-> {}, thread |-> {}, slot |-> [c \in {} |-> 0]]

Scheduled(c)  == cron[c] \notin {NotMade, Deleted, Orphaned}
IsDue(c)      == Scheduled(c) /\ cron[c].next <= now
Used(r)       == run[r] # NoRun
OpenOf(s)     == {r \in CronRuns : Used(r) /\ run[r].kept = "open" /\ run[r].server = s}

\* The server whose tick has a run of the job, and its date, not yet committed.
LockedBy(c) == {s \in Servers : \E r \in OpenOf(s) : run[r].cron = c}

Without(runs) == [r \in CronRuns |-> IF r \in runs THEN [run[r] EXCEPT !.kept = "lost"] ELSE run[r]]
CronFault     == cronFaults < MaxCronFaults /\ cronFaults' = cronFaults + 1
SetTick(s, x) == tick' = [tick EXCEPT ![s] = x]

CronTypeOK ==
    /\ now \in 0..MaxTime /\ cronFaults \in 0..MaxCronFaults /\ unheard \subseteq CronRuns
    /\ \A c \in CronIds : Scheduled(c) => cron[c].next \in 0..MaxTime + 1 /\ cron[c].threaded \in BOOLEAN
    /\ \A s \in Servers : tick[s].at \in {"asleep", "each"} /\ tick[s].todo \subseteq CronIds
    /\ \A r \in CronRuns :
          /\ Used(r) => /\ run[r].kept \in {"open", "kept", "lost"}
                        /\ run[r].status \in {"pending", "running", "success", "error"}
          /\ job[r] \in {"none", "find", "invoke", "ended"}

---------------------------------------------------------------------------
(* api/crons.py and the foreign keys of the table *)

\* Mutant: the next date is counted from the one before.
NextFromBefore(t) == t
NextDate(t) == t + 1

CreateCron(c) ==
    /\ cron[c] = NotMade /\ now < MaxTime
    /\ cron' = [cron EXCEPT ![c] =
                   [is |-> "scheduled", next |-> NextDate(now), threaded |-> c \in ForThreads]]
    /\ UNCHANGED <<now, tick, run, job, unheard, cronFaults>>

\* Deletions wait for a tick that has written to the row or refers to it.
DeleteCron(c) ==
    /\ Scheduled(c) /\ LockedBy(c) = {}
    /\ cron' = [cron EXCEPT ![c] = Deleted]
    /\ UNCHANGED <<now, tick, run, job, unheard, cronFaults>>

\* ON DELETE CASCADE for the job and its runs
DeleteCronAssistant(c) ==
    /\ Scheduled(c) /\ LockedBy(c) = {}
    /\ cron' = [cron EXCEPT ![c] = Orphaned]
    /\ run' = Without({r \in CronRuns : Used(r) /\ run[r].cron = c})
    /\ UNCHANGED <<now, tick, job, unheard, cronFaults>>

\* ON DELETE SET NULL for the job, CASCADE for its runs
DeleteCronThread(c) ==
    /\ Scheduled(c) /\ cron[c].threaded /\ LockedBy(c) = {}
    /\ cron' = [cron EXCEPT ![c].threaded = FALSE]
    /\ run' = Without({r \in CronRuns : Used(r) /\ run[r].cron = c})
    /\ UNCHANGED <<now, tick, job, unheard, cronFaults>>

Pass ==
    /\ now < MaxTime /\ now' = now + 1
    /\ UNCHANGED <<cron, tick, run, job, unheard, cronFaults>>

---------------------------------------------------------------------------
(* _process_due_crons *)

LoadDue(s) ==
    LET due == {c \in CronIds : IsDue(c)} IN
    /\ tick[s].at = "asleep" /\ due # {}
    /\ SetTick(s, [at |-> "each", todo |-> due, thread |-> {c \in due : cron[c].threaded},
                   slot |-> [c \in due |-> cron[c].next]])
    /\ UNCHANGED <<now, cron, run, job, unheard, cronFaults>>

\* The assistant or the thread that was loaded is gone: the flush before the UPDATE
\* fails on a foreign key.
RowsRefused(s, c) ==
    \/ cron[c] = Orphaned
    \/ c \in tick[s].thread /\ ~(Scheduled(c) /\ cron[c].threaded)

\* _execute_cron waits for another tick that has the row.  The dates of deleted jobs
\* are not moved, but their run is made.
ExecuteCron(s, c, r) ==
    /\ run[r] = NoRun /\ \A q \in CronRuns : q < r => Used(q)
    /\ LockedBy(c) \subseteq {s} /\ ~RowsRefused(s, c)
    /\ run' = [run EXCEPT ![r] = [cron |-> c, slot |-> tick[s].slot[c], server |-> s,
                                  next |-> NextDate(now), status |-> "pending", kept |-> "open"]]
    /\ job' = [job EXCEPT ![r] = "find"]
    /\ SetTick(s, [tick[s] EXCEPT !.todo = @ \ {c}])
    /\ UNCHANGED <<now, cron, unheard, cronFaults>>

\* What the tick has done so far is rolled back; the tasks it has started go on.
RollBack(s) ==
    /\ run' = Without(OpenOf(s))
    /\ SetTick(s, Asleep)
    /\ UNCHANGED <<now, cron, job, unheard>>

\* A job without a thread gets one, and nothing tells the flush to insert it before
\* the run that refers to it: whether it does is left open.
FailTick(s) ==
    /\ tick[s].at = "each"
    /\ \/ /\ \E c \in tick[s].todo : RowsRefused(s, c) \/ c \notin tick[s].thread
          /\ UNCHANGED cronFaults
       \/ CronFault
    /\ RollBack(s)

\* Two ticks wait for each other's rows, and the database fails one of them.
BreakDeadlock(s) ==
    /\ \E s2 \in Servers \ {s} :
          /\ \E c \in tick[s].todo : LockedBy(c) = {s2}
          /\ \E c \in tick[s2].todo : LockedBy(c) = {s}
    /\ RollBack(s) /\ UNCHANGED cronFaults

CommitTick(s) ==
    /\ tick[s].at = "each" /\ tick[s].todo = {}
    /\ run' = [r \in CronRuns |-> IF r \in OpenOf(s) THEN [run[r] EXCEPT !.kept = "kept"] ELSE run[r]]
    /\ cron' = [c \in CronIds |->
          IF Scheduled(c) /\ LockedBy(c) = {s}
          THEN [cron[c] EXCEPT !.next = run[CHOOSE r \in OpenOf(s) : run[r].cron = c].next]
          ELSE cron[c]]
    /\ SetTick(s, Asleep)
    /\ UNCHANGED <<now, job, unheard, cronFaults>>

---------------------------------------------------------------------------
(* _execute_run_async *)

\* _update_run_status: it writes nothing before the row is committed, and a failure
\* is logged.
Write(r, status) ==
    \/ /\ run[r].kept = "kept"
       /\ run' = [run EXCEPT ![r].status = status]
       /\ unheard' = unheard \ {r} /\ UNCHANGED cronFaults
    \/ /\ run[r].kept # "kept"
       /\ unheard' = unheard \cup {r} /\ UNCHANGED <<run, cronFaults>>
    \/ CronFault /\ unheard' = unheard \cup {r} /\ UNCHANGED run

\* get_graph takes the assistant's id for that of a graph, and raises if it is none.
FindGraph(r) ==
    /\ job[r] = "find"
    /\ IF run[r].cron \in Runnable
       THEN Write(r, "running") /\ job' = [job EXCEPT ![r] = "invoke"]
       ELSE Write(r, "error") /\ job' = [job EXCEPT ![r] = "ended"]
    /\ UNCHANGED <<now, cron, tick>>

\* ainvoke returns or raises.
Invoke(r) ==
    /\ job[r] = "invoke"
    /\ \E result \in {"success", "error"} : Write(r, result)
    /\ job' = [job EXCEPT ![r] = "ended"]
    /\ UNCHANGED <<now, cron, tick>>

\* The tasks of a server end with it.
CrashServer(s) ==
    LET here == {r \in CronRuns : Used(r) /\ run[r].server = s /\ job[r] # "ended"} IN
    /\ CronFault
    /\ job' = [r \in CronRuns |-> IF r \in here THEN "ended" ELSE job[r]]
    /\ unheard' = unheard \cup here
    /\ run' = Without(OpenOf(s))
    /\ SetTick(s, Asleep)
    /\ UNCHANGED <<now, cron>>

---------------------------------------------------------------------------
InitCrons ==
    /\ now = 0 /\ cron = [c \in CronIds |-> NotMade]
    /\ tick = [s \in Servers |-> Asleep]
    /\ run = [r \in CronRuns |-> NoRun] /\ job = [r \in CronRuns |-> "none"]
    /\ unheard = {} /\ cronFaults = 0

NextCrons ==
    \/ Pass
    \/ \E c \in CronIds : CreateCron(c) \/ DeleteCron(c)
                           \/ DeleteCronAssistant(c) \/ DeleteCronThread(c)
    \/ \E s \in Servers :
          \/ LoadDue(s) \/ CommitTick(s) \/ BreakDeadlock(s) \/ FailTick(s) \/ CrashServer(s)
          \/ \E c \in tick[s].todo, r \in CronRuns : ExecuteCron(s, c, r)
    \/ \E r \in CronRuns : FindGraph(r) \/ Invoke(r)

CronSpec == InitCrons /\ [][NextCrons]_cronVars

---------------------------------------------------------------------------
(***************************************************************************)
(* One server makes at most one run of a date that is not rolled back: a   *)
(* second run of the date is another server's, or the first was rolled     *)
(* back or has gone with its thread.                                       *)
(***************************************************************************)
OneRunPerDate ==
    \A q, r \in CronRuns :
        /\ q # r /\ Used(q) /\ Used(r)
        /\ run[q].cron = run[r].cron /\ run[q].slot = run[r].slot
        /\ run[q].server = run[r].server
        => run[q].kept = "lost" \/ run[r].kept = "lost"

(***************************************************************************)
(* A run whose task has ended has the status of its end, unless the task   *)
(* wrote before the run was committed, or failed to write.                 *)
(***************************************************************************)
EndIsWritten ==
    \A r \in CronRuns :
        Used(r) /\ job[r] = "ended" /\ run[r].kept = "kept" /\ r \notin unheard =>
            run[r].status \in {"success", "error"}

CronInv == CronTypeOK /\ OneRunPerDate /\ EndIsWritten
=============================================================================
