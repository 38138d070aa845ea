--------------------------- MODULE ThreadHistory ---------------------------
(***************************************************************************)
(* The history of a thread, read page by page with a checkpoint as cursor, *)
(* and the state at one checkpoint, while runs add checkpoints             *)
(* (api/threads.py, services/thread_state_service.py).                     *)
(*                                                                         *)
(* The checkpointer is external: it keeps checkpoints in the order of      *)
(* their identifiers, here numbers, and a page is the newest that are older*)
(* than the cursor.  A checkpoint is "plain", "other" (the metadata filter *)
(* does not match it), "sub" (of a subgraph's namespace) or "broken"       *)
(* (values that are no record: it cannot be converted).                    *)
(***************************************************************************)
EXTENDS Naturals, FiniteSets, SequencesExt

CONSTANTS
    HistoryLimit,   \* limit of the request
    MaxCheckpoints  \* bound on the checkpoints of the thread

ASSUME HistoryAssumption == HistoryLimit \in Nat \ {0} /\ MaxCheckpoints \in Nat

VARIABLES
    threadRow,      \* "present" or "deleted"
    graphOf,        \* graph_id of the thread: "none", "known", "missing" (not loadable)
    checkpoints,    \* the checkpoints by number
    browser         \* the client

historyVars == <<threadRow, graphOf, checkpoints, browser>>

Checkpoints == 1..Len(checkpoints)
Answer(id, what) == [id |-> id, what |-> what]
NoAnswer == Answer(0, "none")
\* Bound: nothing happens once the client has its last answer.
Open == browser.pc \notin {"refused", "answered"}

InitHistory ==
    /\ threadRow = "present"
    /\ graphOf \in {"none", "known"}
    /\ checkpoints = <<>>
    /\ browser = [pc |-> "idle", space |-> "root", at |-> 0, filter |-> FALSE,
                  before |-> 0, got |-> <<>>, newest |-> 0, blind |-> FALSE, mistaken |-> FALSE,
                  answer |-> NoAnswer]

-----------------------------------------------------------------------------
(* The thread and its runs.                                                *)

\* A run or an update of the state; the first run gives the thread its graph.
AddCheckpoint ==
    /\ Open /\ threadRow = "present" /\ Len(checkpoints) < MaxCheckpoints
    /\ \E kind \in {"plain", "other", "sub", "broken"} :
         checkpoints' = Append(checkpoints, kind)
    /\ graphOf' = IF graphOf = "none" THEN "known" ELSE graphOf
    /\ UNCHANGED <<threadRow, browser>>

\* delete_thread leaves the checkpoints where they are.
DeleteThreadRow ==
    /\ Open /\ threadRow = "present" /\ threadRow' = "deleted"
    /\ UNCHANGED <<graphOf, checkpoints, browser>>

\* The server is restarted with another set of graphs, or the graph's module does
\* not load.
LoseGraph ==
    /\ Open /\ graphOf = "known" /\ graphOf' = "missing"
    /\ UNCHANGED <<threadRow, checkpoints, browser>>

-----------------------------------------------------------------------------
(* History.                                                                *)

\* What the checkpointer finds: one namespace, that of the request or the root, or
\* in it one checkpoint; the flag subgraphs is read and not used.
Found(space, at, filter) ==
    {i \in Checkpoints : /\ (checkpoints[i] = "sub") = (space = "sub")
                         /\ at # 0 => i = at
                         /\ filter => checkpoints[i] # "other"}
Asked == Found(browser.space, browser.at, browser.filter)

\* A page that begins with the cursor itself.
NewestUpTo(set, before) ==
    LET older == {i \in set : before = 0 \/ i <= before}
    IN  {i \in older : Cardinality({j \in older : j > i}) < HistoryLimit}

\* aget_state_history: the newest before the cursor.
NewestBefore(set, before) ==
    LET older == {i \in set : before = 0 \/ i < before}
    IN  {i \in older : Cardinality({j \in older : j > i}) < HistoryLimit}

Converts(i) == checkpoints[i] # "broken"

\* convert_snapshots_to_thread_states skips what cannot be converted; the newest is
\* first, and so each has as many newer ones in front of it.
Converted(set) ==
    LET states == {i \in set : Converts(i)}
    IN  [k \in 1..Cardinality(states) |->
           CHOOSE i \in states : Cardinality({j \in states : j > i}) = k - 1]

\* The request is checked; it may name a checkpoint.
PostHistory(at) ==
    /\ browser.pc = "idle"
    /\ \/ \E space \in {"root", "sub"}, filter \in BOOLEAN :
            browser' = [browser EXCEPT !.pc = "reading", !.space = space, !.at = at,
                                       !.filter = filter]
       \/ browser' = [browser EXCEPT !.pc = "refused"]
    /\ UNCHANGED <<threadRow, graphOf, checkpoints>>

\* The metadata of a GET are parsed and handed on as those of a POST without a
\* checkpoint.
GetHistory == PostHistory(0)

\* A thread without a row or a graph that does not load are errors, one without a
\* graph has no history.
Unreadable ==
    /\ browser.pc = "reading"
    /\ \/ (threadRow = "deleted" \/ graphOf = "missing")
            /\ browser' = [browser EXCEPT !.pc = "refused"]
       \/ threadRow = "present" /\ graphOf = "none"
            /\ browser' = [browser EXCEPT !.pc = "done"]
    /\ UNCHANGED <<threadRow, graphOf, checkpoints>>

\* An error of the checkpointer that says "not found" is answered by an empty page,
\* any other by an error.
ReadFails ==
    /\ browser.pc = "reading" /\ threadRow = "present" /\ graphOf = "known"
    /\ \/ browser' = [browser EXCEPT !.pc = "done", !.mistaken = TRUE]
       \/ browser' = [browser EXCEPT !.pc = "refused"]
    /\ UNCHANGED <<threadRow, graphOf, checkpoints>>

\* The client goes on from the last state it was given until a page is empty.
ReadHistory ==
    /\ browser.pc = "reading" /\ threadRow = "present" /\ graphOf = "known"
    /\ LET page == NewestBefore(Asked, browser.before)
           states == Converted(page)
       IN browser' = [browser EXCEPT
            !.got = @ \o states,
            !.pc = IF states = <<>> THEN "done" ELSE "reading",
            !.before = IF states = <<>> THEN @ ELSE states[Len(states)],
            !.blind = page # {} /\ states = <<>>,
            !.newest = IF browser.before = 0 THEN Len(checkpoints) ELSE @]
    /\ UNCHANGED <<threadRow, graphOf, checkpoints>>

-----------------------------------------------------------------------------
(* The state at a checkpoint.                                              *)

\* The request with a body hands on the identifier and nothing else, and is refused
\* without one.
StateAtPost(i) == IF i = 0 THEN {Answer(0, "refused")} ELSE {}

\* LangGraph answers for an identifier it does not find in the root namespace with
\* a snapshot without values, which is not the empty answer the code looks for.
StateAt(i) ==
    IF threadRow = "deleted" \/ graphOf # "known" THEN {Answer(i, "refused")}
    ELSE IF i \notin Found("root", 0, FALSE) THEN {Answer(i, "empty")}
    ELSE IF Converts(i) THEN {Answer(i, "state"), Answer(i, "refused")}
    ELSE {Answer(i, "refused")}

\* The client asks for a state the history has shown it, or for any number.
AskState ==
    /\ browser.pc = "done"
    /\ \E i \in 0..MaxCheckpoints :
         \E answer \in IF i = 0 THEN StateAtPost(i) ELSE StateAt(i) :
            browser' = [browser EXCEPT !.pc = "answered", !.answer = answer]
    /\ UNCHANGED <<threadRow, graphOf, checkpoints>>

NextHistory ==
    \/ AddCheckpoint \/ DeleteThreadRow \/ LoseGraph
    \/ GetHistory \/ (\E i \in 1..MaxCheckpoints : PostHistory(i))
    \/ Unreadable \/ ReadFails \/ ReadHistory
    \/ AskState

HistorySpec == InitHistory /\ [][NextHistory]_historyVars

-----------------------------------------------------------------------------
(* Properties.                                                             *)

HistoryTypeOK ==
    /\ threadRow \in {"present", "deleted"} /\ graphOf \in {"none", "known", "missing"}
    /\ Len(checkpoints) <= MaxCheckpoints
    /\ ToSet(browser.got) \subseteq Checkpoints
    /\ browser.pc \in {"idle", "reading", "refused", "done", "answered"}

\* A client that follows the cursor to its end has every checkpoint of the thread
\* that it asked for and that was there with the first page, the newest first and
\* none twice or added since, unless a page held only checkpoints that cannot be
\* converted or an error passed for the end.
HistoryTells ==
    /\ \A i, j \in 1..Len(browser.got) : i < j => browser.got[i] > browser.got[j]
    /\ browser.got # <<>> => browser.got[1] <= browser.newest
    /\ (browser.pc = "done" /\ ~browser.blind /\ ~browser.mistaken) =>
         \A i \in Asked :
             i <= browser.newest /\ Converts(i) => i \in ToSet(browser.got)

\* What the history has shown can be read again by its number as long as the thread
\* can be read, except a checkpoint of a subgraph, which is answered empty; a state
\* with values is always that of a checkpoint.
ShownIsReadable ==
    LET i == browser.answer.id IN
    /\ browser.answer.what = "state" => i \in Found("root", 0, FALSE)
    /\ (browser.answer.what = "empty" /\ i \in ToSet(browser.got)) => browser.space = "sub"

HistoryInv == HistoryTypeOK /\ HistoryTells /\ ShownIsReadable

\* Documented for the flag subgraphs (models/threads.py:305): the history then holds
\* the checkpoints of all namespaces.  The code does not keep it.
SubgraphsAreShown ==
    (browser.pc = "done" /\ browser.space = "root" /\ ~browser.blind /\ ~browser.mistaken) =>
        \A i \in 1..browser.newest : checkpoints[i] = "sub" => i \in ToSet(browser.got)
=============================================================================
