----------------------------- MODULE Assistants -----------------------------
(***************************************************************************)
(* Assistants and their versions (AssistantService) over the graphs that   *)
(* LangGraphService loads.  An assistant's row repeats the content of one  *)
(* of its versions and names it; its metadata stay those it was created    *)
(* with.  Row and version are written in separate transactions, and what   *)
(* decides the next number is read before either.                          *)
(*                                                                         *)
(* Content stands for the graph and the configuration together: one user   *)
(* has each content once.  Names and descriptions go along.  Requests that *)
(* have one content have one set of metadata, so that a content names it.  *)
(***************************************************************************)
EXTENDS Integers, FiniteSets

CONSTANTS
    AssistantIds,   \* assistant_ids, which clients may choose
    DefaultIds,     \* those that a graph's default assistant has
    Clients,        \* identities of users
    OrgOf,          \* the organization of each, or "none"
    Contents,       \* contents of requests
    GraphOf,        \* the graph of each content
    Registry,       \* the graphs of open_langgraph.json
    Loadable,       \* those whose file and export load
    Calls,          \* the requests that change something, each made once
    MaxVersions,    \* bound of the model: versions of an assistant
    MaxCrashes      \* bound of the model: transactions that fail

ASSUME AssistantConstants ==
    /\ DefaultIds \subseteq AssistantIds /\ Loadable \subseteq Registry
    /\ "nobody" \notin Clients /\ Contents # {}
    /\ MaxVersions \in Nat \ {0} /\ MaxCrashes \in Nat

VARIABLES
    assistant,  \* the row of each id, or NoAssistant; metadata: the content whose it has
    versions,   \* for each id, a function from version numbers to contents, with
                \* their metadata
    call,       \* what each request is doing
    compiled,   \* _graph_cache
    agents,     \* the graphs registered as A2A agents
    started,    \* LangGraphService.initialize has run
    crashes,
    stray       \* history: ids whose row or versions a request for a deleted
                \* assistant of the same id has written

asstVars == <<assistant, versions, call, compiled, agents, started, crashes, stray>>

---------------------------------------------------------------------------
NoAssistant == [user |-> "nobody"]
NoVersions  == [v \in {} |-> "nothing"]
Resting     == [at |-> "idle"]
Finished    == [at |-> "done"]
System      == "system"

Present(a) == assistant[a] # NoAssistant
Numbers(a) == DOMAIN versions[a]
Newest(a)  == CHOOSE n \in Numbers(a) : \A m \in Numbers(a) : m <= n

AsstTypeOK ==
    /\ \A a \in AssistantIds :
          /\ Present(a) => /\ assistant[a].user \in Clients \cup {System}
                           /\ assistant[a].version \in 1..MaxVersions
                           /\ {assistant[a].content, assistant[a].metadata} \subseteq Contents
          /\ Numbers(a) \subseteq 1..MaxVersions
          /\ \A n \in Numbers(a) : versions[a][n] \in Contents
    /\ \A c \in Calls : call[c].at \in {"idle", "done", "insert", "first", "number", "apply"}
    /\ compiled \subseteq Loadable /\ agents \subseteq Loadable /\ stray \subseteq AssistantIds
    /\ started \in BOOLEAN /\ crashes \in 0..MaxCrashes

SetCall(c, state) == call' = [call EXCEPT ![c] = state]
Crash == crashes < MaxCrashes /\ crashes' = crashes + 1

\* The two unique indexes of the table beside its key.
Duplicate(a, u, content) ==
    \E b \in AssistantIds \ {a} :
        Present(b) /\ assistant[b].user = u /\ assistant[b].content = content

\* _build_access_filter
CanRead(u, a, system) ==
    \/ assistant[a].user = u
    \/ OrgOf[u] # "none" /\ assistant[a].org = OrgOf[u]
    \/ system /\ assistant[a].user = System

---------------------------------------------------------------------------
(* LangGraphService *)

\* initialize: a default assistant for each graph that has none, in one commit,
\* without a version row; then the agents of the graphs that load.
StartUp ==
    /\ ~started
    /\ started' = TRUE
    /\ assistant' = [a \in AssistantIds |->
          IF a \in DefaultIds /\ ~Present(a)
          THEN LET first == CHOOSE x \in Contents : TRUE IN
               [user |-> System, org |-> "none", content |-> first, metadata |-> first,
                version |-> 1]
          ELSE assistant[a]]
    /\ compiled' = compiled \cup Loadable
    /\ \E compatible \in SUBSET Loadable : agents' = compatible
    /\ UNCHANGED <<versions, call, crashes, stray>>

\* The process goes: rows stay, what was being done and loaded does not.
Restart ==
    /\ started /\ Crash
    /\ started' = FALSE /\ compiled' = {} /\ agents' = {}
    /\ call' = [c \in Calls |-> IF call[c] = Resting THEN Resting ELSE Finished]
    /\ UNCHANGED <<assistant, versions, stray>>

\* get_graph raises for a graph that is not registered or does not load, and keeps
\* the others; invalidate_cache drops them.
GetGraph(g) == g \in Loadable /\ compiled' = compiled \cup {g}

InvalidateGraphs ==
    /\ compiled # {} /\ compiled' = {}
    /\ UNCHANGED <<assistant, versions, call, agents, started, crashes, stray>>

\* get_assistant_schemas, get_assistant_graph, get_assistant_subgraphs
InspectGraph(u, a) ==
    /\ started /\ Present(a) /\ CanRead(u, a, TRUE)
    /\ GetGraph(GraphOf[assistant[a].content])
    /\ UNCHANGED <<assistant, versions, call, agents, started, crashes, stray>>

---------------------------------------------------------------------------
(* create_assistant *)

\* An assistant of the user that has the id or the content is returned or refused.
CheckNew(c) ==
    /\ call[c] = Resting /\ started
    /\ \E u \in Clients, a \in AssistantIds, content \in Contents :
          /\ GetGraph(GraphOf[content])
          /\ SetCall(c, IF assistant[a].user = u \/ Duplicate(a, u, content) THEN Finished
                        ELSE [at |-> "insert", kind |-> "create", user |-> u, id |-> a,
                              content |-> content, number |-> 1])
    /\ UNCHANGED <<assistant, versions, agents, started, crashes, stray>>

InsertAssistant(c) ==
    LET x == call[c]
        fails == Present(x.id) \/ Duplicate(x.id, x.user, x.content)
    IN  /\ x.at = "insert"
        /\ assistant' = IF fails THEN assistant
                        ELSE [assistant EXCEPT ![x.id] =
                                 [user |-> x.user, org |-> OrgOf[x.user],
                                  content |-> x.content, metadata |-> x.content,
                                  version |-> 1]]
        /\ SetCall(c, IF fails THEN Finished ELSE [x EXCEPT !.at = "first"])
        /\ UNCHANGED <<versions, compiled, agents, started, crashes, stray>>

\* A version row needs its assistant and a number that is free.
CanInsertVersion(a, n) == Present(a) /\ n \notin Numbers(a)

WithVersion(a, n, content) ==
    [versions EXCEPT ![a] = [m \in Numbers(a) \cup {n} |-> IF m = n THEN content ELSE @[m]]]

InsertFirst(c) ==
    LET x == call[c] IN
    /\ x.at = "first"
    /\ \/ /\ CanInsertVersion(x.id, 1)
          /\ versions' = WithVersion(x.id, 1, x.content)
          /\ UNCHANGED crashes
       \/ ~CanInsertVersion(x.id, 1) /\ UNCHANGED <<versions, crashes>>
       \/ Crash /\ UNCHANGED versions
    /\ SetCall(c, Finished)
    /\ UNCHANGED <<assistant, compiled, agents, started, stray>>

---------------------------------------------------------------------------
(* update_assistant and set_assistant_latest *)

\* The number after the greatest; 1 for an assistant whose first row was lost.
NextNumber(a) == IF Numbers(a) = {} THEN 1 ELSE Newest(a) + 1

ReadNewest(c) ==
    /\ call[c] = Resting /\ started
    /\ \E u \in Clients, a \in AssistantIds, content \in Contents :
          /\ assistant[a].user = u /\ NextNumber(a) <= MaxVersions
          /\ SetCall(c, [at |-> "number", kind |-> "update", user |-> u, id |-> a,
                         content |-> content, number |-> NextNumber(a)])
    /\ UNCHANGED <<assistant, versions, compiled, agents, started, crashes, stray>>

InsertVersion(c) ==
    LET x == call[c] IN
    /\ x.at = "number"
    /\ IF CanInsertVersion(x.id, x.number)
       THEN /\ versions' = WithVersion(x.id, x.number, x.content)
            /\ SetCall(c, [x EXCEPT !.at = "apply"])
       ELSE SetCall(c, Finished) /\ UNCHANGED versions
    /\ UNCHANGED <<assistant, compiled, agents, started, crashes, stray>>

ReadVersion(c) ==
    /\ call[c] = Resting /\ started
    /\ \E u \in Clients, a \in AssistantIds :
          /\ assistant[a].user = u
          /\ \E n \in Numbers(a) :
                SetCall(c, [at |-> "apply", kind |-> "latest", user |-> u, id |-> a,
                            content |-> versions[a][n], number |-> n])
    /\ UNCHANGED <<assistant, versions, compiled, agents, started, crashes, stray>>

\* One UPDATE of the user's row, which fails on a duplicate.  It does not write the
\* metadata, which the version's row has.
\* Mutant: the number is written, but the content of the request is not.
\* Mutant: the number that was the greatest before is written.
PreviousNumber(row, x) == [row EXCEPT !.version = x.number - 1, !.content = x.content]
OnlyNumber(row, x) == [row EXCEPT !.version = x.number]
Applied(row, x) == [row EXCEPT !.version = x.number, !.content = x.content]

ApplyVersion(c) ==
    LET x == call[c] IN
    /\ x.at = "apply"
    /\ \/ /\ assistant[x.id].user = x.user /\ ~Duplicate(x.id, x.user, x.content)
          /\ assistant' = [assistant EXCEPT ![x.id] = Applied(@, x)]
          /\ UNCHANGED crashes
       \/ /\ assistant[x.id].user # x.user \/ Duplicate(x.id, x.user, x.content)
          /\ UNCHANGED <<assistant, crashes>>
       \/ Crash /\ UNCHANGED assistant
    /\ SetCall(c, Finished)
    /\ UNCHANGED <<versions, compiled, agents, started, stray>>

---------------------------------------------------------------------------
\* delete_assistant: the versions go with the row.  Requests for it that are under
\* way will find nothing, or another assistant that has been given the id.
DeleteAssistant(c) ==
    /\ call[c] = Resting /\ started
    /\ \E u \in Clients, a \in AssistantIds :
          /\ assistant[a].user = u
          /\ assistant' = [assistant EXCEPT ![a] = NoAssistant]
          /\ versions' = [versions EXCEPT ![a] = NoVersions]
          /\ stray' = IF \E d \in Calls : call[d].at \notin {"idle", "done"} /\ call[d].id = a
                      THEN stray \cup {a} ELSE stray
    /\ SetCall(c, Finished)
    /\ UNCHANGED <<compiled, agents, started, crashes>>

---------------------------------------------------------------------------
InitAssistants ==
    /\ assistant = [a \in AssistantIds |-> NoAssistant]
    /\ versions = [a \in AssistantIds |-> NoVersions]
    /\ call = [c \in Calls |-> Resting]
    /\ compiled = {} /\ agents = {} /\ started = FALSE /\ crashes = 0 /\ stray = {}

NextAssistants ==
    \/ StartUp \/ Restart \/ InvalidateGraphs
    \/ \E u \in Clients, a \in AssistantIds : InspectGraph(u, a)
    \/ \E c \in Calls :
          \/ CheckNew(c) \/ InsertAssistant(c) \/ InsertFirst(c)
          \/ ReadNewest(c) \/ InsertVersion(c) \/ ReadVersion(c) \/ ApplyVersion(c)
          \/ DeleteAssistant(c)

AssistantSpec == InitAssistants /\ [][NextAssistants]_asstVars

---------------------------------------------------------------------------
(***************************************************************************)
(* The numbers of the versions have no gap and begin with 1, whatever      *)
(* updates race and whichever transaction fails between row and version:   *)
(* the number that is read before the insert may be taken by then, but     *)
(* never leaves one out.                                                   *)
(***************************************************************************)
VersionsDense ==
    \A a \in AssistantIds \ stray : Numbers(a) = 1..Cardinality(Numbers(a))

(***************************************************************************)
(* The row has the graph, the configuration and the names of the version   *)
(* it names; of the metadata see MetadataOfVersion.  Version 1 may differ  *)
(* from it when the version row of a new assistant was lost and the next   *)
(* update took its number, and an id that is used again while requests for *)
(* its old assistant are under way may have what they write.               *)
(***************************************************************************)
RowIsItsVersion ==
    \A a \in AssistantIds \ stray :
        Present(a) /\ assistant[a].version \in Numbers(a) /\ assistant[a].version > 1 =>
            assistant[a].content = versions[a][assistant[a].version]

(***************************************************************************)
(* set_assistant_latest makes the row what the version says                *)
(* (assistant_service.py:766): of the metadata this does not hold.         *)
(***************************************************************************)
MetadataOfVersion ==
    \A a \in AssistantIds \ stray :
        Present(a) /\ assistant[a].version \in Numbers(a) /\ assistant[a].version > 1 =>
            assistant[a].metadata = versions[a][assistant[a].version]

AssistantInv == AsstTypeOK /\ VersionsDense /\ RowIsItsVersion

(***************************************************************************)
(* The row goes back to an older version only for set_assistant_latest, or *)
(* for an update that another update has overtaken between its two         *)
(* transactions.                                                           *)
(***************************************************************************)
SteppedBack(a) ==
    Present(a) /\ assistant'[a] # NoAssistant /\ assistant'[a].version < assistant[a].version

BackOnlyByChoiceOrRace ==
    [][\A a \in AssistantIds, c \in Calls :
          SteppedBack(a) /\ a \notin stray /\ call'[c] # call[c] =>
             call[c].kind = "latest" \/ Newest(a) > call[c].number]_asstVars
=============================================================================
