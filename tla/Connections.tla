----------------------------- MODULE Connections -----------------------------
(***************************************************************************)
(* The connections of the checkpointer and the store: the adapter that     *)
(* opens them at the first request, DatabaseManager that keeps what it is  *)
(* given, the graphs compiled with them, the probes, and the start and the *)
(* stop of the application around them (core/database.py,                  *)
(* core/checkpointer, core/health.py, services/langgraph_service.py and    *)
(* lifespan of main.py).                                                   *)
(*                                                                         *)
(* A connection is one connection, not a pool; it is its place in conns,   *)
(* and None stands for Python's None.  The adapters of PostgreSQL and      *)
(* SQLite differ in setup_on_init; the one in memory opens nothing and is  *)
(* left out.  A call that finds a connection kept goes on to its next      *)
(* question without a pause; here another task may come in between, as it  *)
(* does in the code when the first connection had to be opened.            *)
(***************************************************************************)
EXTENDS Naturals, Sequences

CONSTANTS
    Askers,          \* requests, and runs in the background
    Graphs,          \* _graph_registry
    Boot,            \* _register_a2a_agents, which asks for every graph
    MaxConns,        \* bound on the connections asked for
    MaxDbFaults      \* bound on refused, failing and lost connections

ASSUME ConnectionsAssumption ==
    Boot \notin Askers /\ MaxConns \in Nat /\ MaxDbFaults \in Nat

VARIABLES
    setupOnInit,     \* setup_on_init
    lifePhase,       \* of lifespan
    steps,           \* the steps of this phase that are done
    running,         \* the background loops
    adapter,         \* DatabaseManager._checkpointer_adapter is there
    bootGraphs,      \* the graphs Boot has asked for
    cm,              \* the adapter's context managers
    inst,            \* the adapter's _checkpointer and _store
    given,           \* DatabaseManager's _checkpointer and _store
    conns,           \* every connection ever asked for
    compiled,        \* _graph_cache: the connections a graph was compiled with
    call,            \* what each caller is doing
    overlap,         \* the kinds asked for while being opened or closed (history)
    spoiled,         \* the kinds whose setup has failed (history)
    dbFaults

lifeVars == <<setupOnInit, lifePhase, steps, running, adapter, bootGraphs>>
keptVars == <<cm, inst, given>>
connVars == <<lifeVars, keptVars, conns, compiled, call, overlap, spoiled, dbFaults>>

Kinds   == {"checkpointer", "store"}
Callers == Askers \cup {Boot}
None    == 0
Nothing == [k \in Kinds |-> None]
NotCompiled == [k \in {} |-> None]

\* The steps that concern connections or loops; the cache, the rate limiter, the
\* custom endpoints and the partitions are between them.
Startup  == <<"database", "graphs", "events", "threads", "crons", "mover">>
Shutdown == <<"mover", "events", "threads", "crons",
              "engine", "checkpointer", "store", "manager">>
Loops    == {"events", "threads", "crons", "mover"}

Resting == [op |-> "none", graph |-> "none", at |-> "idle", want |-> "none",
            conn |-> None, got |-> Nothing, bad |-> FALSE, failed |-> FALSE]

InitConns ==
    /\ setupOnInit \in BOOLEAN
    /\ lifePhase = "starting" /\ steps = 0 /\ running = {} /\ adapter = FALSE
    /\ bootGraphs = {}
    /\ cm = Nothing /\ inst = Nothing /\ given = Nothing /\ conns = <<>>
    /\ compiled = [g \in Graphs |-> NotCompiled]
    /\ call = [c \in Callers |-> Resting]
    /\ overlap = {} /\ spoiled = {} /\ dbFaults = 0

Fault == dbFaults < MaxDbFaults /\ dbFaults' = dbFaults + 1

Opening(k)  == \E c \in Callers : call[c].want = k /\ call[c].at \in {"opening", "settingUp"}
Closing     == lifePhase = "stopping" /\ steps >= 4
NotClosed(i)     == conns[i].state \in {"opening", "open"}

-----------------------------------------------------------------------------
(* lifespan.                                                               *)

\* Every step is awaited before the next one; that of the graphs ends when Boot,
\* whose errors are caught, has asked for each of them.  The loops of a step run on
\* their own.
StartStep ==
    /\ lifePhase = "starting"
    /\ LET step == Startup[steps + 1]
           last == steps + 1 = Len(Startup)
       IN  /\ step = "graphs" => bootGraphs = Graphs /\ call[Boot].at = "idle"
           /\ adapter' = (adapter \/ step = "database")
           /\ running' = running \cup ({step} \cap Loops)
           /\ steps' = IF last THEN 0 ELSE steps + 1
           /\ lifePhase' = IF last THEN "serving" ELSE lifePhase
    /\ UNCHANGED <<setupOnInit, bootGraphs, keptVars, conns, compiled, call,
                   overlap, spoiled, dbFaults>>

\* The default assistants cannot be written, or the configuration is wrong: the
\* exception leaves lifespan and the process ends without its second half.
StartFails ==
    /\ lifePhase = "starting" /\ Startup[steps + 1] = "graphs" /\ bootGraphs = {}
    /\ call[Boot].at = "idle" /\ Fault
    /\ lifePhase' = "aborted" /\ running' = {} /\ adapter' = FALSE
    /\ conns' = [i \in 1..Len(conns) |-> [conns[i] EXCEPT !.state = "closed"]]
    /\ UNCHANGED <<setupOnInit, steps, bootGraphs, keptVars, compiled, call,
                   overlap, spoiled>>

Stop ==
    /\ lifePhase = "serving"
    /\ lifePhase' = "stopping" /\ steps' = 0
    /\ UNCHANGED <<setupOnInit, running, adapter, bootGraphs, keptVars, conns,
                   compiled, call, overlap, spoiled, dbFaults>>

\* close of the adapter leaves the context manager it finds; one that is being
\* entered cannot be left (the generator is running), and the error ends lifespan
\* with everything after it undone.  The engine stays usable after its dispose.
CloseKind(k) ==
    IF cm[k] # None /\ conns[cm[k]].state = "opening"
    THEN /\ lifePhase' = "stuck" /\ UNCHANGED <<cm, inst, conns>>
    ELSE /\ conns' = [i \in 1..Len(conns) |->
                         IF i = cm[k] THEN [conns[i] EXCEPT !.state = "closed"]
                                      ELSE conns[i]]
         /\ cm' = [cm EXCEPT ![k] = None]
         /\ inst' = IF cm[k] = None THEN inst ELSE [inst EXCEPT ![k] = None]
         /\ UNCHANGED lifePhase

StopStep ==
    /\ lifePhase = "stopping"
    /\ LET step == Shutdown[steps + 1] IN
         /\ steps' = steps + 1
         /\ running' = running \ {step}
         /\ IF step \in Kinds
            THEN CloseKind(step) /\ UNCHANGED <<given, adapter>>
            ELSE IF step = "manager"
            THEN /\ adapter' = FALSE /\ given' = Nothing /\ lifePhase' = "closed"
                 /\ UNCHANGED <<cm, inst, conns>>
            ELSE UNCHANGED <<lifePhase, keptVars, adapter, conns>>
         /\ overlap' = overlap \cup {k \in Kinds : Closing /\ Opening(k)}
    /\ UNCHANGED <<setupOnInit, bootGraphs, compiled, call, spoiled, dbFaults>>

-----------------------------------------------------------------------------
(* A caller: get_graph, /health, /ready or an item of the store.           *)

Begin(c, op, graph) ==
    /\ call[c].at = "idle"
    /\ call' = [call EXCEPT ![c] =
                  [Resting EXCEPT !.op = op, !.graph = graph, !.at = "asking",
                     !.want = IF op = "store" THEN "store" ELSE "checkpointer"]]
    /\ UNCHANGED <<setupOnInit, lifePhase, steps, running, adapter, keptVars, conns,
                   compiled, overlap, spoiled, dbFaults>>

\* A graph whose module does not load asks for nothing.
BootGraph ==
    /\ lifePhase = "starting" /\ Startup[steps + 1] = "graphs"
    /\ \E g \in Graphs \ bootGraphs :
         /\ bootGraphs' = bootGraphs \cup {g}
         /\ \/ Begin(Boot, "graph", g)
            \/ /\ call[Boot].at = "idle"
               /\ UNCHANGED <<setupOnInit, lifePhase, steps, running, adapter, keptVars,
                              conns, compiled, call, overlap, spoiled, dbFaults>>

\* Askers are served until lifespan goes on; a run goes on after that.
Request(c) ==
    /\ lifePhase \in {"serving", "stopping", "closed"}
    /\ \/ \E g \in Graphs : compiled[g] = NotCompiled /\ Begin(c, "graph", g)
       \/ \E op \in {"health", "ready", "store"} :
             lifePhase = "serving" /\ Begin(c, op, "none")
    /\ UNCHANGED bootGraphs

\* What a caller knows and does next, once it has been given value.
After(c, value) ==
    LET now == [call[c] EXCEPT !.got[call[c].want] = value, !.conn = None]
    IN  IF now.want = "checkpointer"
        THEN [now EXCEPT !.want = "store", !.at = "asking"]
        ELSE [now EXCEPT !.at = "finishing"]

\* Of the answers only an error of a probe is remembered.
Told(c, well) ==
    IF well \/ call[c].op \notin {"health", "ready"} THEN Resting
    ELSE [Resting EXCEPT !.op = call[c].op, !.failed = TRUE]

\* /health looks at the store as well, the others end here.
AfterError(c) ==
    IF call[c].op = "health" /\ call[c].want = "checkpointer"
    THEN [call[c] EXCEPT !.want = "store", !.at = "asking", !.conn = None, !.bad = TRUE]
    ELSE Told(c, FALSE)

\* Only what DatabaseManager keeps.
KnownToManager(k) == given[k]

\* The two caches; the second is DatabaseManager's only when it is asked.
Known(k) == IF given[k] # None THEN given[k] ELSE inst[k]

Ask(c) ==
    /\ call[c].at = "asking"
    /\ LET k == call[c].want IN
         IF ~adapter
         THEN /\ call' = [call EXCEPT ![c] = AfterError(c)]
              /\ UNCHANGED <<keptVars, conns, overlap>>
         ELSE IF Known(k) # None
         THEN /\ given' = [given EXCEPT ![k] = Known(k)]
              /\ call' = [call EXCEPT ![c] = After(c, Known(k))]
              /\ overlap' = overlap \cup {x \in {k} : given[k] = None /\ Opening(k)}
              /\ UNCHANGED <<cm, inst, conns>>
         ELSE /\ Len(conns) < MaxConns
              /\ conns' = Append(conns, [kind |-> k, state |-> "opening",
                                         ready |-> FALSE, alive |-> TRUE])
              /\ cm' = [cm EXCEPT ![k] = Len(conns) + 1]
              /\ call' = [call EXCEPT ![c].at = "opening", ![c].conn = Len(conns) + 1]
              /\ overlap' = overlap \cup {x \in {k} : Opening(k) \/ Closing}
              /\ UNCHANGED <<inst, given>>
    /\ UNCHANGED <<lifeVars, compiled, spoiled, dbFaults>>

\* __aenter__ returns and its result is the adapter's; without setup it is returned
\* at once.
Opened(c) ==
    /\ call[c].at = "opening"
    /\ LET k == call[c].want  i == call[c].conn IN
         /\ conns' = [conns EXCEPT ![i].state = "open"]
         /\ inst' = [inst EXCEPT ![k] = i]
         /\ IF setupOnInit
            THEN call' = [call EXCEPT ![c].at = "settingUp"] /\ UNCHANGED given
            ELSE /\ given' = [given EXCEPT ![k] = i]
                 /\ call' = [call EXCEPT ![c] = After(c, i)]
    /\ UNCHANGED <<lifeVars, cm, compiled, overlap, spoiled, dbFaults>>

\* The server refuses; the context manager stays the adapter's.
Refused(c) ==
    /\ call[c].at = "opening" /\ Fault
    /\ conns' = [conns EXCEPT ![call[c].conn].state = "closed"]
    /\ call' = [call EXCEPT ![c] = AfterError(c)]
    /\ UNCHANGED <<lifeVars, keptVars, compiled, overlap, spoiled>>

\* setup on a connection that still works; what is returned, and kept by
\* DatabaseManager, is the adapter's of this moment.
SetUp(c) ==
    /\ call[c].at = "settingUp"
    /\ LET k == call[c].want  i == call[c].conn IN
         /\ conns[i].state = "open" /\ conns[i].alive
         /\ conns' = [conns EXCEPT ![i].ready = TRUE]
         /\ given' = [given EXCEPT ![k] = inst[k]]
         /\ call' = [call EXCEPT ![c] = After(c, inst[k])]
    /\ UNCHANGED <<lifeVars, cm, inst, compiled, overlap, spoiled, dbFaults>>

\* It fails, or the task is cancelled; the adapter keeps the connection and will
\* return it as it is.
SetUpFails(c) ==
    /\ call[c].at = "settingUp"
    /\ \/ Fault
       \/ ~(conns[call[c].conn].state = "open" /\ conns[call[c].conn].alive)
          /\ UNCHANGED dbFaults
    /\ spoiled' = spoiled \cup {call[c].want}
    /\ call' = [call EXCEPT ![c] = AfterError(c)]
    /\ UNCHANGED <<lifeVars, keptVars, conns, compiled, overlap>>

\* get_graph compiles with what it got, or, if a graph compiled by its author does
\* not take it, keeps that one; the probes look up an item and suppress what that
\* raises, so that a dead connection is a connected one.
Finish(c) ==
    /\ call[c].at = "finishing"
    /\ \/ /\ call[c].op = "graph"
          /\ \E with \in {call[c].got, Nothing} :
                compiled' = [compiled EXCEPT ![call[c].graph] = with]
       \/ call[c].op # "graph" /\ UNCHANGED compiled
    /\ call' = [call EXCEPT ![c] = Told(c, ~call[c].bad)]
    /\ UNCHANGED <<lifeVars, keptVars, conns, overlap, spoiled, dbFaults>>

\* The database closes a connection, and nothing here notices.
LoseConnection ==
    /\ Fault
    /\ \E i \in 1..Len(conns) :
         /\ conns[i].state = "open" /\ conns[i].alive
         /\ conns' = [conns EXCEPT ![i].alive = FALSE]
    /\ UNCHANGED <<lifeVars, keptVars, compiled, call, overlap, spoiled>>

CallStep(c) ==
    Ask(c) \/ Opened(c) \/ Refused(c) \/ SetUp(c) \/ SetUpFails(c) \/ Finish(c)

NextConns ==
    \/ StartStep \/ StartFails \/ Stop \/ StopStep
    \/ BootGraph \/ LoseConnection
    \/ \E c \in Askers : Request(c)
    \/ \E c \in Callers : CallStep(c)

ConnsSpec == InitConns /\ [][NextConns]_connVars

-----------------------------------------------------------------------------
(* Properties.                                                             *)

ConnsTypeOK ==
    /\ setupOnInit \in BOOLEAN /\ adapter \in BOOLEAN
    /\ lifePhase \in {"starting", "serving", "stopping", "closed", "stuck", "aborted"}
    /\ steps \in 0..8 /\ running \subseteq Loops /\ bootGraphs \subseteq Graphs
    /\ cm \in [Kinds -> 0..Len(conns)] /\ inst \in [Kinds -> 0..Len(conns)]
    /\ given \in [Kinds -> 0..Len(conns)]
    /\ overlap \subseteq Kinds /\ spoiled \subseteq Kinds
    /\ dbFaults \in 0..MaxDbFaults

\* Only first requests that meet each other, or the stop, can lose a connection:
\* any other live one is in the hands of the context manager close will leave, so
\* that none is open when the application has stopped.
NoneIsLost ==
    \A i \in 1..Len(conns) :
        NotClosed(i) /\ conns[i].kind \notin overlap => cm[conns[i].kind] = i

\* What DatabaseManager keeps is open until the stop reaches it, and its tables are
\* made, unless a setup failed, which is never made up for, or requests met.
KeptIsReady ==
    \A k \in Kinds : given[k] # None /\ k \notin overlap =>
        /\ conns[given[k]].kind = k
        /\ ~Closing /\ lifePhase \notin {"stuck", "aborted"} => conns[given[k]].state = "open"
        /\ setupOnInit /\ k \notin spoiled => conns[given[k]].ready

\* A graph persists through the connections everybody else uses, or not at all,
\* until the application stops.
GraphsShareConnections ==
    lifePhase \in {"starting", "serving"} =>
        \A g \in Graphs : compiled[g] \notin {NotCompiled, Nothing} =>
            \A k \in Kinds \ overlap : compiled[g][k] = given[k]

\* No loop outlives the engine its steps use, and each of them that runs while
\* requests are served was started.
LoopsStopFirst ==
    /\ lifePhase = "serving" => running = Loops
    /\ Closing \/ lifePhase = "closed" => running = {}

\* A probe never calls an application ill that is serving and has met no fault.
NoFalseAlarm ==
    \A c \in Askers :
        call[c].failed => dbFaults > 0 \/ lifePhase # "serving"

ConnsInv ==
    /\ ConnsTypeOK /\ NoneIsLost /\ KeptIsReady /\ GraphsShareConnections
    /\ LoopsStopFirst /\ NoFalseAlarm

\* What /health is for: a connection it answers for works.  Not kept, since it
\* suppresses the error of its own lookup (core/health.py:71).
HealthTells ==
    [][\A c \in Askers :
          call[c].op = "health" /\ call[c].at = "finishing" /\ call'[c] = Resting
            => \A k \in Kinds : conns[call[c].got[k]].alive]_call
=============================================================================
