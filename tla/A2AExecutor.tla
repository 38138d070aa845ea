---------------------------- MODULE A2AExecutor ----------------------------
(***************************************************************************)
(* Tasks of the A2A endpoint of a graph: the message is converted for the  *)
(* graph, its chunks become events of the task, the answer an artifact     *)
(* (a2a/executor.py, a2a/converter.py, a2a/router.py).                     *)
(*                                                                         *)
(* The A2A library keeps the tasks, calls execute and cancel concurrently  *)
(* and, once cancel has returned, stops the execution; it is modelled from *)
(* how the executor uses it.                                               *)
(***************************************************************************)
EXTENDS Naturals, FiniteSets, Sequences

CONSTANTS
    A2ATasks,       \* tasks that may be sent to the graph
    Messages,       \* the messages that may be sent, as sequences of parts
    MaxChunks,      \* bound on the chunks of the graph in an execution
    MaxRounds       \* bound on the interrupts of a task

ASSUME A2AAssumption ==
    /\ MaxChunks \in Nat /\ MaxRounds \in Nat
    /\ \A message \in Messages :
          message \in Seq([kind : {"text", "image", "document", "data"}, data : STRING])

VARIABLES
    execution,      \* where the execution of a task is, and its accumulated text
    events,         \* the events of a task, in order
    sent,           \* the message of the execution (history)
    given,          \* what the graph was given of it
    chunks,         \* what the graph said in this execution (history)
    cancelling      \* tasks for which cancel has put its event

a2aVars == <<execution, events, sent, given, chunks, cancelling>>

Part(kind, data) == [kind |-> kind, data |-> data]

-----------------------------------------------------------------------------
(* The converter.  A part is a text, an image, a document or data; "empty" *)
(* is data without a key.                                                  *)

IsFile(part) == part.kind \in {"image", "document"}
PlacesOf(parts, kinds) == {i \in 1..Len(parts) : parts[i].kind \in kinds}
\* What stands at these places, in its order: each has as many of them in front.
Picked(parts, places) ==
    [k \in 1..Cardinality(places) |->
        parts[CHOOSE i \in places : Cardinality({j \in places : j < i}) = k - 1]]
OfKind(parts, kind) == Picked(parts, PlacesOf(parts, {kind}))
DataOf(parts) == [i \in 1..Len(parts) |-> parts[i].data]

\* parts_to_langchain_content: the texts run together if there is no file, else
\* a block for every part but data; what is no image is only named.
Content(parts) ==
    LET kept == Picked(parts, PlacesOf(parts, {"text", "image", "document"}))
        block(part) == IF part.kind = "document" THEN Part("text", part.data) ELSE part
    IN  IF \E i \in 1..Len(parts) : IsFile(parts[i])
        THEN [blocks |-> TRUE, items |-> [i \in 1..Len(kept) |-> block(kept[i])]]
        ELSE [blocks |-> FALSE, items |-> DataOf(OfKind(parts, "text"))]

\* a2a_to_langchain: data goes beside the content, alone if there is one.
ToGraph(parts) ==
    LET data == DataOf(OfKind(parts, "data"))
    IN  [content |-> Content(parts), a2aData |-> data]

\* A conversion that makes a part of empty data, too.
FromGraphIfAny(message) ==
    LET body == IF message.content.blocks THEN message.content.items
                ELSE <<Part("text", message.content.items)>>
    IN  IF message.a2aData = <<>> THEN body
        ELSE Append(body, Part("data", message.a2aData))

\* langchain_to_a2a: text and images become parts again; data becomes one part,
\* unless it is empty.
FromGraph(message) ==
    LET body == IF message.content.blocks THEN message.content.items
                ELSE <<Part("text", message.content.items)>>
    IN  IF message.a2aData \in {<<>>, <<"empty">>} THEN body
        ELSE Append(body, Part("data", message.a2aData))

-----------------------------------------------------------------------------
(* execute.                                                                *)

Absent == [at |-> "absent", text |-> <<>>]
NotGiven == ToGraph(<<>>)

InitA2A ==
    /\ execution = [t \in A2ATasks |-> Absent]
    /\ events = [t \in A2ATasks |-> <<>>]
    /\ sent = [t \in A2ATasks |-> <<>>]
    /\ given = [t \in A2ATasks |-> NotGiven]
    /\ chunks = [t \in A2ATasks |-> <<>>]
    /\ cancelling = {}

Notice(kind, text) == [kind |-> kind, text |-> text]
Enqueue(t, notice) == events' = [events EXCEPT ![t] = Append(@, notice)]
Has(t, kind) == \E i \in 1..Len(events[t]) : events[t][i].kind = kind
Positions(t, kind) == {i \in 1..Len(events[t]) : events[t][i].kind = kind}
LastKind(t) == IF events[t] = <<>> THEN "none" ELSE events[t][Len(events[t])].kind

\* A task the library has not got is made and announced; one that waits for its
\* user goes on without an announcement, with nothing accumulated.
Execute(t) ==
    /\ \/ execution[t].at = "absent" /\ Enqueue(t, Notice("task", <<>>))
       \/ /\ execution[t].at = "left" /\ LastKind(t) = "input-required"
          /\ Cardinality(Positions(t, "input-required")) <= MaxRounds
          /\ UNCHANGED events
    /\ \E message \in Messages :
          /\ sent' = [sent EXCEPT ![t] = message]
          /\ given' = [given EXCEPT ![t] = ToGraph(message)]
    /\ execution' = [execution EXCEPT ![t] = [at |-> "streaming", text |-> <<>>]]
    /\ chunks' = [chunks EXCEPT ![t] = <<>>]
    /\ UNCHANGED cancelling

Said(t, kind) ==
    /\ execution[t].at = "streaming" /\ Len(chunks[t]) < MaxChunks
    /\ chunks' = [chunks EXCEPT ![t] = Append(@, [kind |-> kind, piece |-> Len(@) + 1])]

\* _process_chunk: a piece is shown as it comes and accumulated.
Delta(t) ==
    /\ Said(t, "delta")
    /\ execution' = [execution EXCEPT ![t].text = Append(@, Len(chunks[t]) + 1)]
    /\ Enqueue(t, Notice("working", <<Len(chunks[t]) + 1>>))
    /\ UNCHANGED <<sent, given, cancelling>>

\* A complete message that is added to the accumulated text.
FullMessageAdded(t) ==
    /\ Said(t, "full")
    /\ execution' = [execution EXCEPT ![t].text = Append(@, Len(chunks[t]) + 1)]
    /\ UNCHANGED <<events, sent, given, cancelling>>

\* A message that is complete replaces what was accumulated and is not shown.
FullMessage(t) ==
    /\ Said(t, "full")
    /\ execution' = [execution EXCEPT ![t].text = <<Len(chunks[t]) + 1>>]
    /\ UNCHANGED <<events, sent, given, cancelling>>

\* metadata with langgraph_interrupt: the execution returns.
Interrupt(t) ==
    /\ execution[t].at = "streaming"
    /\ Enqueue(t, Notice("input-required", <<>>))
    /\ execution' = [execution EXCEPT ![t].at = "left"]
    /\ UNCHANGED <<sent, given, chunks, cancelling>>

\* The stream is at its end: an artifact if there is text, then the status.
AddArtifact(t) ==
    /\ execution[t].at = "streaming"
    /\ execution' = [execution EXCEPT ![t].at = "completing"]
    /\ IF execution[t].text # <<>>
       THEN Enqueue(t, Notice("artifact", execution[t].text))
       ELSE UNCHANGED events
    /\ UNCHANGED <<sent, given, chunks, cancelling>>

Complete(t) ==
    /\ execution[t].at = "completing"
    /\ Enqueue(t, Notice("completed", <<>>))
    /\ execution' = [execution EXCEPT ![t].at = "left"]
    /\ UNCHANGED <<sent, given, chunks, cancelling>>

\* An error is raised as a ServerError; the task keeps its status.
Fail(t) ==
    /\ execution[t].at \in {"streaming", "completing"}
    /\ execution' = [execution EXCEPT ![t].at = "failed"]
    /\ UNCHANGED <<events, sent, given, chunks, cancelling>>

\* cancel puts the status and leaves the execution alone; the library asks for it
\* while the task is not at its end.
Cancel(t) ==
    /\ execution[t].at # "absent"
    /\ ~Has(t, "completed") /\ ~Has(t, "canceled")
    /\ Enqueue(t, Notice("canceled", <<>>))
    /\ cancelling' = cancelling \cup {t}
    /\ UNCHANGED <<execution, sent, given, chunks>>

\* The library stops the execution after cancel has returned.
StopExecution(t) ==
    /\ t \in cancelling
    /\ cancelling' = cancelling \ {t}
    /\ execution' = [execution EXCEPT ![t].at =
                        IF @ \in {"streaming", "completing"} THEN "stopped" ELSE @]
    /\ UNCHANGED <<events, sent, given, chunks>>

NextA2A ==
    \E t \in A2ATasks :
        Execute(t) \/ Delta(t) \/ FullMessage(t) \/ Interrupt(t) \/ AddArtifact(t)
        \/ Complete(t) \/ Fail(t) \/ Cancel(t) \/ StopExecution(t)

A2ASpec == InitA2A /\ [][NextA2A]_a2aVars

-----------------------------------------------------------------------------
(* Properties.                                                             *)

A2ATypeOK ==
    /\ \A t \in A2ATasks : execution[t].at \in
          {"absent", "streaming", "completing", "left", "failed", "stopped"}
    /\ cancelling \subseteq A2ATasks

\* The graph is given all texts in their order, and a block for every part but data
\* if there are files; made a message of A2A again, images are files, texts and
\* documents are texts, each in their order, and all data is one part, which is
\* lost if it is a single empty one.
MessageSurvives ==
    \A t \in A2ATasks :
        LET there == given[t]
            back == FromGraph(there)
            texts == DataOf(OfKind(sent[t], "text"))
            data == DataOf(OfKind(sent[t], "data"))
        IN  /\ DataOf(OfKind(back, "image")) = DataOf(OfKind(sent[t], "image"))
            /\ IF there.content.blocks
               THEN /\ Len(there.content.items) = Len(sent[t]) - Len(data)
                    /\ DataOf(OfKind(back, "text")) =
                          DataOf(Picked(sent[t], PlacesOf(sent[t], {"text", "document"})))
               ELSE back[1].data = texts
            /\ OfKind(back, "data") = IF data \in {<<>>, <<"empty">>} THEN <<>>
                                       ELSE <<Part("data", data)>>

\* The answer the graph gave: its last complete message and the pieces since.
ArtifactText(t) ==
    LET said == chunks[t]
        last == {i \in 1..Len(said) : said[i].kind = "full"}
        from == IF last = {} THEN 1 ELSE CHOOSE i \in last : \A j \in last : j <= i
    IN  [i \in 1..(Len(said) - from + 1) |-> said[from + i - 1].piece]

\* The artifact of a task is the whole answer of the execution that made it; there
\* is one at most, and nothing but the status of the task comes behind it.
AnswerIsWhole ==
    \A t \in A2ATasks : \A i \in Positions(t, "artifact") :
        /\ events[t][i].text = ArtifactText(t)
        /\ \A j \in i+1..Len(events[t]) : events[t][j].kind \in {"completed", "canceled"}

\* A task is completed once, with the answer in front if there was one, and a
\* cancellation that was told to the client stops it, or came while it completed:
\* completed behind canceled is the only way for a task to have both.
OneEnd ==
    \A t \in A2ATasks :
        /\ \A i, j \in Positions(t, "completed") : i = j
        /\ Has(t, "completed") => ArtifactText(t) = <<>> \/ Has(t, "artifact")
        /\ \A i \in Positions(t, "canceled") : \A j \in Positions(t, "completed") : i < j
        /\ execution[t].at = "stopped" => Has(t, "canceled") /\ ~Has(t, "completed")

\* An execution that returned has told the client so; one that failed has not.
ReturnIsTold ==
    \A t \in A2ATasks :
        /\ execution[t].at = "left" =>
              \/ Has(t, "completed")
              \/ Has(t, "input-required")
        /\ execution[t].at = "failed" => ~Has(t, "completed")

A2AInv == A2ATypeOK /\ AnswerIsWhole /\ OneEnd /\ ReturnIsTold
=============================================================================
