----------------------------- MODULE EventFrames -----------------------------
(***************************************************************************)
(* What becomes of the events of a graph: the frame a live stream shows,   *)
(* the event that is stored, the frame a replay makes of it, and what      *)
(* execute_run_async takes from the events for the run's status and output *)
(* (services/event_converter.py, core/sse.py, services/streaming_service.py*)
(* and api/runs.py).                                                       *)
(*                                                                         *)
(* EventStream has the order, the batches and the connections of these     *)
(* events; here nothing is lost, and an event has a form.  astream is      *)
(* always given a list of modes, so that an event is a pair (mode,         *)
(* payload), or a triple with the namespace in front for a run with        *)
(* subgraphs.                                                              *)
(***************************************************************************)
EXTENDS Naturals, Sequences

CONSTANTS
    AskedModes,     \* the lists of stream modes a run may ask for, as sets
    MaxFrames       \* bound on the events of the graph

ASSUME FramesAssumption ==
    /\ \A modes \in AskedModes :
          modes \subseteq {"values", "updates", "messages", "custom"}
    /\ MaxFrames \in Nat

VARIABLES
    asked,          \* stream_mode of the run
    subgraphs,      \* its events are triples
    stage,          \* where execute_run_async is
    graphEvents,    \* the events the graph has yielded (history)
    eventCounter,        \* event_counter
    live,           \* the frames of a stream connected all the time
    kept,           \* the rows of run_events
    hasInterrupt,   \* has_interrupt
    finalOutput,    \* final_output
    waits,          \* the graph has stopped at an interrupt or a breakpoint
    unread,         \* aget_state failed (history)
    result          \* status and output of the run's row

frameVars == <<asked, subgraphs, stage, graphEvents, eventCounter, live, kept,
               hasInterrupt, finalOutput, waits, unread, result>>

NoOutput == "none"

\* An interrupt() yields a non-empty tuple below the key __interrupt__, a
\* breakpoint (interrupt_before, interrupt_after) an empty one; "hidden" is a
\* message tagged langsmith:nostream.
Payloads(mode) ==
    CASE mode = "values"   -> {"state", "newer", "interrupt"}
      [] mode = "updates"  -> {"change", "interrupt", "breakpoint"}
      [] mode = "messages" -> {"chunk", "hidden"}
      [] OTHER             -> {"payload"}

Event(mode, payload) == [mode |-> mode, payload |-> payload]
Frame(id, kind, payload) == [id |-> id, kind |-> kind, payload |-> payload]

\* updates are always asked of the graph, for the sake of interrupts.
FinalModes == asked \cup {"updates"}

-----------------------------------------------------------------------------
(* The conversions.                                                        *)

\* _should_skip_event: the tag is looked for in the last element, whatever the
\* length of the tuple.
ShouldSkip(event) == event.payload = "hidden"

HasKey(payload) == payload \in {"interrupt", "breakpoint"}

\* _process_interrupt_updates: of updates nobody asked for only those with an
\* interrupt pass, as values; in a triple the first element is the namespace, so
\* that all of them pass.
OnlyInterrupts(event) ==
    event.mode = "updates" /\ "updates" \notin asked /\ ~subgraphs
Filtered(event) == OnlyInterrupts(event) /\ event.payload # "interrupt"
Processed(event) ==
    IF OnlyInterrupts(event) THEN [event EXCEPT !.mode = "values"] ELSE event

\* _create_sse_event: updates with the key __interrupt__ are shown as values, an
\* end is always a completed one.
LiveFrame(id, event) ==
    CASE event.mode = "updates" /\ HasKey(event.payload) ->
            Frame(id, "values", event.payload)
      [] event.mode = "end" -> Frame(id, "end", "completed")
      [] OTHER -> Frame(id, event.mode, event.payload)

\* store_event_from_raw keeps three modes and makes two of them, each with a
\* record around the payload.
Stores(event) == event.mode \in {"messages", "values", "updates"}
StoredEvent(id, event) ==
    IF event.mode = "messages"
    THEN [id |-> id, event |-> "messages", data |-> [message_chunk |-> event.payload]]
    ELSE [id |-> id, event |-> "values", data |-> [chunk |-> event.payload]]

\* convert_stored_to_sse: a message is taken out of its record, values are shown
\* with it.
ReplayFrame(row) ==
    Frame(row.id, row.event,
          IF row.event = "messages" THEN row.data.message_chunk ELSE row.data)
Replay == [i \in 1..Len(kept) |-> ReplayFrame(kept[i])]

-----------------------------------------------------------------------------
(* execute_run_async.                                                      *)

InitFrames ==
    /\ asked \in AskedModes
    /\ subgraphs \in BOOLEAN
    /\ stage = "streaming"
    /\ graphEvents = <<>> /\ eventCounter = 0 /\ live = <<>> /\ kept = <<>>
    /\ hasInterrupt = FALSE /\ finalOutput = NoOutput
    /\ waits = FALSE /\ unread = FALSE
    /\ result = [status |-> "running", output |-> NoOutput]

\* _convert_raw_to_sse of what put_to_broker lets through.
PutToBroker(event) ==
    live' = IF Filtered(event) THEN live
            ELSE Append(live, LiveFrame(eventCounter', Processed(event)))

\* A store that leaves out the filter.
StoreUnfiltered(event) ==
    kept' = IF ~Stores(event) THEN kept
            ELSE Append(kept, StoredEvent(eventCounter', Processed(event)))

StoreFromRaw(event) ==
    kept' = IF Filtered(event) \/ ~Stores(event) THEN kept
            ELSE Append(kept, StoredEvent(eventCounter', Processed(event)))

\* The key is looked for in the second element: in a triple that is the mode.
TakeInterrupt(event) ==
    hasInterrupt' = (hasInterrupt \/ (~subgraphs /\ HasKey(event.payload)))

\* values of a pair are the output until the next ones.
TakeOutput(event) ==
    finalOutput' = IF event.mode = "values" /\ ~subgraphs
                   THEN event.payload ELSE finalOutput

YieldEvent ==
    /\ stage = "streaming" /\ Len(graphEvents) < MaxFrames
    /\ \E mode \in FinalModes : \E payload \in Payloads(mode) :
         LET event == Event(mode, payload) IN
         /\ graphEvents' = Append(graphEvents, event)
         /\ waits' = (waits \/ HasKey(payload))
         /\ IF ShouldSkip(event)
            THEN UNCHANGED <<eventCounter, live, kept, hasInterrupt, finalOutput>>
            ELSE /\ eventCounter' = eventCounter + 1
                 /\ PutToBroker(event) /\ StoreFromRaw(event)
                 /\ TakeInterrupt(event) /\ TakeOutput(event)
    /\ UNCHANGED <<asked, subgraphs, stage, unread, result>>

\* The graph stops, at an interrupt whose event did not come through as well.
EndOfEvents ==
    /\ stage = "streaming"
    /\ stage' = "asking"
    /\ \E lost \in BOOLEAN : waits' = (waits \/ lost)
    /\ UNCHANGED <<asked, subgraphs, graphEvents, eventCounter, live, kept,
                   hasInterrupt, finalOutput, unread, result>>

\* The checkpoint is asked where the graph stopped, unless an event told; if it
\* cannot be read the events decide.
AskState ==
    /\ stage = "asking"
    /\ stage' = "writing"
    /\ IF hasInterrupt THEN UNCHANGED <<hasInterrupt, unread>>
       ELSE \/ hasInterrupt' = waits /\ UNCHANGED unread
            \/ unread' = TRUE /\ UNCHANGED hasInterrupt
    /\ UNCHANGED <<asked, subgraphs, graphEvents, eventCounter, live, kept,
                   finalOutput, waits, result>>

WriteResult ==
    /\ stage = "writing"
    /\ stage' = "ended"
    /\ result' = [status |-> IF hasInterrupt THEN "interrupted" ELSE "completed",
                  output |-> finalOutput]
    /\ UNCHANGED <<asked, subgraphs, graphEvents, eventCounter, live, kept,
                   hasInterrupt, finalOutput, waits, unread>>

\* A cancellation or an error before the result is written: no output, and an
\* end event, which is shown but not stored.
CutShort ==
    /\ stage \in {"streaming", "asking", "writing"}
    /\ stage' = "ended"
    /\ \E status \in {"cancelled", "failed"} :
         result' = [status |-> status, output |-> NoOutput]
    /\ eventCounter' = eventCounter + 1
    /\ live' = Append(live, LiveFrame(eventCounter', Event("end", "signal")))
    /\ UNCHANGED <<asked, subgraphs, graphEvents, kept, hasInterrupt,
                   finalOutput, waits, unread>>

NextFrames == YieldEvent \/ EndOfEvents \/ AskState \/ WriteResult \/ CutShort

FramesSpec == InitFrames /\ [][NextFrames]_frameVars

-----------------------------------------------------------------------------
(* Properties.                                                             *)

FramesTypeOK ==
    /\ asked \in AskedModes /\ subgraphs \in BOOLEAN
    /\ stage \in {"streaming", "asking", "writing", "ended"}
    /\ eventCounter \in Nat /\ hasInterrupt \in BOOLEAN /\ waits \in BOOLEAN
    /\ unread \in BOOLEAN
    /\ result.status \in {"running", "completed", "interrupted", "cancelled", "failed"}

\* A frame that is shown again by the replay: a message is the same frame, values
\* come in the record they were stored in.
Storable(frame) == frame.kind \in {"messages", "values", "updates"}
ShownAgain(frame, again) ==
    /\ again.id = frame.id
    /\ IF frame.kind = "messages" THEN again = frame
       ELSE again.kind = "values" /\ again.payload = [chunk |-> frame.payload]

\* A client that reads the replay is shown, in the order of their numbers, exactly
\* the frames of the stream except those of modes that are not stored and the end
\* signals: none is missing, and none is there that the stream did not show.
ReplayIsLive ==
    /\ \A i, j \in 1..Len(Replay) : i < j => Replay[i].id < Replay[j].id
    /\ \A i \in 1..Len(live) : Storable(live[i]) =>
          \E j \in 1..Len(Replay) : ShownAgain(live[i], Replay[j])
    /\ \A j \in 1..Len(Replay) :
          \E i \in 1..Len(live) : Storable(live[i]) /\ ShownAgain(live[i], Replay[j])

\* No two frames of a stream share a number, not even with the end signal.
NumbersRise == \A i, j \in 1..Len(live) : i < j => live[i].id < live[j].id

\* A run that came to its end by itself is recorded as interrupted exactly if the
\* graph stopped to wait; where the checkpoint could not be read, it still is if
\* an event told, though it was not shown, unless the events are triples.
StopIsRecorded ==
    result.status \in {"completed", "interrupted"} =>
        /\ result.status = "interrupted" => waits
        /\ waits /\ ~unread => result.status = "interrupted"
        /\ (~subgraphs /\ \E i \in 1..Len(graphEvents) : HasKey(graphEvents[i].payload))
             => result.status = "interrupted"

\* The output of a run that was not cut short is the payload of the last values
\* the graph yielded, whether or not a frame with an interrupt was shown as values
\* behind them; a run with subgraphs has none.
OutputIsLastValues ==
    result.status \in {"completed", "interrupted"} =>
        LET values == {i \in 1..Len(graphEvents) : graphEvents[i].mode = "values"}
        IN  IF subgraphs \/ values = {} THEN result.output = NoOutput
            ELSE \E last \in values : /\ \A i \in values : i <= last
                                      /\ result.output = graphEvents[last].payload

FramesInv ==
    FramesTypeOK /\ ReplayIsLive /\ NumbersRise /\ StopIsRecorded
    /\ OutputIsLastValues
=============================================================================
