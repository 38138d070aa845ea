--------------------------- MODULE RunBrokerProofs ---------------------------
(***************************************************************************)
(* Proofs about the broker of one run (module RunBroker), for any number   *)
(* of handlers and streams, any queue size and any number of events.       *)
(***************************************************************************)
EXTENDS RunBroker, SequenceLemmas, FiniteSetTheorems

-----------------------------------------------------------------------------
(* Type correctness.                                                       *)

\* What the types say of one item.
LEMMA ItemTypes ==
  /\ End \in Item /\ IsTerminal(End)
  /\ NoItem \notin Item
  /\ \A n \in 1..MaxEvents :
       Event(n) \in Item /\ ~IsTerminal(Event(n)) /\ Event(n).seq = n
  /\ \A item \in Item : IsTerminal(item) => item = End
  /\ \A item \in Item : ~IsTerminal(item) =>
       item.seq \in 1..MaxEvents /\ item = Event(item.seq)
<1>1. End \in Item /\ IsTerminal(End)
  BY DEF Item, End, IsTerminal
<1>2. NoItem \notin Item
  <2>1. \A n \in 1..MaxEvents : Event(n) # NoItem
    BY DEF Event, NoItem
  <2>2. End # NoItem
    BY DEF End, NoItem
  <2> QED BY <2>1, <2>2 DEF Item, Events
<1>3. \A n \in 1..MaxEvents :
        Event(n) \in Item /\ ~IsTerminal(Event(n)) /\ Event(n).seq = n
  BY DEF Item, Events, Event, IsTerminal
<1>4. ASSUME NEW item \in Item
      PROVE  \/ item = End
             \/ item.seq \in 1..MaxEvents /\ item = Event(item.seq) /\ ~IsTerminal(item)
  BY <1>3 DEF Item, Events
<1> QED BY <1>1, <1>2, <1>3, <1>4

\* put() keeps the types.
LEMMA PutType ==
  ASSUME TypeOK, NEW p \in Producers, NEW item \in Item, Put(p, item)
  PROVE  /\ registered' \in BOOLEAN
         /\ queue' \in Seq(Item) /\ Len(queue') <= MaxSize
         /\ finished' \in BOOLEAN
         /\ waiting' \in [Producers -> Item \cup {NoItem}]
         /\ dropped' \subseteq Item
         /\ refused' \subseteq Item
<1> USE BrokerAssumption DEF TypeOK
<1>0. Len(queue) \in Nat
  BY LenProperties
<1>1. CASE /\ finished
           /\ refused' = refused \cup {item}
           /\ UNCHANGED <<queue, finished, waiting, dropped>>
  BY <1>1 DEF Put
<1>2. CASE /\ ~finished /\ ~IsFull
           /\ queue' = Append(queue, item)
           /\ FinishIfEnd(item)
           /\ UNCHANGED <<waiting, dropped, refused>>
  <2>1. queue' \in Seq(Item) /\ Len(queue') = Len(queue) + 1
    BY <1>2, AppendProperties
  <2> QED BY <1>0, <1>2, <2>1 DEF Put, IsFull, FinishIfEnd, IsTerminal
<1>3. CASE /\ ~finished /\ IsFull /\ Policy = "drop_oldest"
           /\ \E i \in 1..Len(queue) :
                /\ Droppable(i)
                /\ dropped' = dropped \cup {queue[i]}
                /\ queue' = Append(RemoveAt(queue, i), item)
           /\ FinishIfEnd(item)
           /\ UNCHANGED <<waiting, refused>>
  <2>1. PICK i \in 1..Len(queue) :
          /\ dropped' = dropped \cup {queue[i]}
          /\ queue' = Append(RemoveAt(queue, i), item)
    BY <1>3
  <2>2. RemoveAt(queue, i) \in Seq(Item) /\ Len(RemoveAt(queue, i)) = Len(queue) - 1
    BY RemoveAtProperties
  <2>3. queue' \in Seq(Item) /\ Len(queue') = Len(RemoveAt(queue, i)) + 1
    BY <2>1, <2>2, AppendProperties
  <2>4. queue[i] \in Item
    BY ElementOfSeq
  <2> QED BY <1>0, <1>3, <2>1, <2>2, <2>3, <2>4 DEF Put, FinishIfEnd, IsTerminal
<1>4. CASE /\ waiting' = [waiting EXCEPT ![p] = item]
           /\ UNCHANGED <<queue, finished, dropped, refused>>
  BY <1>4 DEF Put
<1> QED BY <1>1, <1>2, <1>3, <1>4 DEF Put

\* Taking the head keeps the types.
LEMMA TakeType ==
  ASSUME TypeOK, NEW c \in Consumers, Take(c)
  PROVE  TypeOK'
<1> USE BrokerAssumption DEF TypeOK
<1>0. Len(queue) \in Nat /\ queue # <<>>
  BY LenProperties DEF Take
<1>1. /\ Head(queue) \in Item
      /\ Tail(queue) \in Seq(Item)
      /\ Len(Tail(queue)) = Len(queue) - 1
  BY <1>0, HeadTailProperties
<1>2. queue' \in Seq(Item) /\ Len(queue') <= MaxSize
  BY <1>0, <1>1 DEF Take
<1>3. got' \in [Consumers -> SUBSET (1..MaxEvents)] /\ lastTaken' \in 0..MaxEvents
  <2>1. CASE IsTerminal(Head(queue))
    BY <2>1 DEF Take
  <2>2. CASE ~IsTerminal(Head(queue))
    <3>1. Head(queue).seq \in 1..MaxEvents
      BY <1>1, <2>2, ItemTypes
    <3>2. /\ got' = [got EXCEPT ![c] = @ \cup {Head(queue).seq}]
          /\ lastTaken' = Head(queue).seq
      BY <2>2 DEF Take
    <3>3. lastTaken' \in 0..MaxEvents
      BY <3>1, <3>2
    <3>4. got[c] \cup {Head(queue).seq} \in SUBSET (1..MaxEvents)
      BY <3>1
    <3> QED BY <3>2, <3>3, <3>4
  <2> QED BY <2>1, <2>2
<1>4. reader' \in [Consumers -> {"idle", "reading", "done", "gone"}]
  BY DEF Take
<1> QED BY <1>2, <1>3, <1>4 DEF Take, lost, producerVars

\* Every step keeps the types; the queue never holds more than MaxSize items.
LEMMA TypeStep ==
  TypeOK /\ [Next]_vars => TypeOK'
<1> SUFFICES ASSUME TypeOK, [Next]_vars PROVE TypeOK'
  OBVIOUS
<1> USE BrokerAssumption DEF Producers
<1>1. CASE PublishEvent
  <2>1. published + 1 \in 1..MaxEvents
    BY <1>1 DEF PublishEvent, TypeOK
  <2>2. Task \in Producers /\ Event(published + 1) \in Item
    BY <2>1, ItemTypes
  <2>3. Put(Task, Event(published + 1))
    BY <1>1 DEF PublishEvent
  <2> QED BY <1>1, <2>1, <2>2, <2>3, PutType
          DEF PublishEvent, TypeOK, readerVars, taken
<1>2. CASE CompleteRun
  BY <1>2 DEF CompleteRun, TypeOK, readerVars, taken, lost
<1>3. CASE FailRun
  BY <1>3 DEF FailRun, TypeOK, readerVars, taken, lost
<1>4. CASE CancelSuspendedTask
  <2>1. waiting[Task] \in Item
    BY <1>4 DEF CancelSuspendedTask, TypeOK, Suspended
  <2> QED BY <1>4, <2>1 DEF CancelSuspendedTask, TypeOK, readerVars, taken
<1>5. CASE SkipTaskEnd
  BY <1>5 DEF SkipTaskEnd, TypeOK, readerVars, taken, lost
<1>6. CASE PutTaskEnd
  <2>1. Task \in Producers /\ End \in Item /\ Put(Task, End)
    BY <1>6, ItemTypes DEF PutTaskEnd
  <2> QED BY <1>6, <2>1, PutType DEF PutTaskEnd, TypeOK, readerVars, taken
<1>7. CASE \E h \in Handlers : Signal(h)
  <2>1. PICK h \in Handlers : Signal(h)
    BY <1>7
  <2>2. h \in Producers /\ End \in Item /\ Put(h, End)
    BY <2>1, ItemTypes DEF Signal
  <2> QED BY <2>1, <2>2, PutType DEF Signal, TypeOK, readerVars, taken
<1>8. CASE \E p \in Producers : Resume(p)
  <2>1. PICK p \in Producers : Resume(p)
    BY <1>8
  <2>2. waiting[p] \in Item /\ ~IsFull
    BY <2>1 DEF Resume, TypeOK, Suspended
  <2>3. Len(queue) \in Nat /\ queue' \in Seq(Item) /\ Len(queue') = Len(queue) + 1
    BY <2>1, <2>2, LenProperties, AppendProperties DEF Resume, TypeOK
  <2>4. Len(queue') <= MaxSize
    BY <2>2, <2>3 DEF IsFull
  <2>5. finished' \in BOOLEAN
    BY <2>1 DEF Resume, FinishIfEnd, IsTerminal
  <2> QED BY <2>1, <2>3, <2>4, <2>5 DEF Resume, TypeOK, readerVars, taken, lost
<1>9. CASE \E c \in Consumers : Take(c)
  BY <1>9, TakeType
<1>10. CASE \E c \in Consumers : Attach(c) \/ AnswerEnd(c) \/ PollTimeout(c) \/ Disconnect(c)
  BY <1>10 DEF Attach, AnswerEnd, PollTimeout, Disconnect, TypeOK, producerVars, taken, lost
<1>11. CASE UNCHANGED vars
  BY <1>11 DEF vars, TypeOK, producerVars, readerVars, taken, lost
<1> QED BY <1>1, <1>2, <1>3, <1>4, <1>5, <1>6, <1>7, <1>8, <1>9, <1>10, <1>11
        DEF Next

\* The types of RunBroker's fields hold in every state, and the queue stays
\* within its maximum size.
THEOREM TypeCorrect == Spec => []TypeOK
<1>1. Init => TypeOK
  <2>1. <<>> \in Seq(Item) /\ Len(<<>>) = 0 /\ 0 \in 0..MaxEvents
    BY BrokerAssumption, EmptySeq
  <2> SUFFICES ASSUME Init PROVE TypeOK
    OBVIOUS
  <2>2. queue \in Seq(Item) /\ Len(queue) <= MaxSize
    BY <2>1, BrokerAssumption DEF Init
  <2>3. waiting \in [Producers -> Item \cup {NoItem}]
    BY DEF Init
  <2>4. /\ phase \in [Producers -> {"open", "ending", "done"}]
        /\ reader \in [Consumers -> {"idle", "reading", "done", "gone"}]
        /\ got \in [Consumers -> SUBSET (1..MaxEvents)]
    BY DEF Init
  <2> QED BY <2>1, <2>2, <2>3, <2>4 DEF Init, TypeOK
<1> QED BY <1>1, TypeStep, PTL DEF Spec

-----------------------------------------------------------------------------
(* The end event.                                                          *)

\* new is old with at most one item removed (the one at i, none when i is behind
\* the last) and item appended.
Appended(old, new, item) ==
  \E i \in 1..(Len(old) + 1), n \in Nat :
    /\ n = IF i > Len(old) THEN Len(old) ELSE Len(old) - 1
    /\ Len(new) = n + 1
    /\ new[n + 1] = item
    /\ \A k \in 1..n : new[k] = IF k < i THEN old[k] ELSE old[k + 1]

\* What put() does to the queue: nothing, or it appends its item and may
\* remove another.
LEMMA PutShape ==
  ASSUME TypeOK, NEW p \in Producers, NEW item \in Item, Put(p, item)
  PROVE  \/ /\ UNCHANGED <<queue, finished>>
            /\ UNCHANGED waiting \/ waiting' = [waiting EXCEPT ![p] = item]
         \/ /\ ~finished
            /\ finished' = IsTerminal(item)
            /\ UNCHANGED waiting
            /\ Appended(queue, queue', item)
<1> USE DEF TypeOK
<1>0. Len(queue) \in Nat
  BY LenProperties
<1>1. CASE /\ ~finished /\ ~IsFull
           /\ queue' = Append(queue, item)
           /\ FinishIfEnd(item)
           /\ UNCHANGED <<waiting, dropped, refused>>
  <2>1. /\ Len(queue') = Len(queue) + 1
        /\ queue'[Len(queue) + 1] = item
        /\ \A k \in 1..Len(queue) : queue'[k] = queue[k]
    BY <1>1, AppendProperties
  <2>2. finished' = IsTerminal(item)
    BY <1>1 DEF FinishIfEnd, IsTerminal
  <2>3. Appended(queue, queue', item)
    <3> SUFFICES \E i \in 1..(Len(queue) + 1), n \in Nat :
                   /\ n = IF i > Len(queue) THEN Len(queue) ELSE Len(queue) - 1
                   /\ Len(queue') = n + 1
                   /\ queue'[n + 1] = item
                   /\ \A k \in 1..n :
                        queue'[k] = IF k < i THEN queue[k] ELSE queue[k + 1]
      BY DEF Appended
    <3> WITNESS Len(queue) + 1 \in 1..(Len(queue) + 1), Len(queue) \in Nat
    <3> QED BY <1>0, <2>1
  <2> QED BY <1>1, <2>2, <2>3
<1>2. CASE /\ ~finished /\ IsFull /\ Policy = "drop_oldest"
           /\ \E i \in 1..Len(queue) :
                /\ Droppable(i)
                /\ dropped' = dropped \cup {queue[i]}
                /\ queue' = Append(RemoveAt(queue, i), item)
           /\ FinishIfEnd(item)
           /\ UNCHANGED <<waiting, refused>>
  <2>1. PICK i \in 1..Len(queue) : queue' = Append(RemoveAt(queue, i), item)
    BY <1>2
  <2> DEFINE base == RemoveAt(queue, i)
  <2>2. /\ base \in Seq(Item)
        /\ Len(base) = Len(queue) - 1
        /\ \A k \in 1..(Len(queue) - 1) :
             base[k] = IF k < i THEN queue[k] ELSE queue[k + 1]
    BY RemoveAtProperties
  <2> HIDE DEF base
  <2>3. /\ Len(queue') = Len(base) + 1
        /\ queue'[Len(base) + 1] = item
        /\ \A k \in 1..Len(base) : queue'[k] = base[k]
    BY <2>1, <2>2, AppendProperties DEF base
  <2>4. finished' = IsTerminal(item)
    BY <1>2 DEF FinishIfEnd, IsTerminal
  <2>5. i \in 1..(Len(queue) + 1) /\ ~(i > Len(queue)) /\ Len(queue) - 1 \in Nat
    BY <1>0
  <2>6. Appended(queue, queue', item)
    <3>1. /\ Len(queue') = (Len(queue) - 1) + 1
          /\ queue'[(Len(queue) - 1) + 1] = item
      BY <1>0, <2>2, <2>3
    <3>2. \A k \in 1..(Len(queue) - 1) :
            queue'[k] = IF k < i THEN queue[k] ELSE queue[k + 1]
      BY <2>2, <2>3
    <3> QED BY <2>5, <3>1, <3>2 DEF Appended
  <2> QED BY <1>2, <2>4, <2>6
<1>3. CASE /\ UNCHANGED <<queue, finished>>
           /\ UNCHANGED waiting \/ waiting' = [waiting EXCEPT ![p] = item]
  BY <1>3
<1> QED BY <1>1, <1>2, <1>3 DEF Put

\* put() keeps the end event on finished brokers.
LEMMA PutEndFinishes ==
  ASSUME TypeOK, EndFinishes, NEW p \in Producers, NEW item \in Item, Put(p, item)
  PROVE  EndFinishes'
<1>1. CASE UNCHANGED <<queue, finished>>
  BY <1>1 DEF EndFinishes
<1>2. CASE ~finished /\ finished' = IsTerminal(item) /\ Appended(queue, queue', item)
  <2>1. PICK i \in 1..(Len(queue) + 1), n \in Nat :
          /\ n = IF i > Len(queue) THEN Len(queue) ELSE Len(queue) - 1
          /\ Len(queue') = n + 1
          /\ queue'[n + 1] = item
          /\ \A k \in 1..n : queue'[k] = IF k < i THEN queue[k] ELSE queue[k + 1]
    BY <1>2 DEF Appended
  <2>2. Len(queue) \in Nat
    BY LenProperties DEF TypeOK
  <2>3. \A j \in 1..Len(queue) : ~IsTerminal(queue[j])
    BY <1>2 DEF EndFinishes
  <2>4. ASSUME NEW k \in 1..n PROVE ~IsTerminal(queue'[k])
    <3>1. k \in 1..Len(queue) /\ (~(k < i) => k + 1 \in 1..Len(queue))
      BY <2>1, <2>2
    <3> QED BY <2>1, <2>3, <3>1
  <2>5. ASSUME NEW k \in 1..Len(queue'), IsTerminal(queue'[k]) PROVE finished'
    <3>1. k = n + 1
      BY <2>1, <2>4, <2>5
    <3> QED BY <1>2, <2>1, <2>5, <3>1
  <2> QED BY <2>5 DEF EndFinishes, IsTerminal
<1> QED BY <1>1, <1>2, PutShape

\* A resumed put appends its item and marks the broker finished if it is the
\* end event.
LEMMA ResumeShape ==
  ASSUME TypeOK, NEW p \in Producers, Resume(p)
  PROVE  /\ waiting[p] \in Item
         /\ Len(queue) \in Nat
         /\ Len(queue') = Len(queue) + 1
         /\ queue'[Len(queue) + 1] = waiting[p]
         /\ \A k \in 1..Len(queue) : queue'[k] = queue[k]
         /\ finished' = (finished \/ IsTerminal(waiting[p]))
<1>1. waiting[p] \in Item /\ queue' = Append(queue, waiting[p])
  BY DEF Resume, TypeOK, Suspended
<1>2. finished' = (finished \/ IsTerminal(waiting[p]))
  BY DEF Resume, FinishIfEnd, IsTerminal
<1> QED BY <1>1, <1>2, LenProperties, AppendProperties DEF TypeOK

\* Taking an item shifts the others.
LEMMA TakeShape ==
  ASSUME TypeOK, NEW c \in Consumers, Take(c)
  PROVE  /\ Len(queue) \in Nat /\ Len(queue) >= 1
         /\ Head(queue) = queue[1]
         /\ queue[1] \in Item
         /\ Len(queue') = Len(queue) - 1
         /\ \A k \in 1..(Len(queue) - 1) : queue'[k] = queue[k + 1]
<1>1. queue \in Seq(Item) /\ queue # <<>> /\ queue' = Tail(queue)
  BY DEF Take, TypeOK
<1>2. Len(queue) \in Nat \ {0}
  BY <1>1, EmptySeq
<1>3. 1 \in 1..Len(queue)
  BY <1>2
<1>4. queue[1] \in Item
  BY <1>1, <1>3, ElementOfSeq
<1> QED BY <1>1, <1>2, <1>4, HeadTailProperties

\* The steps that leave the queue alone and only ever set the finished flag.
LEMMA QuietStep ==
  ASSUME TypeOK,
         \/ CompleteRun \/ FailRun \/ CancelSuspendedTask \/ SkipTaskEnd
         \/ (\E c \in Consumers : Attach(c) \/ AnswerEnd(c) \/ PollTimeout(c) \/ Disconnect(c))
         \/ UNCHANGED vars
  PROVE  UNCHANGED <<queue, published, lastTaken>> /\ (finished => finished')
BY DEF CompleteRun, FailRun, CancelSuspendedTask, SkipTaskEnd, Attach, AnswerEnd, PollTimeout,
       Disconnect, vars, producerVars, readerVars, taken, lost, TypeOK

\* Every step keeps the end event on finished brokers and the streams running
\* until then.
LEMMA EndStep ==
  TypeOK /\ EndFinishes /\ StopsOnlyAtEnd /\ [Next]_vars
    => EndFinishes' /\ StopsOnlyAtEnd'
<1> SUFFICES ASSUME TypeOK, EndFinishes, StopsOnlyAtEnd, [Next]_vars
             PROVE  EndFinishes' /\ StopsOnlyAtEnd'
  OBVIOUS
<1> USE DEF Producers
<1>1. CASE PublishEvent
  <2>1. Task \in Producers /\ Event(published + 1) \in Item
    BY <1>1, BrokerAssumption, ItemTypes DEF PublishEvent, TypeOK
  <2>2. Put(Task, Event(published + 1)) /\ UNCHANGED reader
    BY <1>1 DEF PublishEvent, readerVars
  <2>3. finished => finished'
    BY <2>1, <2>2, PutShape
  <2> QED BY <2>1, <2>2, <2>3, PutEndFinishes DEF StopsOnlyAtEnd
<1>2. CASE PutTaskEnd \/ \E h \in Handlers : Signal(h)
  <2>1. PICK p \in Producers : Put(p, End)
    BY <1>2 DEF PutTaskEnd, Signal
  <2>2. UNCHANGED reader
    BY <1>2 DEF PutTaskEnd, Signal, readerVars
  <2>3. finished => finished'
    BY <2>1, ItemTypes, PutShape
  <2> QED BY <2>1, <2>2, <2>3, ItemTypes, PutEndFinishes DEF StopsOnlyAtEnd
<1>3. CASE \E p \in Producers : Resume(p)
  <2>1. PICK p \in Producers : Resume(p)
    BY <1>3
  <2>2. ASSUME NEW k \in 1..Len(queue'), IsTerminal(queue'[k]) PROVE finished'
    <3>1. CASE k = Len(queue) + 1
      BY <2>1, <2>2, <3>1, ResumeShape
    <3>2. CASE k # Len(queue) + 1
      <4>1. k \in 1..Len(queue) /\ queue'[k] = queue[k]
        BY <2>1, <3>2, ResumeShape
      <4> QED BY <2>1, <2>2, <4>1, ResumeShape DEF EndFinishes
    <3> QED BY <3>1, <3>2
  <2>3. EndFinishes'
    BY <2>2 DEF EndFinishes, IsTerminal
  <2> QED BY <2>1, <2>3, ResumeShape DEF Resume, readerVars, StopsOnlyAtEnd
<1>4. CASE \E c \in Consumers : Take(c)
  <2>1. PICK c \in Consumers : Take(c)
    BY <1>4
  <2>2. UNCHANGED finished
    BY <2>1 DEF Take
  <2>3. EndFinishes'
    <3>1. \A k \in 1..Len(queue') : k + 1 \in 1..Len(queue) /\ queue'[k] = queue[k + 1]
      BY <2>1, TakeShape
    <3> QED BY <2>2, <3>1 DEF EndFinishes, IsTerminal
  <2>4. IsTerminal(Head(queue)) => finished
    BY <2>1, TakeShape DEF EndFinishes
  <2>5. \A d \in Consumers : reader'[d] = "done" => finished
    BY <2>1, <2>4 DEF Take, StopsOnlyAtEnd, TypeOK
  <2> QED BY <2>2, <2>3, <2>5 DEF StopsOnlyAtEnd
<1>5. CASE \/ CompleteRun \/ FailRun \/ CancelSuspendedTask \/ SkipTaskEnd
           \/ (\E c \in Consumers : Attach(c) \/ AnswerEnd(c) \/ PollTimeout(c) \/ Disconnect(c))
           \/ UNCHANGED vars
  <2>1. UNCHANGED queue /\ (finished => finished')
    BY <1>5, QuietStep
  <2>2. \A d \in Consumers : reader'[d] = "done" => reader[d] = "done" \/ finished
    BY <1>5 DEF CompleteRun, FailRun, CancelSuspendedTask, SkipTaskEnd, Attach, AnswerEnd,
                PollTimeout, Disconnect, vars, readerVars, TypeOK
  <2> QED BY <2>1, <2>2 DEF EndFinishes, StopsOnlyAtEnd, IsTerminal
<1> QED BY <1>1, <1>2, <1>3, <1>4, <1>5 DEF Next

\* A stream meets the end event, and stops by itself, on a finished broker only
\* (put() marks the broker in the step that queues the event).
THEOREM EndOnlyWhenFinished == Spec => [](EndFinishes /\ StopsOnlyAtEnd)
<1>1. Init => EndFinishes /\ StopsOnlyAtEnd
  <2> SUFFICES ASSUME Init PROVE EndFinishes /\ StopsOnlyAtEnd
    OBVIOUS
  <2>1. Len(queue) = 0
    BY EmptySeq DEF Init
  <2> QED BY <2>1 DEF Init, EndFinishes, StopsOnlyAtEnd
<1> QED BY <1>1, EndStep, TypeCorrect, PTL DEF Spec

-----------------------------------------------------------------------------
(* The drop-oldest policy.                                                 *)

\* With drop-oldest a put never suspends: if no item could be removed, the queue
\* would be full of end events, and then the broker is finished.
LEMMA DropNeverWaits ==
  ASSUME TypeOK, EndFinishes, NEW p \in Producers, NEW item \in Item, Put(p, item),
         Policy = "drop_oldest"
  PROVE  UNCHANGED waiting
<1>1. CASE /\ ~finished /\ IsFull
           /\ \A i \in 1..Len(queue) : ~Droppable(i)
  <2>1. Len(queue) \in Nat /\ Len(queue) >= 1
    BY <1>1, BrokerAssumption, LenProperties DEF IsFull, TypeOK
  <2>2. ~IsTerminal(queue[1])
    BY <1>1, <2>1 DEF EndFinishes
  <2>3. Droppable(1)
    BY <2>1, <2>2 DEF Droppable
  <2> QED BY <1>1, <2>1, <2>3
<1> QED BY <1>1 DEF Put

\* Nor does a put queue anything behind an end event.
LEMMA PutEndIsLast ==
  ASSUME TypeOK, EndFinishes, EndIsLast, NEW p \in Producers, NEW item \in Item,
         Put(p, item)
  PROVE  EndIsLast'
<1>1. CASE UNCHANGED <<queue, finished>>
  BY <1>1 DEF EndIsLast, IsTerminal
<1>2. CASE ~finished /\ finished' = IsTerminal(item) /\ Appended(queue, queue', item)
  <2>1. PICK i \in 1..(Len(queue) + 1), n \in Nat :
          /\ n = IF i > Len(queue) THEN Len(queue) ELSE Len(queue) - 1
          /\ Len(queue') = n + 1
          /\ \A k \in 1..n : queue'[k] = IF k < i THEN queue[k] ELSE queue[k + 1]
    BY <1>2 DEF Appended
  <2>2. Len(queue) \in Nat
    BY LenProperties DEF TypeOK
  <2>3. ASSUME NEW k \in 1..n PROVE ~IsTerminal(queue'[k])
    <3>1. k \in 1..Len(queue) /\ (~(k < i) => k + 1 \in 1..Len(queue))
      BY <2>1, <2>2
    <3> QED BY <1>2, <2>1, <3>1 DEF EndFinishes
  <2>4. ASSUME NEW k \in 1..Len(queue'), IsTerminal(queue'[k]) PROVE k = Len(queue')
    BY <2>1, <2>3, <2>4
  <2> QED BY <2>4 DEF EndIsLast, IsTerminal
<1> QED BY <1>1, <1>2, PutShape

\* Every step keeps both.
LEMMA DropStep ==
  TypeOK /\ EndFinishes /\ NeverSuspends /\ EndIsLast /\ [Next]_vars
    => NeverSuspends' /\ EndIsLast'
<1> SUFFICES ASSUME TypeOK, EndFinishes, NeverSuspends, EndIsLast, [Next]_vars,
                    Policy = "drop_oldest"
             PROVE  NeverSuspends' /\ EndIsLast'
  BY DEF NeverSuspends, EndIsLast
<1> USE DEF Producers
<1>1. CASE \/ PublishEvent \/ PutTaskEnd \/ \E h \in Handlers : Signal(h)
  <2>1. PICK p \in Producers, item \in Item : Put(p, item)
    <3>1. CASE PublishEvent
      <4>1. Task \in Producers /\ Event(published + 1) \in Item
        BY <3>1, BrokerAssumption, ItemTypes DEF PublishEvent, TypeOK
      <4> QED BY <3>1, <4>1 DEF PublishEvent
    <3>2. CASE PutTaskEnd \/ \E h \in Handlers : Signal(h)
      BY <3>2, ItemTypes DEF PutTaskEnd, Signal
    <3> QED BY <1>1, <3>1, <3>2
  <2>2. UNCHANGED waiting
    BY <2>1, DropNeverWaits
  <2>3. NeverSuspends'
    BY <2>2 DEF NeverSuspends, Suspended
  <2> QED BY <2>1, <2>3, PutEndIsLast
<1>2. CASE \E c \in Consumers : Take(c)
  <2>1. PICK c \in Consumers : Take(c)
    BY <1>2
  <2>2. UNCHANGED waiting
    BY <2>1 DEF Take
  <2>3. ASSUME NEW k \in 1..Len(queue'), IsTerminal(queue'[k]) PROVE k = Len(queue')
    <3>1. k + 1 \in 1..Len(queue) /\ queue'[k] = queue[k + 1]
      BY <2>1, TakeShape
    <3>2. k + 1 = Len(queue)
      BY <2>3, <3>1 DEF EndIsLast
    <3> QED BY <2>1, <3>2, TakeShape
  <2> QED BY <2>2, <2>3 DEF NeverSuspends, EndIsLast, Suspended, IsTerminal
<1>3. CASE \E p \in Producers : Resume(p)
  BY <1>3 DEF Resume, NeverSuspends
<1>4. CASE \/ CompleteRun \/ FailRun \/ CancelSuspendedTask \/ SkipTaskEnd
           \/ (\E c \in Consumers : Attach(c) \/ AnswerEnd(c) \/ PollTimeout(c) \/ Disconnect(c))
           \/ UNCHANGED vars
  <2>1. UNCHANGED queue
    BY <1>4, QuietStep
  <2>2. UNCHANGED waiting
    BY <1>4 DEF CompleteRun, FailRun, CancelSuspendedTask, SkipTaskEnd, Attach, AnswerEnd,
                PollTimeout, Disconnect, vars, lost, NeverSuspends, Suspended
  <2> QED BY <2>1, <2>2 DEF NeverSuspends, EndIsLast, Suspended, IsTerminal
<1> QED BY <1>1, <1>2, <1>3, <1>4 DEF Next

\* With drop-oldest no producer ever waits for room, and the end event is the
\* last item of the queue.
THEOREM DropOldestNeverWaits == Spec => [](NeverSuspends /\ EndIsLast)
<1>1. Init => NeverSuspends /\ EndIsLast
  <2> SUFFICES ASSUME Init PROVE NeverSuspends /\ EndIsLast
    OBVIOUS
  <2>1. Len(queue) = 0
    BY EmptySeq DEF Init
  <2> QED BY <2>1 DEF Init, NeverSuspends, EndIsLast, Suspended
<1> QED BY <1>1, DropStep, TypeCorrect, EndOnlyWhenFinished, PTL DEF Spec

-----------------------------------------------------------------------------
(* The order of the events.                                                *)

\* The events of q are sorted and lie above lo, up to hi.
Sorted(q, lo, hi) ==
  /\ \A i, j \in 1..Len(q) :
       i < j /\ ~IsTerminal(q[i]) /\ ~IsTerminal(q[j]) => q[i].seq < q[j].seq
  /\ \A i \in 1..Len(q) : ~IsTerminal(q[i]) => lo < q[i].seq /\ q[i].seq <= hi

\* The task is suspended in the put of an event, which is its last one.
EventWaits == Suspended(Task) /\ ~IsTerminal(waiting[Task])
Settled    == IF EventWaits THEN published - 1 ELSE published

\* The inductive invariant behind InOrder: the queue is sorted between what was
\* taken and what has been put, and only the task's last event can be waiting.
OrderInv ==
  /\ Sorted(queue, lastTaken, Settled)
  /\ lastTaken <= Settled
  /\ EventWaits => waiting[Task] = Event(published) /\ published \in 1..MaxEvents
  /\ \A h \in Handlers : waiting[h] \in {NoItem, End}

\* Appending an item behind all others keeps the queue sorted.
LEMMA AppendedSorted ==
  ASSUME NEW old \in Seq(Item), NEW new, NEW item \in Item,
         NEW lo \in Nat, NEW hi \in Nat, NEW top \in Nat,
         Sorted(old, lo, hi), Appended(old, new, item),
         hi <= top, lo <= hi,
         ~IsTerminal(item) => hi < item.seq /\ item.seq <= top
  PROVE  Sorted(new, lo, top)
<1>1. PICK i \in 1..(Len(old) + 1), n \in Nat :
        /\ n = IF i > Len(old) THEN Len(old) ELSE Len(old) - 1
        /\ Len(new) = n + 1
        /\ new[n + 1] = item
        /\ \A k \in 1..n : new[k] = IF k < i THEN old[k] ELSE old[k + 1]
  BY DEF Appended
<1>2. Len(old) \in Nat
  BY LenProperties
<1> DEFINE place(k) == IF k < i THEN k ELSE k + 1
<1>3. \A k \in 1..n : place(k) \in 1..Len(old) /\ new[k] = old[place(k)]
  BY <1>1, <1>2
<1>4. \A j, k \in 1..n : j < k => place(j) < place(k)
  BY <1>1, <1>2
<1> HIDE DEF place
<1>5. \A k \in 1..Len(old) :
        ~IsTerminal(old[k]) => old[k].seq \in Nat /\ lo < old[k].seq /\ old[k].seq <= hi
  BY ElementOfSeq, ItemTypes, BrokerAssumption DEF Sorted
<1>6. ~IsTerminal(item) => item.seq \in Nat
  BY ItemTypes, BrokerAssumption
<1>7. ASSUME NEW k \in 1..Len(new), ~IsTerminal(new[k])
      PROVE  lo < new[k].seq /\ new[k].seq <= top
  <2>1. CASE k = n + 1
    BY <1>1, <1>6, <1>7, <2>1
  <2>2. CASE k \in 1..n
    <3>1. /\ old[place(k)].seq \in Nat
          /\ lo < old[place(k)].seq
          /\ old[place(k)].seq <= hi
          /\ new[k] = old[place(k)]
      BY <1>3, <1>5, <1>7, <2>2
    <3> QED BY <3>1
  <2> QED BY <1>1, <2>1, <2>2
<1>8. ASSUME NEW j \in 1..Len(new), NEW k \in 1..Len(new), j < k,
             ~IsTerminal(new[j]), ~IsTerminal(new[k])
      PROVE  new[j].seq < new[k].seq
  <2>0. j \in 1..n
    BY <1>1, <1>8
  <2>1. CASE k = n + 1
    <3>1. /\ old[place(j)].seq \in Nat
          /\ old[place(j)].seq <= hi
          /\ new[j] = old[place(j)]
      BY <1>3, <1>5, <1>8, <2>0
    <3> QED BY <1>1, <1>6, <1>8, <2>1, <3>1, SMTT(40)
  <2>2. CASE k \in 1..n
    <3>1. /\ place(j) \in 1..Len(old) /\ place(k) \in 1..Len(old) /\ place(j) < place(k)
          /\ new[j] = old[place(j)] /\ new[k] = old[place(k)]
      BY <1>3, <1>4, <1>8, <2>0, <2>2
    <3> QED BY <3>1, <1>8 DEF Sorted
  <2> QED BY <1>1, <2>1, <2>2
<1> QED BY <1>7, <1>8 DEF Sorted

\* A larger upper bound is a weaker claim.
LEMMA SortedWeaken ==
  ASSUME NEW q \in Seq(Item), NEW lo \in Nat, NEW hi \in Nat, NEW top \in Nat,
         Sorted(q, lo, hi), hi <= top
  PROVE  Sorted(q, lo, top)
<1>1. \A k \in 1..Len(q) : ~IsTerminal(q[k]) => q[k].seq \in Nat
  BY ElementOfSeq, ItemTypes, BrokerAssumption
<1> QED BY <1>1, SMTT(40) DEF Sorted

\* The bounds are numbers.
LEMMA SettledType ==
  ASSUME TypeOK, OrderInv
  PROVE  Settled \in Nat /\ published \in Nat /\ lastTaken \in Nat /\ Settled <= published
<1>1. published \in Nat /\ lastTaken \in Nat
  BY BrokerAssumption DEF TypeOK
<1>2. EventWaits => published - 1 \in Nat
  BY BrokerAssumption DEF OrderInv
<1> QED BY <1>1, <1>2 DEF Settled

\* An end event put by the task between two of its events, or by a handler,
\* leaves the event alone that the task waits with.
LEMMA PutEndWaits ==
  ASSUME TypeOK, OrderInv, NEW p \in Producers, Put(p, End),
         p = Task => ~Suspended(Task)
  PROVE  EventWaits' = EventWaits /\ (EventWaits => waiting'[Task] = waiting[Task])
<1>1. CASE UNCHANGED waiting
  BY <1>1 DEF EventWaits, Suspended, IsTerminal
<1>2. CASE waiting' = [waiting EXCEPT ![p] = End]
  <2>1. CASE p = Task
    <3>1. waiting'[Task] = End /\ ~Suspended(Task)
      BY <1>2, <2>1 DEF TypeOK
    <3> QED BY <3>1 DEF EventWaits, Suspended, IsTerminal, End
  <2>2. CASE p # Task
    <3>1. waiting'[Task] = waiting[Task]
      BY <1>2, <2>2 DEF TypeOK, Producers
    <3> QED BY <3>1 DEF EventWaits, Suspended, IsTerminal
  <2> QED BY <2>1, <2>2
<1> QED BY <1>1, <1>2, ItemTypes, PutShape

\* Such an end event keeps the order.
LEMMA PutEndOrder ==
  ASSUME TypeOK, OrderInv, NEW p \in Producers, Put(p, End),
         p = Task => ~Suspended(Task),
         UNCHANGED <<published, lastTaken>>
  PROVE  OrderInv'
<1> USE DEF Producers
<1>1. EventWaits' = EventWaits /\ (EventWaits => waiting'[Task] = waiting[Task])
  BY PutEndWaits
<1>2. \A h \in Handlers : waiting'[h] \in {NoItem, End}
  <2>1. UNCHANGED waiting \/ waiting' = [waiting EXCEPT ![p] = End]
    BY ItemTypes, PutShape
  <2> QED BY <2>1 DEF OrderInv, TypeOK
<1>3. Settled' = Settled
  BY <1>1 DEF Settled
<1>4. Sorted(queue', lastTaken, Settled)
  <2>1. CASE UNCHANGED queue
    BY <2>1 DEF OrderInv
  <2>2. CASE Appended(queue, queue', End)
    BY <2>2, ItemTypes, SettledType, AppendedSorted DEF OrderInv, TypeOK
  <2> QED BY <2>1, <2>2, ItemTypes, PutShape
<1>5. Sorted(queue', lastTaken', Settled')
  BY <1>3, <1>4
<1>6. lastTaken' <= Settled'
  BY <1>3 DEF OrderInv
<1>7. EventWaits' => waiting'[Task] = Event(published') /\ published' \in 1..MaxEvents
  BY <1>1 DEF OrderInv
<1> QED BY <1>2, <1>5, <1>6, <1>7 DEF OrderInv

\* The task puts its next event.
LEMMA PublishOrder ==
  ASSUME TypeOK, OrderInv, PublishEvent
  PROVE  OrderInv'
<1>1. /\ Task \in Producers
      /\ published + 1 \in 1..MaxEvents
      /\ published' = published + 1
      /\ Put(Task, Event(published + 1))
      /\ UNCHANGED lastTaken
      /\ ~EventWaits
  BY BrokerAssumption DEF PublishEvent, TypeOK, Producers, readerVars, taken, EventWaits
<1>2. /\ Event(published + 1) \in Item
      /\ ~IsTerminal(Event(published + 1))
      /\ Event(published + 1).seq = published + 1
      /\ Event(published + 1) # NoItem
  BY <1>1, ItemTypes
<1>3. /\ Settled = published /\ published \in Nat /\ lastTaken \in Nat
      /\ Sorted(queue, lastTaken, published) /\ lastTaken <= published
  BY <1>1, SettledType DEF Settled, OrderInv
<1>4. \A h \in Handlers : waiting'[h] \in {NoItem, End}
  <2>1. \/ UNCHANGED waiting
        \/ waiting' = [waiting EXCEPT ![Task] = Event(published + 1)]
    BY <1>1, <1>2, PutShape
  <2>2. \A h \in Handlers : h # Task /\ h \in Producers
    BY BrokerAssumption DEF Producers
  <2> QED BY <2>1, <2>2 DEF OrderInv, TypeOK
<1>5. CASE UNCHANGED queue /\ waiting' = [waiting EXCEPT ![Task] = Event(published + 1)]
  <2>1. waiting'[Task] = Event(published + 1)
    BY <1>1, <1>5 DEF TypeOK
  <2>2. EventWaits' /\ Settled' = published
    BY <1>1, <1>2, <1>3, <2>1 DEF EventWaits, Suspended, Settled, IsTerminal, NoItem
  <2> QED BY <1>1, <1>3, <1>4, <1>5, <2>1, <2>2 DEF OrderInv
<1>6. CASE UNCHANGED <<queue, waiting>>
  <2>1. ~EventWaits' /\ Settled' = published + 1
    BY <1>1, <1>6 DEF EventWaits, Suspended, Settled, IsTerminal
  <2>2. Sorted(queue, lastTaken, published + 1)
    BY <1>3, SortedWeaken DEF TypeOK
  <2> QED BY <1>1, <1>3, <1>4, <1>6, <2>1, <2>2 DEF OrderInv
<1>7. CASE UNCHANGED waiting /\ Appended(queue, queue', Event(published + 1))
  <2>1. ~EventWaits' /\ Settled' = published + 1
    BY <1>1, <1>7 DEF EventWaits, Suspended, Settled, IsTerminal
  <2>2. Sorted(queue', lastTaken, published + 1)
    BY <1>2, <1>3, <1>7, AppendedSorted DEF TypeOK
  <2> QED BY <1>1, <1>3, <1>4, <2>1, <2>2 DEF OrderInv
<1> QED BY <1>1, <1>2, <1>5, <1>6, <1>7, PutShape

\* A suspended put proceeds: the task's event, or an end event.
LEMMA ResumeOrder ==
  ASSUME TypeOK, OrderInv, NEW p \in Producers, Resume(p)
  PROVE  OrderInv'
<1> USE DEF Producers
<1>1. /\ waiting[p] \in Item
      /\ waiting' = [waiting EXCEPT ![p] = NoItem]
      /\ UNCHANGED <<published, lastTaken>>
  BY ResumeShape DEF Resume, readerVars, taken
<1>2. Appended(queue, queue', waiting[p])
  <2>1. /\ Len(queue) \in Nat
        /\ Len(queue') = Len(queue) + 1
        /\ queue'[Len(queue) + 1] = waiting[p]
        /\ \A k \in 1..Len(queue) : queue'[k] = queue[k]
    BY ResumeShape
  <2> SUFFICES \E i \in 1..(Len(queue) + 1), n \in Nat :
                 /\ n = IF i > Len(queue) THEN Len(queue) ELSE Len(queue) - 1
                 /\ Len(queue') = n + 1
                 /\ queue'[n + 1] = waiting[p]
                 /\ \A k \in 1..n :
                      queue'[k] = IF k < i THEN queue[k] ELSE queue[k + 1]
    BY DEF Appended
  <2> WITNESS Len(queue) + 1 \in 1..(Len(queue) + 1), Len(queue) \in Nat
  <2> QED BY <2>1
<1>3. \A h \in Handlers : waiting'[h] \in {NoItem, End}
  BY <1>1 DEF OrderInv, TypeOK
<1>4. CASE p = Task /\ EventWaits
  <2>1. /\ waiting[p] = Event(published) /\ published \in 1..MaxEvents
        /\ Settled = published - 1 /\ Settled \in Nat
    BY <1>4, SettledType DEF OrderInv, Settled
  <2>2. ~EventWaits' /\ Settled' = published
    BY <1>1, <1>4 DEF TypeOK, EventWaits, Suspended, Settled, IsTerminal
  <2>3. Event(published).seq = published
    BY <2>1, ItemTypes
  <2>4. /\ Settled < Event(published).seq
        /\ Event(published).seq <= published
        /\ Settled <= published
    BY <2>1, <2>3, BrokerAssumption
  <2>5. Sorted(queue', lastTaken, published)
    BY <1>1, <1>2, <2>1, <2>4, SettledType, AppendedSorted DEF OrderInv, TypeOK
  <2>6. lastTaken <= published
    BY <2>1, SettledType DEF OrderInv
  <2> QED BY <1>1, <1>3, <2>2, <2>5, <2>6 DEF OrderInv
<1>5. CASE ~(p = Task /\ EventWaits)
  <2>1. IsTerminal(waiting[p])
    <3>1. CASE p = Task
      BY <1>5, <3>1 DEF EventWaits, Resume
    <3>2. CASE p \in Handlers
      BY <1>1, <3>2, ItemTypes DEF OrderInv
    <3> QED BY <3>1, <3>2
  <2>2. EventWaits' = EventWaits /\ (EventWaits => waiting'[Task] = waiting[Task])
    <3>1. CASE p = Task
      <4>1. waiting'[Task] = NoItem
        BY <1>1, <3>1 DEF TypeOK
      <4>2. ~EventWaits' /\ ~EventWaits
        BY <1>5, <3>1, <4>1 DEF EventWaits, Suspended
      <4> QED BY <4>2 DEF EventWaits
    <3>2. CASE p # Task
      <4>1. waiting'[Task] = waiting[Task]
        BY <1>1, <3>2 DEF TypeOK
      <4> QED BY <4>1 DEF EventWaits, Suspended, IsTerminal
    <3> QED BY <3>1, <3>2
  <2>3. Settled' = Settled
    BY <1>1, <2>2 DEF Settled
  <2>4. Sorted(queue', lastTaken, Settled)
    BY <1>1, <1>2, <2>1, SettledType, AppendedSorted DEF OrderInv, TypeOK
  <2>5. Sorted(queue', lastTaken', Settled') /\ lastTaken' <= Settled'
    BY <1>1, <2>3, <2>4 DEF OrderInv
  <2>6. EventWaits' => waiting'[Task] = Event(published') /\ published' \in 1..MaxEvents
    BY <1>1, <2>2 DEF OrderInv
  <2> QED BY <1>3, <2>5, <2>6 DEF OrderInv
<1> QED BY <1>4, <1>5

\* A stream takes the head: what stays is newer.
LEMMA TakeOrder ==
  ASSUME TypeOK, OrderInv, NEW c \in Consumers, Take(c)
  PROVE  OrderInv'
<1>1. /\ Len(queue) \in Nat /\ Len(queue) >= 1
      /\ Head(queue) = queue[1] /\ queue[1] \in Item
      /\ Len(queue') = Len(queue) - 1
      /\ \A k \in 1..(Len(queue) - 1) : queue'[k] = queue[k + 1]
  BY TakeShape
<1>2. /\ UNCHANGED <<waiting, published>>
      /\ lastTaken' = IF IsTerminal(Head(queue)) THEN lastTaken ELSE Head(queue).seq
  BY DEF Take, producerVars
<1>3. EventWaits' = EventWaits /\ Settled' = Settled
  BY <1>2 DEF EventWaits, Settled, Suspended, IsTerminal
<1>4. \A k \in 1..Len(queue') : k + 1 \in 1..Len(queue) /\ queue'[k] = queue[k + 1]
  BY <1>1
<1>5. lastTaken' <= Settled
  BY <1>1, <1>2 DEF OrderInv, Sorted
<1>6. ASSUME NEW k \in 1..Len(queue'), ~IsTerminal(queue'[k])
      PROVE  lastTaken' < queue'[k].seq /\ queue'[k].seq <= Settled
  <2>1. k + 1 \in 1..Len(queue) /\ 1 \in 1..Len(queue) /\ 1 < k + 1
    BY <1>1, <1>4
  <2>2. lastTaken < queue[k + 1].seq /\ queue[k + 1].seq <= Settled
    BY <1>4, <1>6, <2>1 DEF OrderInv, Sorted
  <2>3. ~IsTerminal(queue[1]) => queue[1].seq < queue[k + 1].seq
    BY <1>4, <1>6, <2>1 DEF OrderInv, Sorted
  <2> QED BY <1>1, <1>2, <1>4, <2>2, <2>3
<1>7. ASSUME NEW j \in 1..Len(queue'), NEW k \in 1..Len(queue'), j < k,
             ~IsTerminal(queue'[j]), ~IsTerminal(queue'[k])
      PROVE  queue'[j].seq < queue'[k].seq
  <2>1. j + 1 \in 1..Len(queue) /\ k + 1 \in 1..Len(queue) /\ j + 1 < k + 1
    BY <1>4, <1>7
  <2> QED BY <1>4, <1>7, <2>1 DEF OrderInv, Sorted
<1>8. Sorted(queue', lastTaken', Settled')
  BY <1>3, <1>6, <1>7 DEF Sorted
<1> QED BY <1>2, <1>3, <1>5, <1>8 DEF OrderInv

\* The remaining steps: nothing moves, or a suspended put is given up.
LEMMA QuietOrder ==
  ASSUME TypeOK, OrderInv,
         \/ CompleteRun \/ FailRun \/ CancelSuspendedTask \/ SkipTaskEnd
         \/ (\E c \in Consumers : Attach(c) \/ AnswerEnd(c) \/ PollTimeout(c) \/ Disconnect(c))
         \/ UNCHANGED vars
  PROVE  OrderInv'
<1>0. UNCHANGED <<queue, published, lastTaken>>
  BY QuietStep
<1>1. CASE UNCHANGED waiting
  BY <1>0, <1>1 DEF OrderInv, EventWaits, Settled, Suspended, IsTerminal, Sorted
<1>2. CASE CancelSuspendedTask
  <2>1. waiting' = [waiting EXCEPT ![Task] = NoItem] /\ Task \in Producers
    BY <1>2 DEF CancelSuspendedTask, Producers
  <2>2. ~EventWaits' /\ Settled' = published
    BY <1>0, <2>1 DEF TypeOK, EventWaits, Suspended, Settled
  <2>3. Sorted(queue, lastTaken, published) /\ lastTaken <= published
    BY SettledType, SortedWeaken DEF OrderInv, TypeOK
  <2>4. \A h \in Handlers : waiting'[h] \in {NoItem, End}
    BY <2>1 DEF OrderInv, TypeOK, Producers
  <2> QED BY <1>0, <2>2, <2>3, <2>4 DEF OrderInv
<1> QED BY <1>1, <1>2 DEF CompleteRun, FailRun, SkipTaskEnd, Attach, AnswerEnd, PollTimeout,
                          Disconnect, vars, lost

\* Every step keeps the order.
LEMMA OrderStep == TypeOK /\ OrderInv /\ [Next]_vars => OrderInv'
<1> SUFFICES ASSUME TypeOK, OrderInv, [Next]_vars PROVE OrderInv'
  OBVIOUS
<1>1. CASE PutTaskEnd
  BY <1>1, PutEndOrder DEF PutTaskEnd, readerVars, taken, Producers
<1>2. CASE \E h \in Handlers : Signal(h)
  <2>1. PICK h \in Handlers : Signal(h)
    BY <1>2
  <2>2. h \in Producers /\ h # Task /\ Put(h, End) /\ UNCHANGED <<published, lastTaken>>
    BY <2>1, BrokerAssumption DEF Signal, readerVars, taken, Producers
  <2> QED BY <2>2, PutEndOrder
<1> QED BY <1>1, <1>2, PublishOrder, ResumeOrder, TakeOrder, QuietOrder DEF Next

\* Nothing is queued at first.
LEMMA OrderInit == Init => OrderInv
<1> SUFFICES ASSUME Init PROVE OrderInv
  OBVIOUS
<1>1. Len(queue) = 0
  BY EmptySeq DEF Init
<1>2. ~EventWaits /\ Settled = 0
  BY DEF Init, EventWaits, Settled, Suspended, Producers
<1>3. \A h \in Handlers : waiting[h] \in {NoItem, End}
  BY DEF Init, Producers
<1> QED BY <1>1, <1>2, <1>3 DEF Init, OrderInv, Sorted

\* Every stream sees the events in the order in which the graph emitted them,
\* under either policy: puts that suspend, cancellations and dropped events
\* never reorder them.
THEOREM EventsInOrder == Spec => []InOrder
<1>1. Init => OrderInv
  BY OrderInit
<1>2. TypeOK /\ OrderInv => InOrder
  <2> SUFFICES ASSUME TypeOK, OrderInv PROVE InOrder
    OBVIOUS
  <2>1. EventWaits => /\ Settled = published - 1
                      /\ published \in Nat
                      /\ waiting[Task].seq = published
    BY BrokerAssumption, ItemTypes DEF OrderInv, Settled
  <2>2. \A i \in 1..Len(queue) :
          ~IsTerminal(queue[i]) => queue[i].seq \in Nat /\ queue[i].seq <= Settled
    BY ElementOfSeq, ItemTypes, BrokerAssumption DEF OrderInv, Sorted, TypeOK
  <2>3. \A i \in 1..Len(queue) :
          ~IsTerminal(queue[i]) /\ EventWaits => queue[i].seq < waiting[Task].seq
    BY <2>1, <2>2
  <2> QED BY <2>3 DEF InOrder, OrderInv, Sorted, EventWaits
<1> QED BY <1>1, <1>2, OrderStep, TypeCorrect, PTL DEF Spec

-----------------------------------------------------------------------------
(* Where each event is.                                                    *)

\* The places of event n beside the queue and the streams: the suspended put of
\* the task, the events dropped and those refused.
Held(n)    == EventWaits /\ n = published
Dropped(n) == Event(n) \in dropped
Refused(n) == Event(n) \in refused
OneTaker(n) == \A c, d \in Consumers : n \in got[c] /\ n \in got[d] => c = d

\* Event n is in exactly one place, or in none.
Somewhere(n) ==
  /\ Queued(n) \/ Consumed(n) \/ Held(n) \/ Dropped(n) \/ Refused(n)
  /\ Queued(n) => ~Consumed(n) /\ ~Held(n) /\ ~Dropped(n) /\ ~Refused(n)
  /\ Consumed(n) => ~Held(n) /\ ~Dropped(n) /\ ~Refused(n) /\ OneTaker(n)
  /\ Held(n) => ~Dropped(n) /\ ~Refused(n)
  /\ Dropped(n) => ~Refused(n)
Nowhere(n) == ~(Queued(n) \/ Consumed(n) \/ Held(n) \/ Dropped(n) \/ Refused(n))

FateInv ==
  \A n \in 1..MaxEvents : IF n <= published THEN Somewhere(n) ELSE Nowhere(n)

\* What was dropped is older than what is queued, and only drop-oldest drops.
OldestInv ==
  /\ dropped \subseteq Events
  /\ dropped # {} => Policy = "drop_oldest"
  /\ \A k, m \in 1..MaxEvents : Dropped(k) /\ Queued(m) => k < m

\* An event is refused only once the task emits no more or the broker is finished,
\* so that nothing newer gets into the queue.
RefusalInv ==
  \A k \in 1..MaxEvents : Refused(k) =>
    /\ finished \/ phase[Task] # "open"
    /\ \A m \in 1..MaxEvents :
         k < m => ~Queued(m) /\ ~Consumed(m) /\ ~Held(m)

\* Events with different numbers differ.
LEMMA EventsDiffer ==
  /\ \A m, n : Event(m) = Event(n) => m = n
  /\ \A m : Event(m) # End /\ Event(m) # NoItem
<1>1. ASSUME NEW m, NEW n, Event(m) = Event(n) PROVE m = n
  <2>1. Event(m).seq = m /\ Event(n).seq = n
    BY DEF Event
  <2> QED BY <1>1, <2>1
<1>2. ASSUME NEW m PROVE Event(m) # End /\ Event(m) # NoItem
  BY DEF Event, End, NoItem
<1> QED BY <1>1, <1>2

\* An item appended to the queue is the only one that comes to be there.
LEMMA QueuedByAppend ==
  ASSUME NEW item, Len(queue) \in Nat,
         Len(queue') = Len(queue) + 1,
         queue'[Len(queue) + 1] = item,
         \A k \in 1..Len(queue) : queue'[k] = queue[k],
         NEW m \in 1..MaxEvents
  PROVE  Queued(m)' <=> Queued(m) \/ item = Event(m)
<1>1. ASSUME Queued(m) PROVE Queued(m)'
  <2>1. PICK i \in 1..Len(queue) : queue[i] = Event(m)
    BY <1>1 DEF Queued
  <2>2. i \in 1..Len(queue') /\ queue'[i] = Event(m)
    BY <2>1
  <2> QED BY <2>2 DEF Queued, Event
<1>2. ASSUME item = Event(m) PROVE Queued(m)'
  <2>1. Len(queue) + 1 \in 1..Len(queue') /\ queue'[Len(queue) + 1] = Event(m)
    BY <1>2
  <2> QED BY <2>1 DEF Queued, Event
<1>3. ASSUME Queued(m)' PROVE Queued(m) \/ item = Event(m)
  <2>1. PICK i \in 1..Len(queue') : queue'[i] = Event(m)
    BY <1>3 DEF Queued, Event
  <2>2. i = Len(queue) + 1 \/ (i \in 1..Len(queue) /\ queue[i] = Event(m))
    BY <2>1
  <2> QED BY <2>1, <2>2 DEF Queued
<1> QED BY <1>1, <1>2, <1>3

\* The ways through put(), told of the events in the queue.
LEMMA PutFate ==
  ASSUME TypeOK, OrderInv, NEW p \in Producers, NEW item \in Item, Put(p, item)
  PROVE  \/ /\ finished /\ UNCHANGED <<queue, finished, waiting, dropped>>
            /\ refused' = refused \cup {item}
         \/ /\ ~finished /\ UNCHANGED <<waiting, dropped, refused>>
            /\ \A m \in 1..MaxEvents : Queued(m)' <=> Queued(m) \/ item = Event(m)
         \/ /\ ~finished /\ Policy = "drop_oldest" /\ UNCHANGED <<waiting, refused>>
            /\ \E k \in 1..MaxEvents :
                 /\ Queued(k)
                 /\ dropped' = dropped \cup {Event(k)}
                 /\ \A m \in 1..MaxEvents : Queued(m) => k <= m
                 /\ \A m \in 1..MaxEvents :
                      Queued(m)' <=> (Queued(m) /\ m # k) \/ item = Event(m)
         \/ /\ ~finished /\ waiting' = [waiting EXCEPT ![p] = item]
            /\ UNCHANGED <<queue, finished, dropped, refused>>
<1>0. queue \in Seq(Item) /\ Len(queue) \in Nat
  BY LenProperties DEF TypeOK
<1>1. CASE /\ finished
           /\ refused' = refused \cup {item}
           /\ UNCHANGED <<queue, finished, waiting, dropped>>
  BY <1>1
<1>2. CASE /\ ~finished /\ ~IsFull
           /\ queue' = Append(queue, item)
           /\ FinishIfEnd(item)
           /\ UNCHANGED <<waiting, dropped, refused>>
  <2>1. /\ Len(queue') = Len(queue) + 1
        /\ queue'[Len(queue) + 1] = item
        /\ \A k \in 1..Len(queue) : queue'[k] = queue[k]
    BY <1>0, <1>2, AppendProperties
  <2>2. \A m \in 1..MaxEvents : Queued(m)' <=> Queued(m) \/ item = Event(m)
    BY <1>0, <2>1, QueuedByAppend
  <2> QED BY <1>2, <2>2
<1>3. CASE /\ ~finished /\ IsFull /\ Policy = "drop_oldest"
           /\ \E i \in 1..Len(queue) :
                /\ Droppable(i)
                /\ dropped' = dropped \cup {queue[i]}
                /\ queue' = Append(RemoveAt(queue, i), item)
           /\ FinishIfEnd(item)
           /\ UNCHANGED <<waiting, refused>>
  <2>1. PICK i \in 1..Len(queue) :
          /\ Droppable(i)
          /\ dropped' = dropped \cup {queue[i]}
          /\ queue' = Append(RemoveAt(queue, i), item)
    BY <1>3
  <2>2. queue[i] \in Item /\ ~IsTerminal(queue[i])
    BY <1>0, <2>1, ElementOfSeq DEF Droppable
  <2>3. PICK k \in 1..MaxEvents : queue[i] = Event(k) /\ queue[i].seq = k
    BY <2>2, ItemTypes
  <2> DEFINE base == RemoveAt(queue, i)
  <2>4. /\ base \in Seq(Item)
        /\ Len(base) = Len(queue) - 1
        /\ \A j \in 1..(Len(queue) - 1) :
             base[j] = IF j < i THEN queue[j] ELSE queue[j + 1]
    BY <1>0, RemoveAtProperties
  <2>5. queue' = Append(base, item)
    BY <2>1
  <2> HIDE DEF base
  <2>6. /\ Len(queue') = Len(queue)
        /\ queue'[Len(queue)] = item
        /\ \A j \in 1..(Len(queue) - 1) :
             queue'[j] = IF j < i THEN queue[j] ELSE queue[j + 1]
    BY <1>0, <2>4, <2>5, AppendProperties
  <2>7. ASSUME NEW m \in 1..MaxEvents, Queued(m)
        PROVE  /\ k <= m
               /\ m # k => Queued(m)'
    <3>1. PICK j \in 1..Len(queue) : queue[j] = Event(m)
      BY <2>7 DEF Queued
    <3>2. ~IsTerminal(queue[j]) /\ queue[j].seq = m
      BY <3>1, ItemTypes
    <3>3. j >= i
      BY <2>1, <3>2 DEF Droppable
    <3>4. j > i => k < m
      BY <2>2, <2>3, <3>2 DEF OrderInv, Sorted
    <3>5. j = i => k = m
      BY <2>3, <3>2
    <3>6. m # k => (j - 1 \in 1..(Len(queue) - 1) /\ ~(j - 1 < i) /\ (j - 1) + 1 = j)
      BY <1>0, <3>3, <3>5
    <3>7. m # k => (j - 1 \in 1..Len(queue') /\ queue'[j - 1] = Event(m))
      BY <1>0, <2>6, <3>1, <3>6
    <3>8. m # k => Queued(m)'
      BY <3>7 DEF Queued, Event
    <3> QED BY <3>3, <3>4, <3>5, <3>8
  <2>8. ASSUME NEW m \in 1..MaxEvents, item = Event(m) PROVE Queued(m)'
    <3>1. Len(queue) \in 1..Len(queue') /\ queue'[Len(queue)] = Event(m)
      BY <1>0, <2>6, <2>8
    <3> QED BY <3>1 DEF Queued, Event
  <2>9. ASSUME NEW m \in 1..MaxEvents, Queued(m)'
        PROVE  (Queued(m) /\ m # k) \/ item = Event(m)
    <3>1. PICK j \in 1..Len(queue') : queue'[j] = Event(m)
      BY <2>9 DEF Queued, Event
    <3>2. CASE j = Len(queue)
      BY <2>6, <3>1, <3>2
    <3>3. CASE j \in 1..(Len(queue) - 1)
      <4>1. PICK l \in 1..Len(queue) : l # i /\ queue[l] = Event(m)
        <5>1. CASE j < i
          BY <1>0, <2>6, <3>1, <3>3, <5>1
        <5>2. CASE ~(j < i)
          <6>1. j + 1 \in 1..Len(queue) /\ j + 1 # i /\ queue[j + 1] = Event(m)
            BY <1>0, <2>6, <3>1, <3>3, <5>2
          <6> QED BY <6>1
        <5> QED BY <5>1, <5>2
      <4>2. ~IsTerminal(queue[l]) /\ queue[l].seq = m
        BY <4>1, ItemTypes
      <4>3. m # k
        BY <2>2, <2>3, <4>1, <4>2 DEF OrderInv, Sorted
      <4> QED BY <4>1, <4>3 DEF Queued
    <3> QED BY <1>0, <2>6, <3>2, <3>3
  <2>10. Queued(k)
    BY <2>3 DEF Queued
  <2>11. \A m \in 1..MaxEvents :
           Queued(m)' <=> (Queued(m) /\ m # k) \/ item = Event(m)
    BY <2>7, <2>8, <2>9
  <2> QED BY <1>3, <2>1, <2>3, <2>7, <2>10, <2>11
<1>4. CASE /\ ~finished
           /\ waiting' = [waiting EXCEPT ![p] = item]
           /\ UNCHANGED <<queue, finished, dropped, refused>>
  BY <1>4
<1> QED BY <1>1, <1>2, <1>3, <1>4 DEF Put

\* What the three invariants say together.
PlacesInv == FateInv /\ OldestInv /\ RefusalInv

\* The task hands its next event to put().
LEMMA PublishFate ==
  ASSUME TypeOK, OrderInv, PlacesInv, PublishEvent
  PROVE  PlacesInv'
<1> DEFINE n == published + 1
<1>1. /\ Task \in Producers
      /\ published \in Nat /\ n \in 1..MaxEvents
      /\ published' = n
      /\ phase[Task] = "open"
      /\ Put(Task, Event(n))
      /\ UNCHANGED <<got, phase>>
      /\ ~EventWaits
  BY BrokerAssumption DEF PublishEvent, TypeOK, Producers, readerVars, taken, EventWaits
<1>2. /\ Event(n) \in Item /\ Event(n) \notin {End, NoItem} /\ ~IsTerminal(Event(n))
      /\ \A m \in 1..MaxEvents : Event(m) = Event(n) <=> m = n
  BY <1>1, ItemTypes, EventsDiffer
<1> HIDE DEF n
<1>3. ASSUME NEW m \in 1..MaxEvents
      PROVE  /\ Consumed(m)' <=> Consumed(m)
             /\ OneTaker(m)' <=> OneTaker(m)
             /\ ~Held(m)
             /\ m <= published <=> (m <= n /\ m # n)
  <2>1. m <= published <=> (m <= n /\ m # n)
    BY <1>1 DEF n
  <2> QED BY <1>1, <2>1 DEF Consumed, OneTaker, Held
<1>4. /\ \A m \in 1..MaxEvents : IF m <= published THEN Somewhere(m) ELSE Nowhere(m)
      /\ Nowhere(n)
  BY <1>1, <1>3 DEF PlacesInv, FateInv
<1>5. CASE UNCHANGED waiting
  <2>1. \A m \in 1..MaxEvents : ~Held(m)'
    BY <1>1, <1>5 DEF Held, EventWaits, Suspended, IsTerminal
  <2>2. CASE /\ finished /\ UNCHANGED <<queue, finished, waiting, dropped>>
             /\ refused' = refused \cup {Event(n)}
    <3>1. \A m \in 1..MaxEvents :
            /\ Queued(m)' <=> Queued(m)
            /\ Dropped(m)' <=> Dropped(m)
            /\ Refused(m)' <=> Refused(m) \/ m = n
      BY <1>2, <2>2 DEF Queued, Dropped, Refused, Event
    <3>2. FateInv'
      BY <1>1, <1>3, <1>4, <2>1, <3>1 DEF FateInv, Somewhere, Nowhere
    <3>3. OldestInv'
      BY <2>2, <3>1 DEF PlacesInv, OldestInv
    <3>4. RefusalInv'
      <4> SUFFICES ASSUME NEW k \in 1..MaxEvents, Refused(k)'
                   PROVE  /\ finished' \/ phase'[Task] # "open"
                          /\ \A m \in 1..MaxEvents :
                               k < m => ~Queued(m)' /\ ~Consumed(m)' /\ ~Held(m)'
        BY DEF RefusalInv
      <4>1. CASE Refused(k)
        BY <1>3, <2>1, <2>2, <3>1, <4>1 DEF PlacesInv, RefusalInv
      <4>2. CASE k = n
        <5>1. \A m \in 1..MaxEvents : k < m => ~(m <= published)
          BY <1>1, <4>2 DEF n
        <5> QED BY <1>3, <1>4, <2>1, <2>2, <3>1, <5>1 DEF Nowhere
      <4> QED BY <3>1, <4>1, <4>2
    <3> QED BY <3>2, <3>3, <3>4 DEF PlacesInv
  <2>3. CASE /\ ~finished /\ UNCHANGED <<dropped, refused>>
             /\ \A m \in 1..MaxEvents : Queued(m)' <=> Queued(m) \/ Event(n) = Event(m)
    <3>1. \A m \in 1..MaxEvents :
            /\ Queued(m)' <=> Queued(m) \/ m = n
            /\ Dropped(m)' <=> Dropped(m)
            /\ Refused(m)' <=> Refused(m)
      BY <1>2, <2>3 DEF Dropped, Refused, Event
    <3>2. FateInv'
      BY <1>1, <1>3, <1>4, <2>1, <3>1 DEF FateInv, Somewhere, Nowhere
    <3>3. OldestInv'
      <4>1. \A k \in 1..MaxEvents : Dropped(k) => k < n
        BY <1>1, <1>4 DEF Nowhere, n
      <4> QED BY <2>3, <3>1, <4>1 DEF PlacesInv, OldestInv
    <3>4. \A k \in 1..MaxEvents : ~Refused(k)
      BY <1>1, <2>3 DEF PlacesInv, RefusalInv
    <3>5. RefusalInv'
      BY <3>1, <3>4 DEF RefusalInv
    <3> QED BY <3>2, <3>3, <3>5 DEF PlacesInv
  <2>4. CASE /\ ~finished /\ Policy = "drop_oldest" /\ UNCHANGED refused
             /\ \E k \in 1..MaxEvents :
                  /\ Queued(k)
                  /\ dropped' = dropped \cup {Event(k)}
                  /\ \A m \in 1..MaxEvents : Queued(m) => k <= m
                  /\ \A m \in 1..MaxEvents :
                       Queued(m)' <=> (Queued(m) /\ m # k) \/ Event(n) = Event(m)
    <3>1. PICK k \in 1..MaxEvents :
            /\ Queued(k)
            /\ dropped' = dropped \cup {Event(k)}
            /\ \A m \in 1..MaxEvents : Queued(m) => k <= m
            /\ \A m \in 1..MaxEvents :
                 Queued(m)' <=> (Queued(m) /\ m # k) \/ Event(n) = Event(m)
      BY <2>4
    <3>2. \A m \in 1..MaxEvents :
            /\ Queued(m)' <=> (Queued(m) /\ m # k) \/ m = n
            /\ Dropped(m)' <=> Dropped(m) \/ m = k
            /\ Refused(m)' <=> Refused(m)
      BY <1>2, <2>4, <3>1, EventsDiffer DEF Dropped, Refused, Event
    <3>3. k <= published /\ k # n /\ k < n
      BY <1>1, <1>4, <3>1 DEF Nowhere, n
    <3>4. FateInv'
      BY <1>1, <1>3, <1>4, <2>1, <3>1, <3>2, <3>3 DEF FateInv, Somewhere, Nowhere
    <3>5. OldestInv'
      <4>1. \A l \in 1..MaxEvents : Dropped(l) => l < n
        BY <1>1, <1>4 DEF Nowhere, n
      <4>2. dropped' \subseteq Events
        BY <3>1 DEF PlacesInv, OldestInv, Events
      <4> QED BY <1>1, <2>4, <3>1, <3>2, <3>3, <4>1, <4>2 DEF PlacesInv, OldestInv
    <3>6. RefusalInv'
      <4>1. \A l \in 1..MaxEvents : ~Refused(l)
        BY <1>1, <2>4 DEF PlacesInv, RefusalInv
      <4> QED BY <3>2, <4>1 DEF RefusalInv
    <3> QED BY <3>4, <3>5, <3>6 DEF PlacesInv
  <2>5. ~(waiting' = [waiting EXCEPT ![Task] = Event(n)])
    <3>1. waiting[Task] # Event(n)
      BY <1>1, <1>2 DEF EventWaits, Suspended
    <3> QED BY <1>1, <1>5, <3>1 DEF TypeOK
  <2> QED BY <1>1, <1>2, <2>2, <2>3, <2>4, <2>5, PutFate
<1>6. CASE /\ ~finished /\ waiting' = [waiting EXCEPT ![Task] = Event(n)]
           /\ UNCHANGED <<queue, finished, dropped, refused>>
  <2>1. waiting'[Task] = Event(n)
    BY <1>1, <1>6 DEF TypeOK
  <2>2. \A m \in 1..MaxEvents : Held(m)' <=> m = n
    BY <1>1, <1>2, <2>1 DEF Held, EventWaits, Suspended, IsTerminal
  <2>3. \A m \in 1..MaxEvents :
          /\ Queued(m)' <=> Queued(m)
          /\ Dropped(m)' <=> Dropped(m)
          /\ Refused(m)' <=> Refused(m)
    BY <1>6 DEF Queued, Dropped, Refused, Event
  <2>4. FateInv'
    BY <1>1, <1>3, <1>4, <2>2, <2>3 DEF FateInv, Somewhere, Nowhere
  <2>5. OldestInv'
    BY <1>6, <2>3 DEF PlacesInv, OldestInv
  <2>6. \A k \in 1..MaxEvents : ~Refused(k)
    BY <1>1, <1>6 DEF PlacesInv, RefusalInv
  <2>7. RefusalInv'
    BY <2>3, <2>6 DEF RefusalInv
  <2> QED BY <2>4, <2>5, <2>7 DEF PlacesInv
<1> QED BY <1>1, <1>2, <1>5, <1>6, PutFate

\* An end event of the task or of a handler: the task's event stays where it
\* is, and drop-oldest may make room at the expense of the oldest event.
LEMMA PutEndFate ==
  ASSUME TypeOK, OrderInv, PlacesInv, NEW p \in Producers, Put(p, End),
         p = Task => ~Suspended(Task),
         phase[Task] # "open" => phase'[Task] # "open",
         UNCHANGED <<published, got>>
  PROVE  PlacesInv'
<1>1. \A m \in 1..MaxEvents :
        /\ Consumed(m)' <=> Consumed(m)
        /\ OneTaker(m)' <=> OneTaker(m)
        /\ Held(m)' <=> Held(m)
  BY PutEndWaits DEF Consumed, OneTaker, Held
<1>2. \A m : Event(m) # End
  BY EventsDiffer
<1>3. finished => finished'
  BY ItemTypes, PutShape
<1>4. CASE /\ UNCHANGED dropped /\ refused' \subseteq refused \cup {End}
           /\ refused \subseteq refused'
           /\ \A m \in 1..MaxEvents : Queued(m)' <=> Queued(m)
  <2>1. \A m \in 1..MaxEvents :
          /\ Queued(m)' <=> Queued(m)
          /\ Dropped(m)' <=> Dropped(m)
          /\ Refused(m)' <=> Refused(m)
    BY <1>2, <1>4 DEF Dropped, Refused, Event
  <2>2. FateInv'
    BY <1>1, <2>1 DEF PlacesInv, FateInv, Somewhere, Nowhere
  <2>3. OldestInv'
    BY <1>4, <2>1 DEF PlacesInv, OldestInv
  <2>4. RefusalInv'
    BY <1>1, <1>3, <2>1 DEF PlacesInv, RefusalInv
  <2> QED BY <2>2, <2>3, <2>4 DEF PlacesInv
<1>5. CASE /\ Policy = "drop_oldest" /\ UNCHANGED refused
           /\ \E k \in 1..MaxEvents :
                /\ Queued(k)
                /\ dropped' = dropped \cup {Event(k)}
                /\ \A m \in 1..MaxEvents : Queued(m) => k <= m
                /\ \A m \in 1..MaxEvents :
                     Queued(m)' <=> (Queued(m) /\ m # k) \/ End = Event(m)
  <2>1. PICK k \in 1..MaxEvents :
          /\ Queued(k)
          /\ dropped' = dropped \cup {Event(k)}
          /\ \A m \in 1..MaxEvents : Queued(m) => k <= m
          /\ \A m \in 1..MaxEvents :
               Queued(m)' <=> (Queued(m) /\ m # k) \/ End = Event(m)
    BY <1>5
  <2>2. \A m \in 1..MaxEvents :
          /\ Queued(m)' <=> (Queued(m) /\ m # k)
          /\ Dropped(m)' <=> Dropped(m) \/ m = k
          /\ Refused(m)' <=> Refused(m)
    BY <1>2, <1>5, <2>1, EventsDiffer DEF Dropped, Refused, Event
  <2>3. FateInv'
    BY <1>1, <2>1, <2>2 DEF PlacesInv, FateInv, Somewhere, Nowhere
  <2>4. OldestInv'
    <3>1. dropped' \subseteq Events
      BY <2>1 DEF PlacesInv, OldestInv, Events
    <3> QED BY <1>5, <2>1, <2>2, <3>1 DEF PlacesInv, OldestInv
  <2>5. RefusalInv'
    BY <1>1, <1>3, <2>2 DEF PlacesInv, RefusalInv
  <2> QED BY <2>3, <2>4, <2>5 DEF PlacesInv
<1>6. UNCHANGED queue => \A m \in 1..MaxEvents : Queued(m)' <=> Queued(m)
  BY DEF Queued, Event
<1> QED BY <1>2, <1>4, <1>5, <1>6, ItemTypes, PutFate

\* A suspended put proceeds: the task's event moves from the put to the queue.
\* Only under the block policy, where nothing older was refused before.
LEMMA ResumeFate ==
  ASSUME TypeOK, OrderInv, NeverSuspends, PlacesInv, NEW p \in Producers, Resume(p)
  PROVE  PlacesInv'
<1>1. /\ waiting[p] \in Item
      /\ waiting' = [waiting EXCEPT ![p] = NoItem]
      /\ UNCHANGED <<published, got, dropped, refused>>
      /\ finished => finished'
      /\ phase[Task] # "open" => phase'[Task] # "open"
      /\ Suspended(p)
  BY ResumeShape DEF Resume, readerVars, taken, lost, TypeOK, Producers
<1>2. Policy = "block" /\ dropped = {}
  BY <1>1, BrokerAssumption DEF NeverSuspends, PlacesInv, OldestInv
<1>3. \A m \in 1..MaxEvents : Queued(m)' <=> Queued(m) \/ waiting[p] = Event(m)
  BY ResumeShape, QueuedByAppend
<1>4. \A m \in 1..MaxEvents :
        /\ Consumed(m)' <=> Consumed(m)
        /\ OneTaker(m)' <=> OneTaker(m)
        /\ Dropped(m)' <=> Dropped(m)
        /\ Refused(m)' <=> Refused(m)
  BY <1>1 DEF Consumed, OneTaker, Dropped, Refused, Event
<1>5. CASE p = Task /\ EventWaits
  <2>1. waiting[p] = Event(published) /\ published \in 1..MaxEvents
    BY <1>5 DEF OrderInv
  <2>2. \A m \in 1..MaxEvents :
          /\ Queued(m)' <=> Queued(m) \/ m = published
          /\ Held(m) <=> m = published
    BY <1>3, <1>5, <2>1, EventsDiffer DEF Held
  <2>3. waiting'[Task] = NoItem
    BY <1>1, <1>5 DEF TypeOK
  <2>4. \A m \in 1..MaxEvents : ~Held(m)'
    BY <2>3 DEF Held, EventWaits, Suspended
  <2>5. FateInv'
    BY <1>1, <1>4, <2>1, <2>2, <2>4 DEF PlacesInv, FateInv, Somewhere, Nowhere
  <2>6. RefusalInv'
    BY <1>1, <1>4, <2>1, <2>2, <2>4 DEF PlacesInv, RefusalInv
  <2> QED BY <1>1, <1>2, <2>5, <2>6 DEF PlacesInv, OldestInv, Dropped
<1>6. CASE ~(p = Task /\ EventWaits)
  <2>1. waiting[p] = End
    <3>1. CASE p = Task
      BY <1>1, <1>6, <3>1, ItemTypes DEF EventWaits
    <3>2. CASE p # Task
      BY <1>1, <3>2, ItemTypes DEF OrderInv, Producers
    <3> QED BY <3>1, <3>2
  <2>2. EventWaits' = EventWaits
    <3>1. CASE p = Task
      BY <1>1, <1>6, <3>1 DEF EventWaits, Suspended, TypeOK
    <3>2. CASE p # Task
      <4>1. waiting'[Task] = waiting[Task]
        BY <1>1, <3>2 DEF TypeOK, Producers
      <4> QED BY <4>1 DEF EventWaits, Suspended, IsTerminal
    <3> QED BY <3>1, <3>2
  <2>3. \A m \in 1..MaxEvents :
          /\ Queued(m)' <=> Queued(m)
          /\ Held(m)' <=> Held(m)
    BY <1>1, <1>3, <2>1, <2>2, EventsDiffer DEF Held
  <2>4. FateInv'
    BY <1>1, <1>4, <2>3 DEF PlacesInv, FateInv, Somewhere, Nowhere
  <2>5. RefusalInv'
    BY <1>1, <1>4, <2>3 DEF PlacesInv, RefusalInv
  <2> QED BY <1>1, <1>2, <2>4, <2>5 DEF PlacesInv, OldestInv, Dropped
<1> QED BY <1>5, <1>6

\* A stream takes the head of the queue.
LEMMA TakeFate ==
  ASSUME TypeOK, OrderInv, PlacesInv, NEW c \in Consumers, Take(c)
  PROVE  PlacesInv'
<1>1. /\ UNCHANGED <<waiting, published, phase, finished, dropped, refused>>
      /\ got' = [got EXCEPT ![c] =
                   IF IsTerminal(queue[1]) THEN @ ELSE @ \cup {queue[1].seq}]
      /\ Len(queue) \in Nat /\ Len(queue) >= 1 /\ queue[1] \in Item
      /\ Len(queue') = Len(queue) - 1
      /\ \A k \in 1..(Len(queue) - 1) : queue'[k] = queue[k + 1]
  BY TakeShape DEF Take, producerVars, lost
<1>2. \A m \in 1..MaxEvents :
        /\ Held(m)' <=> Held(m)
        /\ Dropped(m)' <=> Dropped(m)
        /\ Refused(m)' <=> Refused(m)
  BY <1>1 DEF Held, EventWaits, Suspended, IsTerminal, Dropped, Refused, Event
<1>3. ASSUME NEW m \in 1..MaxEvents, Queued(m)'
      PROVE  \E i \in 1..Len(queue) : i > 1 /\ queue[i] = Event(m)
  <2>1. PICK i \in 1..Len(queue') : queue'[i] = Event(m)
    BY <1>3 DEF Queued, Event
  <2>2. i + 1 \in 1..Len(queue) /\ i + 1 > 1 /\ queue[i + 1] = Event(m)
    BY <1>1, <2>1
  <2> QED BY <2>2
<1>4. ASSUME NEW m \in 1..MaxEvents, Queued(m), queue[1] # Event(m)
      PROVE  Queued(m)'
  <2>1. PICK i \in 1..Len(queue) : queue[i] = Event(m)
    BY <1>4 DEF Queued
  <2>2. /\ i - 1 \in 1..(Len(queue) - 1) /\ (i - 1) + 1 = i
        /\ i - 1 \in 1..Len(queue')
    BY <1>1, <1>4, <2>1
  <2>3. queue'[i - 1] = Event(m)
    BY <1>1, <2>1, <2>2
  <2> QED BY <2>2, <2>3 DEF Queued, Event
<1>5. CASE IsTerminal(queue[1])
  <2>1. \A m \in 1..MaxEvents : queue[1] # Event(m)
    BY <1>5, ItemTypes
  <2>2. \A m \in 1..MaxEvents : Queued(m)' <=> Queued(m)
    BY <1>3, <1>4, <2>1 DEF Queued
  <2>3. got' = got
    BY <1>1, <1>5 DEF TypeOK
  <2>4. \A m \in 1..MaxEvents :
          (Consumed(m)' <=> Consumed(m)) /\ (OneTaker(m)' <=> OneTaker(m))
    BY <2>3 DEF Consumed, OneTaker
  <2>5. FateInv'
    BY <1>1, <1>2, <2>2, <2>4 DEF PlacesInv, FateInv, Somewhere, Nowhere
  <2>6. OldestInv'
    BY <1>1, <1>2, <2>2 DEF PlacesInv, OldestInv
  <2>7. RefusalInv'
    BY <1>1, <1>2, <2>2, <2>4 DEF PlacesInv, RefusalInv
  <2> QED BY <2>5, <2>6, <2>7 DEF PlacesInv
<1>6. CASE ~IsTerminal(queue[1])
  <2>1. PICK k \in 1..MaxEvents : queue[1] = Event(k) /\ queue[1].seq = k
    BY <1>1, <1>6, ItemTypes
  <2>2. Queued(k)
    <3>1. 1 \in 1..Len(queue)
      BY <1>1
    <3> QED BY <2>1, <3>1 DEF Queued
  <2>3. ~Queued(k)'
    <3> SUFFICES ASSUME Queued(k)' PROVE FALSE
      OBVIOUS
    <3>1. PICK i \in 1..Len(queue) : i > 1 /\ queue[i] = Event(k)
      BY <1>3
    <3>2. 1 \in 1..Len(queue) /\ 1 < i
      BY <1>1, <3>1
    <3>3. queue[1].seq < queue[i].seq
      BY <1>6, <2>1, <3>1, <3>2 DEF OrderInv, Sorted
    <3> QED BY <2>1, <3>1, <3>3
  <2>4. \A m \in 1..MaxEvents : Queued(m)' <=> Queued(m) /\ m # k
    <3>1. \A m \in 1..MaxEvents : m # k => queue[1] # Event(m)
      BY <2>1, EventsDiffer
    <3>2. \A m \in 1..MaxEvents : Queued(m)' => Queued(m)
      BY <1>3 DEF Queued
    <3> QED BY <1>4, <2>3, <3>1, <3>2
  <2>5. got' = [got EXCEPT ![c] = @ \cup {k}]
    BY <1>1, <1>6, <2>1
  <2>6. \A d \in Consumers, m \in 1..MaxEvents :
          m \in got'[d] <=> m \in got[d] \/ (d = c /\ m = k)
    BY <2>5 DEF TypeOK
  <2>7. \A m \in 1..MaxEvents : Consumed(m)' <=> Consumed(m) \/ m = k
    BY <2>6 DEF Consumed
  <2>8. ~Consumed(k) /\ k <= published
    BY <2>2 DEF PlacesInv, FateInv, Somewhere, Nowhere
  <2>9. \A m \in 1..MaxEvents : m # k => (OneTaker(m)' <=> OneTaker(m))
    BY <2>6 DEF OneTaker
  <2>10. OneTaker(k)'
    BY <2>6, <2>8 DEF OneTaker, Consumed
  <2>11. FateInv'
    BY <1>1, <1>2, <2>2, <2>4, <2>7, <2>8, <2>9, <2>10
       DEF PlacesInv, FateInv, Somewhere, Nowhere
  <2>12. OldestInv'
    BY <1>1, <1>2, <2>4 DEF PlacesInv, OldestInv
  <2>13. RefusalInv'
    BY <1>1, <1>2, <2>2, <2>4, <2>7 DEF PlacesInv, RefusalInv
  <2> QED BY <2>11, <2>12, <2>13 DEF PlacesInv
<1> QED BY <1>5, <1>6

\* The remaining steps: nothing moves, or the task gives up its suspended put.
LEMMA QuietFate ==
  ASSUME TypeOK, OrderInv, PlacesInv,
         \/ CompleteRun \/ FailRun \/ CancelSuspendedTask \/ SkipTaskEnd
         \/ (\E c \in Consumers : Attach(c) \/ AnswerEnd(c) \/ PollTimeout(c) \/ Disconnect(c))
         \/ UNCHANGED vars
  PROVE  PlacesInv'
<1>1. /\ UNCHANGED <<queue, published, got, dropped>>
      /\ finished => finished'
      /\ phase[Task] # "open" => phase'[Task] # "open"
  BY DEF CompleteRun, FailRun, CancelSuspendedTask, SkipTaskEnd, Attach, AnswerEnd, PollTimeout,
         Disconnect, vars, producerVars, readerVars, taken, lost, TypeOK, Producers
<1>2. \A m \in 1..MaxEvents :
        /\ Queued(m)' <=> Queued(m)
        /\ Consumed(m)' <=> Consumed(m)
        /\ OneTaker(m)' <=> OneTaker(m)
        /\ Dropped(m)' <=> Dropped(m)
  BY <1>1 DEF Queued, Consumed, OneTaker, Dropped, Event
<1>3. CASE UNCHANGED <<waiting, refused>>
  <2>1. \A m \in 1..MaxEvents :
          (Held(m)' <=> Held(m)) /\ (Refused(m)' <=> Refused(m))
    BY <1>1, <1>3 DEF Held, EventWaits, Suspended, IsTerminal, Refused, Event
  <2>2. FateInv'
    BY <1>1, <1>2, <2>1 DEF PlacesInv, FateInv, Somewhere, Nowhere
  <2>3. OldestInv' /\ RefusalInv'
    BY <1>1, <1>2, <2>1 DEF PlacesInv, OldestInv, RefusalInv
  <2> QED BY <2>2, <2>3 DEF PlacesInv
<1>4. CASE CancelSuspendedTask
  <2>1. /\ refused' = refused \cup {waiting[Task]}
        /\ waiting'[Task] = NoItem
        /\ phase'[Task] # "open"
        /\ waiting[Task] \in Item
    BY <1>4 DEF CancelSuspendedTask, TypeOK, Producers, Suspended
  <2>2. \A m \in 1..MaxEvents : ~Held(m)'
    BY <2>1 DEF Held, EventWaits, Suspended
  <2>3. \A m \in 1..MaxEvents : Refused(m)' <=> Refused(m) \/ Held(m)
    <3>1. CASE EventWaits
      <4>1. \A m \in 1..MaxEvents : Held(m) <=> waiting[Task] = Event(m)
        BY <3>1, EventsDiffer DEF Held, OrderInv
      <4> QED BY <2>1, <4>1 DEF Refused, Event
    <3>2. CASE ~EventWaits
      <4>1. waiting[Task] = End
        BY <1>4, <2>1, <3>2, ItemTypes DEF EventWaits, CancelSuspendedTask
      <4>2. \A m \in 1..MaxEvents : End # Event(m) /\ ~Held(m)
        BY <3>2, EventsDiffer DEF Held
      <4> QED BY <2>1, <4>1, <4>2 DEF Refused, Event
    <3> QED BY <3>1, <3>2
  <2>4. FateInv'
    BY <1>1, <1>2, <2>2, <2>3 DEF PlacesInv, FateInv, Somewhere, Nowhere
  <2>5. OldestInv'
    BY <1>1, <1>2 DEF PlacesInv, OldestInv
  <2>6. RefusalInv'
    <3>1. \A k, m \in 1..MaxEvents :
            Held(k) /\ k < m => ~Queued(m) /\ ~Consumed(m)
      <4>1. \A k, m \in 1..MaxEvents : Held(k) /\ k < m => ~(m <= published)
        BY DEF Held
      <4> QED BY <4>1 DEF PlacesInv, FateInv, Nowhere
    <3> QED BY <1>2, <2>1, <2>2, <2>3, <3>1 DEF PlacesInv, RefusalInv
  <2> QED BY <2>4, <2>5, <2>6 DEF PlacesInv
<1> QED BY <1>3, <1>4 DEF CompleteRun, FailRun, SkipTaskEnd, Attach, AnswerEnd, PollTimeout,
                          Disconnect, vars, lost

\* Every step keeps the events in their places.
LEMMA PlacesStep ==
  TypeOK /\ OrderInv /\ NeverSuspends /\ PlacesInv /\ [Next]_vars => PlacesInv'
<1> SUFFICES ASSUME TypeOK, OrderInv, NeverSuspends, PlacesInv, [Next]_vars
             PROVE  PlacesInv'
  OBVIOUS
<1>1. CASE PutTaskEnd
  BY <1>1, PutEndFate DEF PutTaskEnd, readerVars, taken, Producers, TypeOK
<1>2. CASE \E h \in Handlers : Signal(h)
  <2>1. PICK h \in Handlers : Signal(h)
    BY <1>2
  <2>2. /\ h \in Producers /\ h # Task /\ Put(h, End)
        /\ UNCHANGED <<published, got>>
        /\ phase'[Task] = phase[Task]
    BY <2>1, BrokerAssumption DEF Signal, readerVars, taken, Producers, TypeOK
  <2> QED BY <2>2, PutEndFate
<1> QED BY <1>1, <1>2, PublishFate, ResumeFate, TakeFate, QuietFate DEF Next

\* The event the task waits with is the only one that waits.
LEMMA HeldIsWaiting ==
  ASSUME OrderInv, NEW n \in 1..MaxEvents
  PROVE  waiting[Task] = Event(n) <=> Held(n)
<1>1. waiting[Task] = Event(n) => EventWaits
  BY ItemTypes, EventsDiffer DEF EventWaits, Suspended
<1>2. EventWaits => (waiting[Task] = Event(n) <=> n = published)
  BY EventsDiffer DEF OrderInv
<1> QED BY <1>1, <1>2 DEF Held

\* The places of the inventory are those of EventFate: one each, or none.
LEMMA OnePlaceEach == TypeOK /\ OrderInv /\ FateInv => EventFate
<1> SUFFICES ASSUME TypeOK, OrderInv, FateInv, NEW n \in 1..MaxEvents
             PROVE  LET places == {<<"got", c>> : c \in {d \in Consumers : n \in got[d]}}
                          \cup {<<"queue", i>> : i \in {j \in 1..Len(queue) : queue[j] = Event(n)}}
                          \cup {<<"put", p>> : p \in {q \in Producers : waiting[q] = Event(n)}}
                          \cup {<<"lost", X>> : X \in {Y \in {dropped, refused} : Event(n) \in Y}}
                    IN  Cardinality(places) = IF n <= published THEN 1 ELSE 0
  BY DEF EventFate
<1> DEFINE takers  == {d \in Consumers : n \in got[d]}
           indices == {j \in 1..Len(queue) : queue[j] = Event(n)}
           putters == {q \in Producers : waiting[q] = Event(n)}
           losses  == {Y \in {dropped, refused} : Event(n) \in Y}
           places  == {<<"got", c>> : c \in takers}
                      \cup {<<"queue", i>> : i \in indices}
                      \cup {<<"put", p>> : p \in putters}
                      \cup {<<"lost", X>> : X \in losses}
<1>1. Consumed(n) <=> takers # {}
  BY DEF Consumed
<1>2. OneTaker(n) /\ Consumed(n) => \E c : takers = {c}
  <2> SUFFICES ASSUME OneTaker(n), Consumed(n) PROVE \E c : takers = {c}
    OBVIOUS
  <2>1. PICK c \in Consumers : n \in got[c]
    BY DEF Consumed
  <2>2. takers = {c}
    BY <2>1 DEF OneTaker
  <2> QED BY <2>2
<1>3. Queued(n) <=> indices # {}
  BY DEF Queued
<1>4. Queued(n) => \E i : indices = {i}
  <2> SUFFICES ASSUME Queued(n) PROVE \E i : indices = {i}
    OBVIOUS
  <2>1. PICK i \in 1..Len(queue) : queue[i] = Event(n)
    BY DEF Queued
  <2>2. ASSUME NEW j \in 1..Len(queue), queue[j] = Event(n) PROVE j = i
    <3>1. ~IsTerminal(queue[i]) /\ ~IsTerminal(queue[j]) /\ queue[i].seq = queue[j].seq
      BY <2>1, <2>2, ItemTypes
    <3>2. queue[i].seq \in Nat /\ Len(queue) \in Nat
      BY <2>1, ItemTypes, LenProperties, BrokerAssumption DEF TypeOK
    <3> QED BY <3>1, <3>2 DEF OrderInv, Sorted
  <2>3. indices = {i}
    BY <2>1, <2>2
  <2> QED BY <2>3
<1>5. putters = IF Held(n) THEN {Task} ELSE {}
  <2>1. \A q \in Producers : waiting[q] = Event(n) <=> (q = Task /\ Held(n))
    <3>1. ASSUME NEW q \in Handlers PROVE waiting[q] # Event(n) /\ q # Task
      BY EventsDiffer, BrokerAssumption DEF OrderInv
    <3>2. waiting[Task] = Event(n) <=> Held(n)
      BY HeldIsWaiting
    <3> QED BY <3>1, <3>2 DEF Producers
  <2>2. Task \in Producers
    BY DEF Producers
  <2> QED BY <2>1, <2>2
<1>6. /\ Dropped(n) \/ Refused(n) <=> losses # {}
      /\ Dropped(n) /\ ~Refused(n) => losses = {dropped}
      /\ Refused(n) /\ ~Dropped(n) => losses = {refused}
  BY DEF Dropped, Refused
<1> HIDE DEF takers, indices, putters, losses
<1>7. CASE n <= published
  <2>1. Somewhere(n)
    BY <1>7 DEF FateInv
  <2>2. \E x : places = {x}
    <3>1. CASE Queued(n)
      <4>1. takers = {} /\ putters = {} /\ losses = {}
        BY <1>1, <1>5, <1>6, <2>1, <3>1 DEF Somewhere
      <4>2. PICK i : indices = {i}
        BY <1>4, <3>1
      <4>3. places = {<<"queue", i>>}
        BY <4>1, <4>2
      <4> QED BY <4>3
    <3>2. CASE Consumed(n)
      <4>1. indices = {} /\ putters = {} /\ losses = {}
        BY <1>3, <1>5, <1>6, <2>1, <3>2 DEF Somewhere
      <4>2. PICK c : takers = {c}
        BY <1>2, <2>1, <3>2 DEF Somewhere
      <4>3. places = {<<"got", c>>}
        BY <4>1, <4>2
      <4> QED BY <4>3
    <3>3. CASE Held(n)
      <4>1. takers = {} /\ indices = {} /\ losses = {} /\ putters = {Task}
        BY <1>1, <1>3, <1>5, <1>6, <2>1, <3>3 DEF Somewhere
      <4>2. places = {<<"put", Task>>}
        BY <4>1
      <4> QED BY <4>2
    <3>4. CASE Dropped(n) \/ Refused(n)
      <4>1. takers = {} /\ indices = {} /\ putters = {}
        BY <1>1, <1>3, <1>5, <2>1, <3>4 DEF Somewhere
      <4>2. PICK X : losses = {X}
        BY <1>6, <2>1, <3>4 DEF Somewhere
      <4>3. places = {<<"lost", X>>}
        BY <4>1, <4>2
      <4> QED BY <4>3
    <3> QED BY <2>1, <3>1, <3>2, <3>3, <3>4 DEF Somewhere
  <2> HIDE DEF places
  <2>3. Cardinality(places) = 1
    BY <2>2, FS_Singleton
  <2> QED BY <1>7, <2>3 DEF places, takers, indices, putters, losses
<1>8. CASE ~(n <= published)
  <2>1. Nowhere(n)
    BY <1>8 DEF FateInv
  <2>2. takers = {} /\ indices = {} /\ putters = {} /\ losses = {}
    BY <1>1, <1>3, <1>5, <1>6, <2>1 DEF Nowhere
  <2>3. places = {}
    BY <2>2
  <2> HIDE DEF places
  <2>4. Cardinality(places) = 0
    BY <2>3, FS_EmptySet
  <2> QED BY <1>8, <2>4 DEF places, takers, indices, putters, losses
<1> QED BY <1>7, <1>8

\* The invariants hold together.
LEMMA PlacesCorrect == Spec => [](OrderInv /\ PlacesInv)
<1>1. Init => OrderInv /\ PlacesInv
  <2> SUFFICES ASSUME Init PROVE OrderInv /\ PlacesInv
    OBVIOUS
  <2>1. /\ Len(queue) = 0 /\ published = 0
        /\ dropped = {} /\ refused = {}
        /\ \A c \in Consumers : got[c] = {}
    BY EmptySeq DEF Init
  <2>2. ~EventWaits
    BY DEF Init, EventWaits, Suspended, Producers
  <2>3. \A n \in 1..MaxEvents : ~(n <= published) /\ Nowhere(n)
    BY <2>1, <2>2 DEF Nowhere, Queued, Consumed, Held, Dropped, Refused
  <2>4. OldestInv /\ RefusalInv
    BY <2>1 DEF OldestInv, RefusalInv, Dropped, Refused
  <2>5. OrderInv
    BY OrderInit
  <2> QED BY <2>3, <2>4, <2>5 DEF PlacesInv, FateInv
<1> QED BY <1>1, OrderStep, PlacesStep, TypeCorrect, DropOldestNeverWaits, PTL DEF Spec

\* Under the block policy nothing the graph emits is lost or sent twice: every
\* event is in one place, none is missing before an accepted one, an end event is
\* only seen on a finished broker, and the streams go on until the run has ended.
THEOREM BlockPolicyLosesNothing == Spec => []BlockLosesNothing
<1>1. TypeOK /\ OrderInv /\ PlacesInv => EventFate
  BY OnePlaceEach DEF PlacesInv
<1>2. TypeOK /\ PlacesInv => GaplessUnderBlock
  <2> SUFFICES ASSUME TypeOK, PlacesInv, Policy = "block"
               PROVE  /\ dropped = {}
                      /\ \A n \in 1..MaxEvents :
                           Accepted(n) => \A m \in 1..(n - 1) : Accepted(m)
    BY DEF GaplessUnderBlock
  <2>1. dropped = {}
    BY DEF PlacesInv, OldestInv
  <2>2. ASSUME NEW n \in 1..MaxEvents, Accepted(n), NEW m \in 1..(n - 1)
        PROVE  Accepted(m)
    <3>1. /\ m \in 1..MaxEvents /\ m < n
          /\ published \in Nat
      BY BrokerAssumption DEF TypeOK
    <3>2. n <= published
      BY <2>2 DEF PlacesInv, FateInv, Nowhere, Accepted
    <3>3. m <= published /\ m # published
      BY <3>1, <3>2
    <3>4. Somewhere(m) /\ ~Held(m) /\ ~Dropped(m)
      BY <2>1, <3>1, <3>3 DEF PlacesInv, FateInv, Held, Dropped
    <3>5. ~Refused(m)
      BY <2>2, <3>1 DEF PlacesInv, RefusalInv, Accepted
    <3> QED BY <3>4, <3>5 DEF Somewhere, Accepted
  <2> QED BY <2>1, <2>2
<1> QED BY <1>1, <1>2, PlacesCorrect, TypeCorrect, EndOnlyWhenFinished, PTL
        DEF BlockLosesNothing

\* Under drop-oldest what is left of a full queue are the newest events, with
\* the end event last.
THEOREM DropOldestKeepsNewest == Spec => []DropKeepsNewest
<1>1. TypeOK /\ PlacesInv => DroppedAreOldest
  <2> SUFFICES ASSUME TypeOK, PlacesInv
               PROVE  /\ End \notin dropped
                      /\ \A d \in dropped, i \in 1..Len(queue) :
                           ~IsTerminal(queue[i]) => d.seq < queue[i].seq
    BY DEF DroppedAreOldest
  <2>1. dropped \subseteq Events
    BY DEF PlacesInv, OldestInv
  <2>2. End \notin dropped
    BY <2>1, EventsDiffer DEF Events
  <2>3. ASSUME NEW d \in dropped, NEW i \in 1..Len(queue), ~IsTerminal(queue[i])
        PROVE  d.seq < queue[i].seq
    <3>1. PICK k \in 1..MaxEvents : d = Event(k)
      BY <2>1, <2>3 DEF Events
    <3>2. queue[i] \in Item
      BY ElementOfSeq DEF TypeOK
    <3>3. PICK m \in 1..MaxEvents : queue[i] = Event(m)
      BY <2>3, <3>2, ItemTypes
    <3>4. Dropped(k) /\ Queued(m)
      BY <3>1, <3>3 DEF Dropped, Queued
    <3>5. k < m
      BY <3>4 DEF PlacesInv, OldestInv
    <3> QED BY <3>1, <3>3, <3>5, ItemTypes
  <2> QED BY <2>2, <2>3
<1> QED BY <1>1, PlacesCorrect, TypeCorrect, DropOldestNeverWaits, PTL
        DEF DropKeepsNewest

-----------------------------------------------------------------------------
(* The broker in every state.                                              *)

\* Whatever the policy, the types hold and the events are in their order.
THEOREM BrokerSound == Spec => []BrokerInv
<1> QED BY TypeCorrect, EventsInOrder, PTL DEF BrokerInv

-----------------------------------------------------------------------------
(* What the broker promises of the events.                                 *)

\* The fate of an event tells its place.
FateTells ==
  \A n \in 1..MaxEvents :
    /\ fateOf[n] \in {"none", "coming", "shown", "dropped", "refused"}
    /\ fateOf[n] = "none" <=> ~(n <= published)
    /\ fateOf[n] = "coming" <=> Queued(n) \/ Held(n)
    /\ fateOf[n] = "shown" <=> Consumed(n)
    /\ fateOf[n] = "dropped" <=> Dropped(n)
    /\ fateOf[n] = "refused" <=> Refused(n)

LEMMA PlacesTell == TypeOK /\ OrderInv /\ PlacesInv => FateTells
<1> SUFFICES ASSUME TypeOK, OrderInv, PlacesInv, NEW n \in 1..MaxEvents
             PROVE  /\ fateOf[n] \in {"none", "coming", "shown", "dropped", "refused"}
                    /\ fateOf[n] = "none" <=> ~(n <= published)
                    /\ fateOf[n] = "coming" <=> Queued(n) \/ Held(n)
                    /\ fateOf[n] = "shown" <=> Consumed(n)
                    /\ fateOf[n] = "dropped" <=> Dropped(n)
                    /\ fateOf[n] = "refused" <=> Refused(n)
  BY DEF FateTells
<1>1. fateOf[n] = IF n > published THEN "none"
                  ELSE IF Consumed(n) THEN "shown"
                  ELSE IF Queued(n) \/ Held(n) THEN "coming"
                  ELSE IF Dropped(n) THEN "dropped" ELSE "refused"
  BY HeldIsWaiting DEF fateOf, Dropped
<1>2. n > published <=> ~(n <= published)
  BY BrokerAssumption DEF TypeOK
<1>3. IF n <= published THEN Somewhere(n) ELSE Nowhere(n)
  BY DEF PlacesInv, FateInv
<1> QED BY <1>1, <1>2, <1>3 DEF Somewhere, Nowhere

\* An event that stays where it is keeps its fate.
LEMMA SameFate ==
  ASSUME FateTells, FateTells', NEW n \in 1..MaxEvents,
         (n <= published)' <=> n <= published,
         Queued(n)' \/ Held(n)' <=> Queued(n) \/ Held(n),
         Consumed(n)' <=> Consumed(n),
         Dropped(n)' <=> Dropped(n),
         Refused(n)' <=> Refused(n)
  PROVE  fateOf'[n] = fateOf[n]
<1>1. /\ fateOf'[n] \in {"none", "coming", "shown", "dropped", "refused"}
      /\ fateOf'[n] = "none" <=> ~(n <= published)
      /\ fateOf'[n] = "coming" <=> Queued(n) \/ Held(n)
      /\ fateOf'[n] = "shown" <=> Consumed(n)
      /\ fateOf'[n] = "dropped" <=> Dropped(n)
      /\ fateOf'[n] = "refused" <=> Refused(n)
  BY DEF FateTells
<1>2. /\ fateOf[n] \in {"none", "coming", "shown", "dropped", "refused"}
      /\ fateOf[n] = "none" <=> ~(n <= published)
      /\ fateOf[n] = "coming" <=> Queued(n) \/ Held(n)
      /\ fateOf[n] = "shown" <=> Consumed(n)
      /\ fateOf[n] = "dropped" <=> Dropped(n)
      /\ fateOf[n] = "refused" <=> Refused(n)
  BY DEF FateTells
<1> QED BY <1>1, <1>2

\* If the others keep theirs, the fates are those before but for one or two.
LEMMA FateChanges ==
  /\ (\A m \in 1..MaxEvents : fateOf'[m] = fateOf[m]) => fateOf' = fateOf
  /\ \A n \in 1..MaxEvents : \A f :
       fateOf'[n] = f /\ (\A m \in 1..MaxEvents : m # n => fateOf'[m] = fateOf[m])
       => fateOf' = [fateOf EXCEPT ![n] = f]
  /\ \A k, n \in 1..MaxEvents : \A e, f :
       k # n /\ fateOf'[k] = e /\ fateOf'[n] = f
       /\ (\A m \in 1..MaxEvents : m \notin {k, n} => fateOf'[m] = fateOf[m])
       => fateOf' = [fateOf EXCEPT ![k] = e, ![n] = f]
<1>1. /\ fateOf = [m \in 1..MaxEvents |-> fateOf[m]]
      /\ fateOf' = [m \in 1..MaxEvents |-> fateOf'[m]]
  BY DEF fateOf
<1>2. ASSUME \A m \in 1..MaxEvents : fateOf'[m] = fateOf[m]
      PROVE  fateOf' = fateOf
  BY <1>1, <1>2
<1>3. ASSUME NEW n \in 1..MaxEvents,
             \A m \in 1..MaxEvents : m # n => fateOf'[m] = fateOf[m]
      PROVE  fateOf' = [fateOf EXCEPT ![n] = fateOf'[n]]
  BY <1>1, <1>3
<1>4. ASSUME NEW k \in 1..MaxEvents, NEW n \in 1..MaxEvents, k # n,
             \A m \in 1..MaxEvents : m \notin {k, n} => fateOf'[m] = fateOf[m]
      PROVE  fateOf' = [fateOf EXCEPT ![k] = fateOf'[k], ![n] = fateOf'[n]]
  BY <1>1, <1>4
<1> QED BY <1>2, <1>3, <1>4

\* The next event the task emits is the next one of EventFlow, which takes it
\* unless the broker is finished.
LEMMA NextIsNext ==
  ASSUME TypeOK, PlacesInv, FateTells, published + 1 \in 1..MaxEvents
  PROVE  /\ Flow!IsNext(published + 1)
         /\ ~finished /\ phase[Task] = "open" => Flow!IsOpen
<1> DEFINE n == published + 1
<1>1. published \in Nat /\ n \in 1..MaxEvents
  BY BrokerAssumption DEF TypeOK
<1>2. fateOf[n] = "none"
  <2>1. n \in 1..MaxEvents /\ ~(n <= published)
    BY <1>1
  <2> HIDE DEF n
  <2> QED BY <2>1 DEF FateTells
<1>3. ASSUME NEW m \in 1..(n - 1) PROVE fateOf[m] # "none"
  <2>1. m \in 1..MaxEvents /\ m <= published
    BY <1>1, BrokerAssumption
  <2> QED BY <2>1 DEF FateTells
<1>4. ASSUME ~finished, phase[Task] = "open", NEW m \in 1..MaxEvents
      PROVE  fateOf[m] # "refused"
  BY <1>4 DEF PlacesInv, RefusalInv, FateTells
<1> QED BY <1>2, <1>3, <1>4 DEF Flow!IsNext, Flow!IsOpen, Flow!Numbers

\* What drop-oldest removes, and what a stream takes, is the oldest on its way.
LEMMA OldestIsOldest ==
  ASSUME TypeOK, FateTells, NEW k \in 1..MaxEvents, Queued(k),
         \A m \in 1..MaxEvents : Queued(m) \/ Held(m) => k <= m
  PROVE  Flow!IsOldest(k)
BY DEF FateTells, Flow!IsOldest, Flow!Numbers

\* A put of the next event takes it, takes it for the oldest one, or refuses it.
LEMMA PublishFlows ==
  ASSUME TypeOK, OrderInv, NeverSuspends, PlacesInv, FateTells, FateTells', PublishEvent
  PROVE  Flow!Next
<1> DEFINE n == published + 1
<1>1. /\ Task \in Producers
      /\ published \in Nat /\ n \in 1..MaxEvents
      /\ published' = n
      /\ phase[Task] = "open"
      /\ Put(Task, Event(n))
      /\ UNCHANGED got
      /\ ~EventWaits
  BY BrokerAssumption DEF PublishEvent, TypeOK, Producers, readerVars, taken, EventWaits
<1>2. /\ Event(n) \in Item /\ Event(n) # NoItem /\ ~IsTerminal(Event(n))
      /\ \A m \in 1..MaxEvents : Event(m) = Event(n) <=> m = n
  BY <1>1, ItemTypes, EventsDiffer
<1>3. /\ Flow!IsNext(n)
      /\ ~finished => Flow!IsOpen
  BY <1>1, NextIsNext
<1>4. \A m \in 1..MaxEvents : m # n => ((m <= published)' <=> m <= published)
  BY <1>1
<1>5. \A m \in 1..MaxEvents : (Consumed(m)' <=> Consumed(m)) /\ ~Held(m)
  BY <1>1 DEF Consumed, Held
<1> HIDE DEF n
<1>6. UNCHANGED waiting => \A m \in 1..MaxEvents : ~Held(m)'
  BY <1>1 DEF Held, EventWaits, Suspended, IsTerminal
<1>7. CASE /\ finished /\ UNCHANGED <<queue, finished, waiting, dropped>>
           /\ refused' = refused \cup {Event(n)}
  <2>1. \A m \in 1..MaxEvents :
          /\ Queued(m)' <=> Queued(m)
          /\ Dropped(m)' <=> Dropped(m)
          /\ Refused(m)' <=> Refused(m) \/ m = n
    BY <1>2, <1>7 DEF Queued, Dropped, Refused, Event
  <2>2. fateOf'[n] = "refused"
    BY <1>1, <2>1 DEF FateTells
  <2>3. \A m \in 1..MaxEvents : m # n => fateOf'[m] = fateOf[m]
    BY <1>4, <1>5, <1>6, <1>7, <2>1, SameFate
  <2>4. Flow!Refuse(n)
    BY <1>1, <1>3, <2>2, <2>3, FateChanges DEF Flow!Refuse
  <2> QED BY <1>1, <1>3, <2>2, <2>4 DEF Flow!Next, Flow!Numbers, Flow!IsNext
<1>8. CASE /\ ~finished /\ UNCHANGED <<waiting, dropped, refused>>
           /\ \A m \in 1..MaxEvents : Queued(m)' <=> Queued(m) \/ Event(n) = Event(m)
  <2>1. \A m \in 1..MaxEvents :
          /\ Queued(m)' <=> Queued(m) \/ m = n
          /\ Dropped(m)' <=> Dropped(m)
          /\ Refused(m)' <=> Refused(m)
    BY <1>2, <1>8 DEF Dropped, Refused, Event
  <2>2. fateOf'[n] = "coming"
    BY <1>1, <2>1 DEF FateTells
  <2>3. \A m \in 1..MaxEvents : m # n => fateOf'[m] = fateOf[m]
    BY <1>4, <1>5, <1>6, <1>8, <2>1, SameFate
  <2>4. Flow!Accept(n)
    BY <1>1, <1>3, <1>8, <2>2, <2>3, FateChanges DEF Flow!Accept
  <2> QED BY <1>1, <1>3, <2>2, <2>4 DEF Flow!Next, Flow!Numbers, Flow!IsNext
<1>9. CASE /\ ~finished /\ Policy = "drop_oldest" /\ UNCHANGED <<waiting, refused>>
           /\ \E k \in 1..MaxEvents :
                /\ Queued(k)
                /\ dropped' = dropped \cup {Event(k)}
                /\ \A m \in 1..MaxEvents : Queued(m) => k <= m
                /\ \A m \in 1..MaxEvents :
                     Queued(m)' <=> (Queued(m) /\ m # k) \/ Event(n) = Event(m)
  <2>1. PICK k \in 1..MaxEvents :
          /\ Queued(k)
          /\ dropped' = dropped \cup {Event(k)}
          /\ \A m \in 1..MaxEvents : Queued(m) => k <= m
          /\ \A m \in 1..MaxEvents :
               Queued(m)' <=> (Queued(m) /\ m # k) \/ Event(n) = Event(m)
    BY <1>9
  <2>2. \A m \in 1..MaxEvents :
          /\ Queued(m)' <=> (Queued(m) /\ m # k) \/ m = n
          /\ Dropped(m)' <=> Dropped(m) \/ m = k
          /\ Refused(m)' <=> Refused(m)
    BY <1>2, <1>9, <2>1, EventsDiffer DEF Dropped, Refused, Event
  <2>3. k # n
    <3>1. fateOf[k] = "coming" /\ fateOf[n] = "none"
      BY <1>1, <1>3, <2>1 DEF FateTells, Flow!IsNext
    <3> QED BY <3>1
  <2>4. fateOf'[k] = "dropped" /\ fateOf'[n] = "coming"
    BY <1>1, <2>2 DEF FateTells
  <2>5. \A m \in 1..MaxEvents : m \notin {k, n} => fateOf'[m] = fateOf[m]
    BY <1>4, <1>5, <1>6, <1>9, <2>2, SameFate
  <2>6. Flow!IsOldest(k)
    BY <1>5, <2>1, OldestIsOldest
  <2>7. fateOf' = [fateOf EXCEPT ![k] = "dropped", ![n] = "coming"]
    BY <1>1, <2>3, <2>4, <2>5, FateChanges
  <2>8. Flow!Drop(k)
    BY <1>1, <1>3, <1>9, <2>6, <2>7 DEF Flow!Drop, Flow!Numbers
  <2> QED BY <2>4, <2>6, <2>8 DEF Flow!Next, Flow!Numbers, Flow!IsOldest
<1>10. CASE /\ ~finished /\ waiting' = [waiting EXCEPT ![Task] = Event(n)]
            /\ UNCHANGED <<queue, finished, dropped, refused>>
  <2>1. waiting'[Task] = Event(n)
    BY <1>1, <1>10 DEF TypeOK
  <2>2. \A m \in 1..MaxEvents : Held(m)' <=> m = n
    BY <1>1, <1>2, <2>1 DEF Held, EventWaits, Suspended, IsTerminal
  <2>3. \A m \in 1..MaxEvents :
          /\ Queued(m)' <=> Queued(m)
          /\ Dropped(m)' <=> Dropped(m)
          /\ Refused(m)' <=> Refused(m)
    BY <1>10 DEF Queued, Dropped, Refused, Event
  <2>4. fateOf'[n] = "coming"
    BY <1>1, <2>2 DEF FateTells
  <2>5. \A m \in 1..MaxEvents : m # n => fateOf'[m] = fateOf[m]
    BY <1>4, <1>5, <2>2, <2>3, SameFate
  <2>6. Flow!Accept(n)
    BY <1>1, <1>3, <1>10, <2>4, <2>5, FateChanges DEF Flow!Accept
  <2> QED BY <1>1, <1>3, <2>4, <2>6 DEF Flow!Next, Flow!Numbers, Flow!IsNext
<1> QED BY <1>1, <1>2, <1>7, <1>8, <1>9, <1>10, PutFate

\* A put of an end event may cost the oldest event, and touches no other.
LEMMA PutEndFlows ==
  ASSUME TypeOK, OrderInv, NeverSuspends, FateTells, FateTells',
         NEW p \in Producers, Put(p, End), p = Task => ~Suspended(Task),
         UNCHANGED <<published, got>>
  PROVE  Flow!Next \/ UNCHANGED fateOf
<1>1. \A m \in 1..MaxEvents :
        /\ (m <= published)' <=> m <= published
        /\ Consumed(m)' <=> Consumed(m)
        /\ Held(m)' <=> Held(m)
  BY PutEndWaits DEF Consumed, Held
<1>2. \A m : Event(m) # End
  BY EventsDiffer
<1>3. CASE \A m \in 1..MaxEvents :
             /\ Queued(m)' <=> Queued(m)
             /\ Dropped(m)' <=> Dropped(m)
             /\ Refused(m)' <=> Refused(m)
  <2>1. \A m \in 1..MaxEvents : fateOf'[m] = fateOf[m]
    BY <1>1, <1>3, SameFate
  <2> QED BY <2>1, FateChanges
<1>4. CASE /\ Policy = "drop_oldest" /\ UNCHANGED refused
           /\ \E k \in 1..MaxEvents :
                /\ Queued(k)
                /\ dropped' = dropped \cup {Event(k)}
                /\ \A m \in 1..MaxEvents : Queued(m) => k <= m
                /\ \A m \in 1..MaxEvents :
                     Queued(m)' <=> (Queued(m) /\ m # k) \/ End = Event(m)
  <2>1. PICK k \in 1..MaxEvents :
          /\ Queued(k)
          /\ dropped' = dropped \cup {Event(k)}
          /\ \A m \in 1..MaxEvents : Queued(m) => k <= m
          /\ \A m \in 1..MaxEvents :
               Queued(m)' <=> (Queued(m) /\ m # k) \/ End = Event(m)
    BY <1>4
  <2>2. \A m \in 1..MaxEvents :
          /\ Queued(m)' <=> (Queued(m) /\ m # k)
          /\ Dropped(m)' <=> Dropped(m) \/ m = k
          /\ Refused(m)' <=> Refused(m)
    BY <1>2, <1>4, <2>1, EventsDiffer DEF Dropped, Refused, Event
  <2>3. \A m \in 1..MaxEvents : ~Held(m)
    BY <1>4 DEF Held, EventWaits, NeverSuspends, Producers
  <2>4. fateOf'[k] = "dropped"
    BY <2>2 DEF FateTells
  <2>5. \A m \in 1..MaxEvents : m # k => fateOf'[m] = fateOf[m]
    BY <1>1, <2>2, SameFate
  <2>6. Flow!IsOldest(k)
    BY <2>1, <2>3, OldestIsOldest
  <2>7. Flow!Drop(k)
    BY <1>4, <2>4, <2>5, <2>6, FateChanges DEF Flow!Drop
  <2> QED BY <2>4, <2>6, <2>7 DEF Flow!Next, Flow!Numbers, Flow!IsOldest
<1>5. ASSUME UNCHANGED <<queue, dropped>>, refused' \in {refused, refused \cup {End}}
      PROVE  \A m \in 1..MaxEvents :
               /\ Queued(m)' <=> Queued(m)
               /\ Dropped(m)' <=> Dropped(m)
               /\ Refused(m)' <=> Refused(m)
  BY <1>2, <1>5 DEF Queued, Dropped, Refused, Event
<1>6. ASSUME UNCHANGED <<dropped, refused>>,
             \A m \in 1..MaxEvents : Queued(m)' <=> Queued(m) \/ End = Event(m)
      PROVE  \A m \in 1..MaxEvents :
               /\ Queued(m)' <=> Queued(m)
               /\ Dropped(m)' <=> Dropped(m)
               /\ Refused(m)' <=> Refused(m)
  BY <1>2, <1>6 DEF Dropped, Refused, Event
<1> QED BY <1>3, <1>4, <1>5, <1>6, ItemTypes, PutFate

\* A put that has waited is the same event, now in the queue.
LEMMA ResumeFlows ==
  ASSUME TypeOK, OrderInv, FateTells, FateTells', NEW p \in Producers, Resume(p)
  PROVE  UNCHANGED fateOf
<1>1. /\ waiting[p] \in Item
      /\ waiting' = [waiting EXCEPT ![p] = NoItem]
      /\ UNCHANGED <<published, got, dropped, refused>>
  BY ResumeShape DEF Resume, readerVars, taken, lost, TypeOK
<1>2. \A m \in 1..MaxEvents :
        /\ (m <= published)' <=> m <= published
        /\ Queued(m)' <=> Queued(m) \/ waiting[p] = Event(m)
        /\ Consumed(m)' <=> Consumed(m)
        /\ Dropped(m)' <=> Dropped(m)
        /\ Refused(m)' <=> Refused(m)
  BY <1>1, ResumeShape, QueuedByAppend DEF Consumed, Dropped, Refused, Event
<1>3. ASSUME NEW m \in 1..MaxEvents
      PROVE  Queued(m)' \/ Held(m)' <=> Queued(m) \/ Held(m)
  <2>1. CASE p = Task
    <3>1. waiting'[Task] = NoItem
      BY <1>1, <2>1 DEF TypeOK
    <3>2. ~Held(m)'
      BY <3>1 DEF Held, EventWaits, Suspended
    <3> QED BY <1>2, <2>1, <3>2, HeldIsWaiting
  <2>2. CASE p # Task
    <3>1. waiting[p] # Event(m)
      BY <1>1, <2>2, ItemTypes, EventsDiffer DEF OrderInv, Producers
    <3>2. waiting'[Task] = waiting[Task]
      BY <1>1, <2>2 DEF TypeOK, Producers
    <3>3. Held(m)' <=> Held(m)
      BY <1>1, <3>2 DEF Held, EventWaits, Suspended, IsTerminal
    <3> QED BY <1>2, <3>1, <3>3
  <2> QED BY <2>1, <2>2
<1>4. \A m \in 1..MaxEvents : fateOf'[m] = fateOf[m]
  BY <1>2, <1>3, SameFate
<1> QED BY <1>4, FateChanges

\* A stream is shown the oldest event there is, or the sign of the end.
LEMMA TakeFlows ==
  ASSUME TypeOK, OrderInv, PlacesInv, FateTells, PlacesInv', FateTells',
         NEW c \in Consumers, Take(c)
  PROVE  Flow!Next \/ UNCHANGED fateOf
<1>1. /\ UNCHANGED <<waiting, published, dropped, refused>>
      /\ got' = [got EXCEPT ![c] =
                   IF IsTerminal(queue[1]) THEN @ ELSE @ \cup {queue[1].seq}]
      /\ Len(queue) \in Nat /\ Len(queue) >= 1 /\ queue[1] \in Item
      /\ Len(queue') = Len(queue) - 1
      /\ \A k \in 1..(Len(queue) - 1) : queue'[k] = queue[k + 1]
  BY TakeShape DEF Take, producerVars, lost
<1>2. \A m \in 1..MaxEvents :
        /\ (m <= published)' <=> m <= published
        /\ Held(m)' <=> Held(m)
        /\ Dropped(m)' <=> Dropped(m)
        /\ Refused(m)' <=> Refused(m)
  BY <1>1 DEF Held, EventWaits, Suspended, IsTerminal, Dropped, Refused, Event
<1>3. ASSUME NEW m \in 1..MaxEvents, Queued(m)' PROVE Queued(m)
  <2>1. PICK i \in 1..Len(queue') : queue'[i] = Event(m)
    BY <1>3 DEF Queued, Event
  <2>2. i + 1 \in 1..Len(queue) /\ queue[i + 1] = Event(m)
    BY <1>1, <2>1
  <2> QED BY <2>2 DEF Queued
<1>4. ASSUME NEW m \in 1..MaxEvents, Queued(m), queue[1] # Event(m)
      PROVE  Queued(m)'
  <2>1. PICK i \in 1..Len(queue) : queue[i] = Event(m)
    BY <1>4 DEF Queued
  <2>2. /\ i - 1 \in 1..(Len(queue) - 1) /\ (i - 1) + 1 = i
        /\ i - 1 \in 1..Len(queue')
    BY <1>1, <1>4, <2>1
  <2>3. queue'[i - 1] = Event(m)
    BY <1>1, <2>1, <2>2
  <2> QED BY <2>2, <2>3 DEF Queued, Event
<1>5. CASE IsTerminal(queue[1])
  <2>1. \A m \in 1..MaxEvents : queue[1] # Event(m)
    BY <1>5, ItemTypes
  <2>2. got' = got
    BY <1>1, <1>5 DEF TypeOK
  <2>3. \A m \in 1..MaxEvents :
          (Queued(m)' <=> Queued(m)) /\ (Consumed(m)' <=> Consumed(m))
    BY <1>3, <1>4, <2>1, <2>2 DEF Consumed
  <2>4. \A m \in 1..MaxEvents : fateOf'[m] = fateOf[m]
    BY <1>2, <2>3, SameFate
  <2> QED BY <2>4, FateChanges
<1>6. CASE ~IsTerminal(queue[1])
  <2>1. PICK k \in 1..MaxEvents : queue[1] = Event(k) /\ queue[1].seq = k
    BY <1>1, <1>6, ItemTypes
  <2>2. Queued(k)
    <3>1. 1 \in 1..Len(queue)
      BY <1>1
    <3> QED BY <2>1, <3>1 DEF Queued
  <2>3. got' = [got EXCEPT ![c] = @ \cup {k}]
    BY <1>1, <1>6, <2>1
  <2>4. \A d \in Consumers, m \in 1..MaxEvents :
          m \in got'[d] <=> m \in got[d] \/ (d = c /\ m = k)
    BY <2>3 DEF TypeOK
  <2>5. \A m \in 1..MaxEvents : Consumed(m)' <=> Consumed(m) \/ m = k
    BY <2>4 DEF Consumed
  <2>6. \A m \in 1..MaxEvents : m # k => (Queued(m)' <=> Queued(m))
    BY <1>3, <1>4, <2>1, EventsDiffer
  <2>7. fateOf'[k] = "shown"
    BY <2>5 DEF FateTells
  <2>8. \A m \in 1..MaxEvents : m # k => fateOf'[m] = fateOf[m]
    BY <1>2, <2>5, <2>6, SameFate
  <2>9. ASSUME NEW m \in 1..MaxEvents, Queued(m) PROVE k <= m
    <3>1. PICK i \in 1..Len(queue) : queue[i] = Event(m)
      BY <2>9 DEF Queued
    <3>2. ~IsTerminal(queue[i]) /\ queue[i].seq = m /\ 1 \in 1..Len(queue)
      BY <1>1, <3>1, ItemTypes
    <3>3. i = 1 \/ 1 < i
      BY <1>1
    <3>4. 1 < i => k < m
      BY <1>6, <2>1, <3>2 DEF OrderInv, Sorted
    <3> QED BY <2>1, <3>2, <3>3, <3>4
  <2>10. ASSUME NEW m \in 1..MaxEvents, Held(m) PROVE k <= m
    BY <2>2, <2>10 DEF PlacesInv, FateInv, Nowhere, Held
  <2>11. Flow!Show(k)
    BY <2>2, <2>7, <2>8, <2>9, <2>10, OldestIsOldest, FateChanges DEF Flow!Show
  <2> QED BY <2>7, <2>11 DEF Flow!Next, Flow!Numbers, Flow!Show, Flow!IsOldest
<1> QED BY <1>5, <1>6

\* What remains moves nothing, or gives up the event the task waits with.
LEMMA QuietFlows ==
  ASSUME TypeOK, OrderInv, NeverSuspends, PlacesInv, FateTells, FateTells',
         \/ CompleteRun \/ FailRun \/ CancelSuspendedTask \/ SkipTaskEnd
         \/ (\E c \in Consumers : Attach(c) \/ AnswerEnd(c) \/ PollTimeout(c) \/ Disconnect(c))
         \/ UNCHANGED vars
  PROVE  Flow!Next \/ UNCHANGED fateOf
<1>1. UNCHANGED <<queue, published, got, dropped>>
  BY DEF CompleteRun, FailRun, CancelSuspendedTask, SkipTaskEnd, Attach, AnswerEnd, PollTimeout,
         Disconnect, vars, producerVars, readerVars, taken, lost
<1>2. \A m \in 1..MaxEvents :
        /\ (m <= published)' <=> m <= published
        /\ Queued(m)' <=> Queued(m)
        /\ Consumed(m)' <=> Consumed(m)
        /\ Dropped(m)' <=> Dropped(m)
  BY <1>1 DEF Queued, Consumed, Dropped, Event
<1>3. CASE UNCHANGED <<waiting, refused>>
  <2>1. \A m \in 1..MaxEvents :
          (Held(m)' <=> Held(m)) /\ (Refused(m)' <=> Refused(m))
    BY <1>1, <1>3 DEF Held, EventWaits, Suspended, IsTerminal, Refused, Event
  <2>2. \A m \in 1..MaxEvents : fateOf'[m] = fateOf[m]
    BY <1>2, <2>1, SameFate
  <2> QED BY <2>2, FateChanges
<1>4. CASE CancelSuspendedTask
  <2>1. /\ refused' = refused \cup {waiting[Task]}
        /\ waiting'[Task] = NoItem
        /\ Suspended(Task)
    BY <1>4 DEF CancelSuspendedTask, TypeOK, Producers
  <2>2. \A m \in 1..MaxEvents : ~Held(m)'
    BY <2>1 DEF Held, EventWaits, Suspended
  <2>3. \A m \in 1..MaxEvents : Refused(m)' <=> Refused(m) \/ Held(m)
    BY <2>1, HeldIsWaiting DEF Refused, Event
  <2>4. CASE EventWaits
    <3>1. published \in 1..MaxEvents
      BY <2>4 DEF OrderInv
    <3>2. \A m \in 1..MaxEvents : Held(m) <=> m = published
      BY <2>4 DEF Held
    <3>3. fateOf'[published] = "refused" /\ fateOf[published] = "coming"
      BY <2>3, <3>1, <3>2 DEF FateTells
    <3>4. \A m \in 1..MaxEvents : m # published => fateOf'[m] = fateOf[m]
      BY <1>2, <2>2, <2>3, <3>2, SameFate
    <3>5. ASSUME NEW m \in 1..MaxEvents, fateOf[m] = "coming" PROVE m <= published
      BY <3>5 DEF FateTells
    <3>6. Flow!IsNewest(published)
      BY <3>3, <3>5 DEF Flow!IsNewest, Flow!Numbers
    <3>7. Policy # "drop_oldest"
      BY <2>1 DEF NeverSuspends, Producers
    <3>8. Flow!GiveUp(published)
      BY <3>1, <3>3, <3>4, <3>6, <3>7, FateChanges DEF Flow!GiveUp
    <3> QED BY <3>1, <3>3, <3>8 DEF Flow!Next, Flow!Numbers
  <2>5. CASE ~EventWaits
    <3>1. \A m \in 1..MaxEvents : (Held(m)' <=> Held(m)) /\ (Refused(m)' <=> Refused(m))
      BY <2>2, <2>3, <2>5 DEF Held
    <3>2. \A m \in 1..MaxEvents : fateOf'[m] = fateOf[m]
      BY <1>2, <3>1, SameFate
    <3> QED BY <3>2, FateChanges
  <2> QED BY <2>4, <2>5
<1> QED BY <1>3, <1>4 DEF CompleteRun, FailRun, SkipTaskEnd, Attach, AnswerEnd, PollTimeout,
                          Disconnect, vars, lost

\* Every step of the broker is one of EventFlow or changes no fate.
LEMMA FlowStep ==
  /\ TypeOK /\ OrderInv /\ NeverSuspends /\ PlacesInv /\ FateTells
  /\ PlacesInv' /\ FateTells' /\ [Next]_vars
  => [Flow!Next]_fateOf
<1> SUFFICES ASSUME TypeOK, OrderInv, NeverSuspends, PlacesInv, FateTells,
                    PlacesInv', FateTells', [Next]_vars
             PROVE  Flow!Next \/ UNCHANGED fateOf
  OBVIOUS
<1>1. CASE PutTaskEnd
  <2>1. Task \in Producers /\ Put(Task, End) /\ ~Suspended(Task)
        /\ UNCHANGED <<published, got>>
    BY <1>1 DEF PutTaskEnd, readerVars, taken, Producers
  <2> QED BY <2>1, PutEndFlows
<1>2. CASE \E h \in Handlers : Signal(h)
  <2>1. PICK h \in Handlers : Signal(h)
    BY <1>2
  <2>2. /\ h \in Producers /\ h # Task /\ Put(h, End)
        /\ UNCHANGED <<published, got>>
    BY <2>1, BrokerAssumption DEF Signal, readerVars, taken, Producers
  <2> QED BY <2>2, PutEndFlows
<1> QED BY <1>1, <1>2, PublishFlows, ResumeFlows, TakeFlows, QuietFlows DEF Next

\* At first no event has come.
LEMMA FlowInit == Init => Flow!Init
<1> SUFFICES ASSUME Init PROVE Flow!Init
  OBVIOUS
<1>1. \A n \in 1..MaxEvents : n > published
  BY BrokerAssumption DEF Init
<1>2. fateOf = [n \in 1..MaxEvents |-> "none"]
  BY <1>1 DEF fateOf
<1> QED BY <1>2 DEF Flow!Init, Flow!Numbers

\* The broker implements EventFlow: under either policy, with puts that wait, are
\* overtaken or cancelled and with several streams, every event is shown in its
\* order and once, or dropped or refused as the policy promises, and for good.
THEOREM RefinesFlow == Spec => FlowsAsPromised
<1>1. Spec => [](TypeOK /\ OrderInv /\ NeverSuspends /\ PlacesInv)
  BY TypeCorrect, PlacesCorrect, DropOldestNeverWaits, PTL
<1>2. Spec => []FateTells
  BY <1>1, PlacesTell, PTL
<1> QED BY <1>1, <1>2, FlowInit, FlowStep, PTL DEF Spec, FlowsAsPromised, Flow!Spec
=============================================================================
