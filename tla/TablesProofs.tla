---------------------------- MODULE TablesProofs ----------------------------
(***************************************************************************)
(* Assistants, for any users, contents and requests: the numbers of the    *)
(* versions have no gap, a row has the content of the version it names     *)
(* (the graph, the configuration and the names, not the metadata), and     *)
(* goes back to an older one only by set_latest or by a request whose      *)
(* reads another one has outdated.                                         *)
(*                                                                         *)
(* Scheduled runs, for any jobs, servers, dates and faults: a server makes *)
(* one run of a date, unless it is rolled back, and ended tasks tell.      *)
(*                                                                         *)
(* The history of a thread, for any limit and checkpoints: followed by its *)
(* cursor it is whole and has nothing twice.                               *)
(*                                                                         *)
(* Listings, for any rows, times and limit: what a client misses or sees   *)
(* twice has a row that came or went to blame; an export is of one moment, *)
(* and the counts of a summary add up unless a record came in between.     *)
(***************************************************************************)
EXTENDS Assistants, Crons, Listings, ThreadHistory, SequenceLemmas,
        FiniteSetTheorems, SequenceTheorems, TLAPS

---------------------------------------------------------------------------
(* Assistants                                                              *)

AssistantRows ==
    [user : Clients \cup {System}, org : {OrgOf[u] : u \in Clients} \cup {"none"},
     content : Contents, metadata : Contents, version : 1..MaxVersions]
Changes ==
    [at : {"insert", "first", "number", "apply"}, kind : {"create", "update", "latest"},
     user : Clients, id : AssistantIds, content : Contents, number : 1..MaxVersions]

AssistantTypes ==
    /\ assistant \in [AssistantIds -> {NoAssistant} \cup AssistantRows]
    /\ versions = [a \in AssistantIds |-> versions[a]]
    /\ \A a \in AssistantIds :
          /\ versions[a] \in [Numbers(a) -> Contents]
          /\ Numbers(a) \subseteq 1..MaxVersions
    /\ call \in [Calls -> {Resting, Finished} \cup Changes]
    /\ compiled \subseteq Loadable /\ agents \subseteq Loadable /\ stray \subseteq AssistantIds
    /\ started \in BOOLEAN /\ crashes \in 0..MaxCrashes

\* One of the numbers is the greatest, whatever has become of the id.
NewestExists(a) ==
    Numbers(a) = {} \/ \E n \in Numbers(a) : \A m \in Numbers(a) : m <= n

Dense(a) == \E k \in 0..MaxVersions : Numbers(a) = 1..k

\* The row names a version that is there, but for the first.
RowNamesVersion(a) ==
    Present(a) /\ assistant[a].version > 1 =>
        /\ assistant[a].version \in Numbers(a)
        /\ assistant[a].content = versions[a][assistant[a].version]

(***************************************************************************)
(* A request that goes on for an assistant that is still the same inserts  *)
(* a number that leaves none out, and applies a version that is there.     *)
(***************************************************************************)
ChangeSound(c) ==
    /\ call[c].at = "number" /\ call[c].id \notin stray =>
          call[c].number = 1 \/ call[c].number - 1 \in Numbers(call[c].id)
    /\ call[c].at = "apply" /\ call[c].id \notin stray =>
          /\ call[c].number \in Numbers(call[c].id)
          /\ call[c].content = versions[call[c].id][call[c].number]

AssistantIInv ==
    /\ AssistantTypes
    /\ \A a \in AssistantIds : NewestExists(a)
    /\ \A a \in AssistantIds \ stray : Dense(a) /\ RowNamesVersion(a)
    /\ \A c \in Calls : ChangeSound(c)

---------------------------------------------------------------------------
LEMMA AssistantRowsDiffer ==
    /\ \A x \in AssistantRows : x # NoAssistant
    /\ NoAssistant.user \notin Clients
    /\ Resting.at = "idle" /\ Finished.at = "done"
<1>1. \A x \in AssistantRows : "version" \in DOMAIN x
  BY DEF AssistantRows
<1>2. "version" \notin DOMAIN NoAssistant
  BY DEF NoAssistant
<1>3. NoAssistant.user \notin Clients
  BY AssistantConstants DEF NoAssistant
<1> QED BY <1>1, <1>2, <1>3 DEF Resting, Finished

LEMMA CallFields ==
    ASSUME AssistantTypes, NEW c \in Calls,
           call[c].at \in {"insert", "first", "number", "apply"}
    PROVE  call[c] \in Changes
BY AssistantRowsDiffer DEF AssistantTypes

LEMMA AssistantInvariantGives == AssistantIInv => AssistantInv
<1> SUFFICES ASSUME AssistantIInv PROVE AssistantInv
  OBVIOUS
<1>1. AsstTypeOK
  <2>1. \A a \in AssistantIds : Present(a) => assistant[a] \in AssistantRows
    BY DEF AssistantIInv, AssistantTypes, Present
  <2>2. ASSUME NEW a \in AssistantIds, NEW n \in Numbers(a) PROVE versions[a][n] \in Contents
    <3>1. versions[a] \in [Numbers(a) -> Contents]
      BY DEF AssistantIInv, AssistantTypes
    <3> QED BY <3>1
  <2>3. \A x \in {Resting, Finished} \cup Changes :
          x.at \in {"idle", "done", "insert", "first", "number", "apply"}
    BY AssistantRowsDiffer DEF Changes
  <2>4. \A c \in Calls : call[c].at \in {"idle", "done", "insert", "first", "number", "apply"}
    BY <2>3 DEF AssistantIInv, AssistantTypes
  <2> QED BY <2>1, <2>2, <2>4 DEF AssistantIInv, AssistantTypes, AsstTypeOK, AssistantRows
<1>2. VersionsDense
  <2>1. ASSUME NEW a \in AssistantIds \ stray PROVE Numbers(a) = 1..Cardinality(Numbers(a))
    <3>1. PICK k \in 0..MaxVersions : Numbers(a) = 1..k
      BY DEF AssistantIInv, Dense
    <3>2. k \in Nat
      BY <3>1, AssistantConstants
    <3>3. Cardinality(1..k) = k
      BY <3>2, FS_Interval
    <3> QED BY <3>1, <3>3
  <2> QED BY <2>1 DEF VersionsDense
<1>3. RowIsItsVersion
  BY DEF AssistantIInv, RowNamesVersion, RowIsItsVersion
<1> QED BY <1>1, <1>2, <1>3 DEF AssistantInv

LEMMA AssistantsBegin == InitAssistants => AssistantIInv
<1> SUFFICES ASSUME InitAssistants PROVE AssistantIInv
  OBVIOUS
<1>1. \A a \in AssistantIds : versions[a] = NoVersions /\ Numbers(a) = {} /\ ~Present(a)
  BY DEF InitAssistants, NoVersions, Numbers, Present
<1>2. \A a \in AssistantIds : versions[a] \in [Numbers(a) -> Contents]
  BY <1>1 DEF NoVersions
<1>3. AssistantTypes
  <2>1. versions = [a \in AssistantIds |-> versions[a]]
    BY DEF InitAssistants
  <2>2. \A a \in AssistantIds : Numbers(a) \subseteq 1..MaxVersions
    BY <1>1
  <2>3. /\ assistant \in [AssistantIds -> {NoAssistant} \cup AssistantRows]
        /\ call \in [Calls -> {Resting, Finished} \cup Changes]
        /\ compiled \subseteq Loadable /\ agents \subseteq Loadable /\ stray \subseteq AssistantIds
        /\ started \in BOOLEAN /\ crashes \in 0..MaxCrashes
    <3>1. /\ assistant \in [AssistantIds -> {NoAssistant} \cup AssistantRows]
          /\ call \in [Calls -> {Resting, Finished} \cup Changes]
      BY DEF InitAssistants
    <3>2. /\ compiled = {} /\ agents = {} /\ stray = {} /\ started = FALSE
          /\ crashes = 0 /\ 0 \in 0..MaxCrashes
      BY AssistantConstants DEF InitAssistants
    <3> QED BY <3>1, <3>2
  <2> QED BY <1>2, <2>1, <2>2, <2>3 DEF AssistantTypes
<1>4. \A a \in AssistantIds : NewestExists(a) /\ Dense(a) /\ RowNamesVersion(a)
  <2>1. 0 \in 0..MaxVersions /\ 1..0 = {}
    BY AssistantConstants
  <2> QED BY <1>1, <2>1 DEF NewestExists, Dense, RowNamesVersion
<1>5. \A c \in Calls : ChangeSound(c)
  BY AssistantRowsDiffer DEF InitAssistants, ChangeSound
<1> QED BY <1>3, <1>4, <1>5 DEF AssistantIInv

---------------------------------------------------------------------------
\* What ChangeSound says of a request before it is there.
Prepared(x) ==
    /\ x.at = "number" /\ x.id \notin stray =>
          x.number = 1 \/ x.number - 1 \in Numbers(x.id)
    /\ x.at = "apply" /\ x.id \notin stray =>
          x.number \in Numbers(x.id) /\ x.content = versions[x.id][x.number]

\* Steps that leave the rows and versions of assistants alone.
LEMMA CallMoves ==
    ASSUME AssistantIInv, UNCHANGED <<assistant, versions, stray>>,
           NEW c \in Calls, NEW x \in {Resting, Finished} \cup Changes, SetCall(c, x),
           x \in Changes => Prepared(x),
           compiled' \subseteq Loadable, UNCHANGED <<agents, started>>,
           Crash \/ UNCHANGED crashes
    PROVE  AssistantIInv'
<1>1. AssistantTypes
  BY DEF AssistantIInv
<1>2. /\ call' \in [Calls -> {Resting, Finished} \cup Changes]
      /\ call'[c] = x
      /\ \A d \in Calls : d # c => call'[d] = call[d]
  BY <1>1 DEF AssistantTypes, SetCall
<1>3. crashes' \in 0..MaxCrashes
  BY <1>1, AssistantConstants DEF AssistantTypes, Crash
<1>4. \A a \in AssistantIds : Numbers(a)' = Numbers(a)
  BY DEF Numbers
<1>5. AssistantTypes'
  BY <1>1, <1>2, <1>3, <1>4 DEF AssistantTypes
<1>6. ASSUME NEW d \in Calls PROVE ChangeSound(d)'
  <2>1. CASE d # c
    <3>1. ChangeSound(d) /\ call'[d] = call[d]
      BY <1>2, <2>1 DEF AssistantIInv
    <3>2. call[d].at \in {"number", "apply"} => call[d].id \in AssistantIds
      BY <1>1, CallFields DEF Changes
    <3> QED BY <1>4, <3>1, <3>2 DEF ChangeSound
  <2>2. CASE d = c
    <3>1. x \in Changes => x.id \in AssistantIds
      BY DEF Changes
    <3>2. x \notin Changes => x.at \notin {"number", "apply"}
      BY AssistantRowsDiffer
    <3> QED BY <1>2, <1>4, <2>2, <3>1, <3>2 DEF ChangeSound, Prepared
  <2> QED BY <2>1, <2>2
<1>7. \A a \in AssistantIds : NewestExists(a)'
  BY <1>4 DEF AssistantIInv, NewestExists
<1>8. \A a \in AssistantIds \ stray : Dense(a)' /\ RowNamesVersion(a)'
  BY <1>4 DEF AssistantIInv, Dense, RowNamesVersion, Present
<1> QED BY <1>5, <1>6, <1>7, <1>8 DEF AssistantIInv

LEMMA GetGraphTyped ==
    ASSUME AssistantTypes, NEW g, GetGraph(g)
    PROVE  compiled' \subseteq Loadable
BY DEF AssistantTypes, GetGraph

LEMMA CheckNewSound ==
    ASSUME AssistantIInv, NEW c \in Calls, CheckNew(c)
    PROVE  AssistantIInv'
<1>1. PICK u \in Clients, a \in AssistantIds, content \in Contents :
        /\ GetGraph(GraphOf[content])
        /\ SetCall(c, IF assistant[a].user = u \/ Duplicate(a, u, content) THEN Finished
                      ELSE [at |-> "insert", kind |-> "create", user |-> u, id |-> a,
                            content |-> content, number |-> 1])
  BY DEF CheckNew
<1>2. UNCHANGED <<assistant, versions, agents, started, crashes, stray>>
  BY DEF CheckNew
<1> DEFINE new == [at |-> "insert", kind |-> "create", user |-> u, id |-> a,
                   content |-> content, number |-> 1]
<1>3. new \in Changes /\ new.at = "insert"
  BY AssistantConstants DEF Changes
<1>4. compiled' \subseteq Loadable
  BY <1>1, GetGraphTyped DEF AssistantIInv
<1> HIDE DEF new
<1>5. PICK x \in {Resting, Finished} \cup Changes :
        SetCall(c, x) /\ x.at \in {"done", "insert"}
  BY <1>1, <1>3, AssistantRowsDiffer DEF new
<1>6. Prepared(x)
  BY <1>5 DEF Prepared
<1> QED BY <1>2, <1>4, <1>5, <1>6, CallMoves

\* The next number is one more than one that is there, or the first.
LEMMA NextNumberFollows ==
    ASSUME AssistantIInv, NEW a \in AssistantIds
    PROVE  /\ NextNumber(a) \in 1..(MaxVersions + 1)
           /\ NextNumber(a) = 1 \/ NextNumber(a) - 1 \in Numbers(a)
<1>1. Numbers(a) \subseteq 1..MaxVersions /\ NewestExists(a) /\ MaxVersions \in Nat
  BY AssistantConstants DEF AssistantIInv, AssistantTypes
<1>2. CASE Numbers(a) = {}
  BY <1>1, <1>2, AssistantConstants DEF NextNumber
<1>3. CASE Numbers(a) # {}
  <2>1. \E n \in Numbers(a) : \A m \in Numbers(a) : m <= n
    BY <1>1, <1>3 DEF NewestExists
  <2>2. Newest(a) \in Numbers(a)
    BY <2>1 DEF Newest
  <2>3. NextNumber(a) = Newest(a) + 1 /\ Newest(a) \in 1..MaxVersions
    BY <1>1, <1>3, <2>2 DEF NextNumber
  <2> HIDE DEF Newest
  <2>4. NextNumber(a) - 1 = Newest(a)
    BY <2>3
  <2> QED BY <1>1, <2>2, <2>3, <2>4
<1> QED BY <1>2, <1>3

LEMMA ReadNewestSound ==
    ASSUME AssistantIInv, NEW c \in Calls, ReadNewest(c)
    PROVE  AssistantIInv'
<1>1. PICK u \in Clients, a \in AssistantIds, content \in Contents :
        /\ NextNumber(a) <= MaxVersions
        /\ SetCall(c, [at |-> "number", kind |-> "update", user |-> u, id |-> a,
                       content |-> content, number |-> NextNumber(a)])
  BY DEF ReadNewest
<1>2. UNCHANGED <<assistant, versions, compiled, agents, started, crashes, stray>>
  BY DEF ReadNewest
<1>3. /\ NextNumber(a) \in 1..MaxVersions
      /\ NextNumber(a) = 1 \/ NextNumber(a) - 1 \in Numbers(a)
  BY <1>1, NextNumberFollows, AssistantConstants
<1> DEFINE x == [at |-> "number", kind |-> "update", user |-> u, id |-> a,
                 content |-> content, number |-> NextNumber(a)]
<1>4. x \in Changes /\ x.at = "number" /\ x.number = NextNumber(a) /\ x.id = a
  BY <1>3 DEF Changes
<1>5. SetCall(c, x)
  BY <1>1
<1>6. compiled' \subseteq Loadable
  BY <1>2 DEF AssistantIInv, AssistantTypes
<1> HIDE DEF x
<1>7. Prepared(x)
  BY <1>3, <1>4 DEF Prepared
<1> QED BY <1>2, <1>4, <1>5, <1>6, <1>7, CallMoves

LEMMA ReadVersionSound ==
    ASSUME AssistantIInv, NEW c \in Calls, ReadVersion(c)
    PROVE  AssistantIInv'
<1>1. PICK u \in Clients, a \in AssistantIds : \E n \in Numbers(a) :
        SetCall(c, [at |-> "apply", kind |-> "latest", user |-> u, id |-> a,
                    content |-> versions[a][n], number |-> n])
  BY DEF ReadVersion
<1>2. PICK n \in Numbers(a) :
        SetCall(c, [at |-> "apply", kind |-> "latest", user |-> u, id |-> a,
                    content |-> versions[a][n], number |-> n])
  BY <1>1
<1>3. UNCHANGED <<assistant, versions, compiled, agents, started, crashes, stray>>
  BY DEF ReadVersion
<1>4. versions[a] \in [Numbers(a) -> Contents] /\ Numbers(a) \subseteq 1..MaxVersions
  BY DEF AssistantIInv, AssistantTypes
<1>5. versions[a][n] \in Contents /\ n \in 1..MaxVersions
  BY <1>4
<1> DEFINE x == [at |-> "apply", kind |-> "latest", user |-> u, id |-> a,
                 content |-> versions[a][n], number |-> n]
<1>6. x \in Changes /\ x.at = "apply" /\ x.number = n /\ x.id = a /\ x.content = versions[a][n]
  BY <1>5 DEF Changes
<1>7. SetCall(c, x)
  BY <1>2
<1>8. compiled' \subseteq Loadable
  BY <1>3 DEF AssistantIInv, AssistantTypes
<1> HIDE DEF x
<1>9. Prepared(x)
  BY <1>6 DEF Prepared
<1> QED BY <1>3, <1>6, <1>7, <1>8, <1>9, CallMoves

---------------------------------------------------------------------------
\* One row changes; the versions do not.
LEMMA RowChanges ==
    ASSUME AssistantIInv, NEW a \in AssistantIds, NEW row \in AssistantRows,
           assistant' = [assistant EXCEPT ![a] = row],
           UNCHANGED <<versions, compiled, agents, started, stray>>,
           Crash \/ UNCHANGED crashes,
           a \notin stray /\ row.version > 1 =>
              row.version \in Numbers(a) /\ row.content = versions[a][row.version],
           NEW c \in Calls, NEW x \in {Finished} \cup Changes, SetCall(c, x),
           x.at \in {"done", "first"}
    PROVE  AssistantIInv'
<1>1. AssistantTypes
  BY DEF AssistantIInv
<1>2. /\ call' \in [Calls -> {Resting, Finished} \cup Changes]
      /\ call'[c] = x
      /\ \A d \in Calls : d # c => call'[d] = call[d]
  BY <1>1 DEF AssistantTypes, SetCall
<1>3. /\ assistant' \in [AssistantIds -> {NoAssistant} \cup AssistantRows]
      /\ assistant'[a] = row
      /\ \A b \in AssistantIds : b # a => assistant'[b] = assistant[b]
  BY <1>1 DEF AssistantTypes
<1>4. crashes' \in 0..MaxCrashes
  BY <1>1, AssistantConstants DEF AssistantTypes, Crash
<1>5. \A b \in AssistantIds : Numbers(b)' = Numbers(b)
  BY DEF Numbers
<1>6. AssistantTypes'
  BY <1>1, <1>2, <1>3, <1>4, <1>5 DEF AssistantTypes
<1>7. ASSUME NEW d \in Calls PROVE ChangeSound(d)'
  <2>1. CASE d # c
    <3>1. ChangeSound(d) /\ call'[d] = call[d]
      BY <1>2, <2>1 DEF AssistantIInv
    <3>2. call[d].at \in {"number", "apply"} => call[d].id \in AssistantIds
      BY <1>1, CallFields DEF Changes
    <3> QED BY <1>5, <3>1, <3>2 DEF ChangeSound
  <2>2. CASE d = c
    BY <1>2, <2>2 DEF ChangeSound
  <2> QED BY <2>1, <2>2
<1>8. \A b \in AssistantIds : NewestExists(b)'
  BY <1>5 DEF AssistantIInv, NewestExists
<1>9. \A b \in AssistantIds \ stray : Dense(b)'
  BY <1>5 DEF AssistantIInv, Dense
<1>10. ASSUME NEW b \in AssistantIds \ stray PROVE RowNamesVersion(b)'
  <2>1. CASE b = a
    BY <1>3, <1>5, <2>1 DEF RowNamesVersion
  <2>2. CASE b # a
    BY <1>3, <1>5, <2>2 DEF AssistantIInv, RowNamesVersion, Present
  <2> QED BY <2>1, <2>2
<1> QED BY <1>6, <1>7, <1>8, <1>9, <1>10 DEF AssistantIInv

LEMMA InsertAssistantSound ==
    ASSUME AssistantIInv, NEW c \in Calls, InsertAssistant(c)
    PROVE  AssistantIInv'
<1> DEFINE x == call[c]
           fails == Present(x.id) \/ Duplicate(x.id, x.user, x.content)
           row == [user |-> x.user, org |-> OrgOf[x.user],
                   content |-> x.content, metadata |-> x.content, version |-> 1]
           next == [x EXCEPT !.at = "first"]
<1>1. /\ x.at = "insert"
      /\ assistant' = IF fails THEN assistant ELSE [assistant EXCEPT ![x.id] = row]
      /\ SetCall(c, IF fails THEN Finished ELSE next)
      /\ UNCHANGED <<versions, compiled, agents, started, crashes, stray>>
  BY DEF InsertAssistant
<1>2. x \in Changes
  BY <1>1, CallFields DEF AssistantIInv
<1>3. row \in AssistantRows /\ row.version = 1
  BY <1>2, AssistantConstants DEF AssistantRows, Changes
<1>4. next \in Changes /\ next.at = "first"
  BY <1>2 DEF Changes
<1>5. x.id \in AssistantIds
  BY <1>2 DEF Changes
<1>6. CASE fails
  <2>1. SetCall(c, Finished) /\ UNCHANGED <<assistant, versions, stray, agents, started, crashes>>
    BY <1>1, <1>6
  <2>2. compiled' \subseteq Loadable
    BY <1>1 DEF AssistantIInv, AssistantTypes
  <2>3. Prepared(Finished)
    BY AssistantRowsDiffer DEF Prepared
  <2> QED BY <2>1, <2>2, <2>3, CallMoves
<1>7. CASE ~fails
  <2>1. /\ SetCall(c, next) /\ assistant' = [assistant EXCEPT ![x.id] = row]
        /\ UNCHANGED <<versions, compiled, agents, started, stray>> /\ UNCHANGED crashes
    BY <1>1, <1>7
  <2>2. next \in {Finished} \cup Changes /\ next.at \in {"done", "first"}
    BY <1>4
  <2>3. x.id \notin stray /\ row.version > 1 =>
          row.version \in Numbers(x.id) /\ row.content = versions[x.id][row.version]
    BY <1>3
  <2> HIDE DEF row, next, x
  <2> QED BY <1>3, <1>5, <2>1, <2>2, <2>3, RowChanges
<1> QED BY <1>6, <1>7

LEMMA ApplyVersionSound ==
    ASSUME AssistantIInv, NEW c \in Calls, ApplyVersion(c)
    PROVE  AssistantIInv'
<1> DEFINE x == call[c]
<1>1. /\ x.at = "apply"
      /\ \/ /\ assistant[x.id].user = x.user /\ ~Duplicate(x.id, x.user, x.content)
            /\ assistant' = [assistant EXCEPT ![x.id] = Applied(@, x)]
            /\ UNCHANGED crashes
         \/ /\ assistant[x.id].user # x.user \/ Duplicate(x.id, x.user, x.content)
            /\ UNCHANGED <<assistant, crashes>>
         \/ Crash /\ UNCHANGED assistant
      /\ SetCall(c, Finished)
      /\ UNCHANGED <<versions, compiled, agents, started, stray>>
  BY DEF ApplyVersion
<1>2. x \in Changes
  BY <1>1, CallFields DEF AssistantIInv
<1>3. ChangeSound(c) /\ AssistantTypes
  BY DEF AssistantIInv
<1>4. CASE /\ assistant[x.id].user = x.user
           /\ assistant' = [assistant EXCEPT ![x.id] = Applied(@, x)]
           /\ UNCHANGED crashes
  <2> DEFINE old == assistant[x.id]
             row == [old EXCEPT !.version = x.number, !.content = x.content]
  <2>1. x.id \in AssistantIds /\ x.user \in Clients /\ x.number \in 1..MaxVersions
        /\ x.content \in Contents
    BY <1>2 DEF Changes
  <2>2. old \in AssistantRows
    BY <1>3, <1>4, <2>1, AssistantRowsDiffer DEF AssistantTypes
  <2>3. row \in AssistantRows /\ row.version = x.number /\ row.content = x.content
    <3> HIDE DEF x, old
    <3>1. \A n \in 1..MaxVersions, y \in Contents :
            LET r == [old EXCEPT !.version = n, !.content = y]
            IN  r \in AssistantRows /\ r.version = n /\ r.content = y
      BY <2>2 DEF AssistantRows
    <3> QED BY <2>1, <3>1
  <2>4. assistant' = [assistant EXCEPT ![x.id] = row]
    BY <1>4 DEF Applied
  <2>5. x.id \notin stray => x.number \in Numbers(x.id) /\ x.content = versions[x.id][x.number]
    BY <1>1, <1>3 DEF ChangeSound
  <2>6. Finished \in {Finished} \cup Changes /\ Finished.at = "done"
    BY AssistantRowsDiffer
  <2> HIDE DEF row, x
  <2> QED BY <1>1, <1>4, <2>1, <2>3, <2>4, <2>5, <2>6, RowChanges, ZenonT(60)
<1>5. CASE UNCHANGED assistant /\ (Crash \/ UNCHANGED crashes)
  <2>1. Prepared(Finished)
    BY AssistantRowsDiffer DEF Prepared
  <2>2. compiled' \subseteq Loadable
    BY <1>1, <1>3 DEF AssistantTypes
  <2> QED BY <1>1, <1>5, <2>1, <2>2, CallMoves
<1> QED BY <1>1, <1>4, <1>5

---------------------------------------------------------------------------
\* A version comes under a number that is free.  It leaves none out if the number
\* is the first or follows one that is there; versions that are there stay.
LEMMA VersionComes ==
    ASSUME AssistantIInv, NEW a \in AssistantIds, NEW n \in 1..MaxVersions, NEW content \in Contents,
           CanInsertVersion(a, n), versions' = WithVersion(a, n, content),
           a \notin stray => n = 1 \/ n - 1 \in Numbers(a)
    PROVE  /\ versions' = [b \in AssistantIds |-> versions'[b]]
           /\ \A b \in AssistantIds : b # a => versions'[b] = versions[b]
           /\ Numbers(a)' = Numbers(a) \cup {n}
           /\ versions'[a] \in [Numbers(a)' -> Contents]
           /\ versions'[a][n] = content
           /\ \A m \in Numbers(a) : versions'[a][m] = versions[a][m]
           /\ \A b \in AssistantIds : Numbers(b) \subseteq Numbers(b)' /\ NewestExists(b)'
           /\ \A b \in AssistantIds \ stray : Dense(b)'
<1>1. /\ AssistantTypes /\ n \notin Numbers(a) /\ MaxVersions \in Nat
      /\ versions[a] \in [Numbers(a) -> Contents]
  BY AssistantConstants DEF AssistantIInv, AssistantTypes, CanInsertVersion
<1> DEFINE new == [m \in Numbers(a) \cup {n} |-> IF m = n THEN content ELSE versions[a][m]]
<1>2. versions' = [versions EXCEPT ![a] = new]
  BY DEF WithVersion
<1>3. /\ new \in [Numbers(a) \cup {n} -> Contents] /\ new[n] = content
      /\ \A m \in Numbers(a) : new[m] = versions[a][m]
      /\ DOMAIN new = Numbers(a) \cup {n}
  BY <1>1
<1> HIDE DEF new
<1>4. /\ versions' = [b \in AssistantIds |-> versions'[b]] /\ versions'[a] = new
      /\ \A b \in AssistantIds : b # a => versions'[b] = versions[b]
  BY <1>1, <1>2 DEF AssistantTypes
<1>5. /\ Numbers(a)' = Numbers(a) \cup {n}
      /\ \A b \in AssistantIds : b # a => Numbers(b)' = Numbers(b)
  BY <1>3, <1>4 DEF Numbers
<1>6. ASSUME NEW b \in AssistantIds PROVE NewestExists(b)'
  <2>1. CASE b # a
    BY <1>5, <2>1 DEF AssistantIInv, NewestExists
  <2>2. CASE b = a
    <3>1. Numbers(a) \subseteq 1..MaxVersions
      BY <1>1 DEF AssistantTypes
    <3>2. CASE \A m \in Numbers(a) : m <= n
      BY <1>5, <2>2, <3>2 DEF NewestExists
    <3>3. CASE ~\A m \in Numbers(a) : m <= n
      <4>1. PICK k \in Numbers(a) : \A m \in Numbers(a) : m <= k
        BY <3>3 DEF AssistantIInv, NewestExists
      <4>2. PICK m \in Numbers(a) : ~(m <= n)
        BY <3>3
      <4>3. n <= k
        BY <3>1, <4>1, <4>2
      <4> QED BY <1>5, <2>2, <4>1, <4>3 DEF NewestExists
    <3> QED BY <3>2, <3>3
  <2> QED BY <2>1, <2>2
<1>7. ASSUME NEW b \in AssistantIds \ stray PROVE Dense(b)'
  <2>1. CASE b # a
    BY <1>5, <2>1 DEF AssistantIInv, Dense
  <2>2. CASE b = a
    <3>1. PICK k \in 0..MaxVersions : Numbers(a) = 1..k
      BY <2>2 DEF AssistantIInv, Dense
    <3>2. n = k + 1
      BY <1>1, <2>2, <3>1
    <3>3. Numbers(a)' = 1..n
      BY <1>1, <1>5, <3>1, <3>2
    <3> QED BY <1>1, <2>2, <3>3 DEF Dense
  <2> QED BY <2>1, <2>2
<1> QED BY <1>3, <1>4, <1>5, <1>6, <1>7

LEMMA VersionSound ==
    ASSUME AssistantIInv, NEW a \in AssistantIds, NEW n \in 1..MaxVersions, NEW content \in Contents,
           CanInsertVersion(a, n), versions' = WithVersion(a, n, content),
           a \notin stray => n = 1 \/ n - 1 \in Numbers(a),
           UNCHANGED <<assistant, compiled, agents, started, stray>>, UNCHANGED crashes,
           NEW c \in Calls, NEW x \in {Finished} \cup Changes, SetCall(c, x),
           \/ x.at = "done"
           \/ x.at = "apply" /\ x.id = a /\ x.number = n /\ x.content = content
    PROVE  AssistantIInv'
<1>1. AssistantTypes
  BY DEF AssistantIInv
<1>2. /\ call' \in [Calls -> {Resting, Finished} \cup Changes]
      /\ call'[c] = x
      /\ \A d \in Calls : d # c => call'[d] = call[d]
  BY <1>1 DEF AssistantTypes, SetCall
<1>3. /\ versions' = [b \in AssistantIds |-> versions'[b]]
      /\ \A b \in AssistantIds : b # a => versions'[b] = versions[b]
      /\ Numbers(a)' = Numbers(a) \cup {n}
      /\ versions'[a] \in [Numbers(a)' -> Contents]
      /\ versions'[a][n] = content
      /\ \A m \in Numbers(a) : versions'[a][m] = versions[a][m]
      /\ \A b \in AssistantIds : Numbers(b) \subseteq Numbers(b)' /\ NewestExists(b)'
      /\ \A b \in AssistantIds \ stray : Dense(b)'
  BY VersionComes
<1>4. \A b \in AssistantIds : b # a => Numbers(b)' = Numbers(b)
  BY <1>3 DEF Numbers
<1>5. \A b \in AssistantIds : \A m \in Numbers(b) : m \in Numbers(b)' /\ versions'[b][m] = versions[b][m]
  <2>1. ASSUME NEW b \in AssistantIds, NEW m \in Numbers(b) PROVE versions'[b][m] = versions[b][m]
    <3>1. CASE b = a
      BY <1>3, <2>1, <3>1
    <3>2. CASE b # a
      BY <1>3, <3>2
    <3> QED BY <3>1, <3>2
  <2> QED BY <1>3, <2>1
<1>6. AssistantTypes'
  <2>1. ASSUME NEW b \in AssistantIds
        PROVE  versions'[b] \in [Numbers(b)' -> Contents] /\ Numbers(b)' \subseteq 1..MaxVersions
    BY <1>1, <1>3, <1>4 DEF AssistantTypes
  <2> QED BY <1>1, <1>2, <1>3, <2>1 DEF AssistantTypes
<1>7. ASSUME NEW b \in AssistantIds \ stray PROVE RowNamesVersion(b)'
  BY <1>5 DEF AssistantIInv, RowNamesVersion, Present
<1>8. ASSUME NEW d \in Calls PROVE ChangeSound(d)'
  <2>1. CASE d # c
    <3>1. ChangeSound(d) /\ call'[d] = call[d]
      BY <1>2, <2>1 DEF AssistantIInv
    <3>2. call[d].at \in {"number", "apply"} => call[d].id \in AssistantIds
      BY <1>1, CallFields DEF Changes
    <3> QED BY <1>5, <3>1, <3>2 DEF ChangeSound
  <2>2. CASE d = c
    BY <1>2, <1>3, <2>2 DEF ChangeSound
  <2> QED BY <2>1, <2>2
<1> QED BY <1>3, <1>6, <1>7, <1>8 DEF AssistantIInv

LEMMA InsertFirstSound ==
    ASSUME AssistantIInv, NEW c \in Calls, InsertFirst(c)
    PROVE  AssistantIInv'
<1> DEFINE x == call[c]
<1>1. /\ x.at = "first" /\ SetCall(c, Finished)
      /\ UNCHANGED <<assistant, compiled, agents, started, stray>>
      /\ compiled' \subseteq Loadable
  BY DEF InsertFirst, AssistantIInv, AssistantTypes
<1>2. x \in Changes
  BY <1>1, CallFields DEF AssistantIInv
<1>3. x.id \in AssistantIds /\ x.content \in Contents /\ 1 \in 1..MaxVersions
  BY <1>2, AssistantConstants DEF Changes
<1>4. Finished.at = "done" /\ Prepared(Finished)
  BY AssistantRowsDiffer DEF Prepared
<1>5. CASE /\ CanInsertVersion(x.id, 1) /\ versions' = WithVersion(x.id, 1, x.content)
           /\ UNCHANGED crashes
  <2>1. PICK a \in AssistantIds, content \in Contents, n \in 1..MaxVersions :
          a = x.id /\ content = x.content /\ n = 1
    BY <1>3
  <2>2. CanInsertVersion(a, n) /\ versions' = WithVersion(a, n, content)
    BY <1>5, <2>1
  <2>3. a \notin stray => n = 1 \/ n - 1 \in Numbers(a)
    BY <2>1
  <2>4. UNCHANGED <<assistant, compiled, agents, started, stray>> /\ UNCHANGED crashes
    BY <1>1, <1>5
  <2>5. PICK y \in {Finished} \cup Changes : SetCall(c, y) /\ y.at = "done"
    BY <1>1, <1>4
  <2> HIDE DEF x
  <2> QED BY <2>2, <2>3, <2>4, <2>5, VersionSound
<1>6. CASE UNCHANGED versions /\ (Crash \/ UNCHANGED crashes)
  BY <1>1, <1>4, <1>6, CallMoves
<1> QED BY <1>5, <1>6 DEF InsertFirst

LEMMA InsertVersionSound ==
    ASSUME AssistantIInv, NEW c \in Calls, InsertVersion(c)
    PROVE  AssistantIInv'
<1> DEFINE x == call[c]
           next == [x EXCEPT !.at = "apply"]
<1>1. /\ x.at = "number"
      /\ UNCHANGED <<assistant, compiled, agents, started, stray>> /\ UNCHANGED crashes
      /\ compiled' \subseteq Loadable
  BY DEF InsertVersion, AssistantIInv, AssistantTypes
<1>2. x \in Changes /\ ChangeSound(c)
  BY <1>1, CallFields DEF AssistantIInv
<1>3. /\ x.id \in AssistantIds /\ x.content \in Contents /\ x.number \in 1..MaxVersions
      /\ next \in Changes /\ next.at = "apply" /\ next.id = x.id /\ next.number = x.number
      /\ next.content = x.content
  BY <1>2 DEF Changes
<1>4. x.id \notin stray => x.number = 1 \/ x.number - 1 \in Numbers(x.id)
  BY <1>1, <1>2 DEF ChangeSound
<1>5. CASE CanInsertVersion(x.id, x.number)
  <2>1. versions' = WithVersion(x.id, x.number, x.content) /\ SetCall(c, next)
    BY <1>5 DEF InsertVersion
  <2> HIDE DEF x, next
  <2> QED BY <1>1, <1>3, <1>4, <1>5, <2>1, VersionSound
<1>6. CASE ~CanInsertVersion(x.id, x.number)
  <2>1. SetCall(c, Finished) /\ UNCHANGED versions
    BY <1>6 DEF InsertVersion
  <2>2. Prepared(Finished)
    BY AssistantRowsDiffer DEF Prepared
  <2> QED BY <1>1, <2>1, <2>2, CallMoves
<1> QED BY <1>5, <1>6

---------------------------------------------------------------------------
LEMMA StartUpSound ==
    ASSUME AssistantIInv, StartUp
    PROVE  AssistantIInv'
<1> DEFINE first == CHOOSE x \in Contents : TRUE
           row == [user |-> System, org |-> "none", content |-> first, metadata |-> first,
                   version |-> 1]
<1>1. /\ AssistantTypes /\ started' = TRUE
      /\ assistant' = [a \in AssistantIds |->
                          IF a \in DefaultIds /\ ~Present(a) THEN row ELSE assistant[a]]
      /\ compiled' \subseteq Loadable /\ agents' \subseteq Loadable
      /\ UNCHANGED <<versions, call, crashes, stray>>
  BY DEF StartUp, AssistantIInv, AssistantTypes
<1>2. row \in AssistantRows /\ row.version = 1
  BY AssistantConstants DEF AssistantRows
<1> HIDE DEF row
<1>3. /\ assistant' \in [AssistantIds -> {NoAssistant} \cup AssistantRows]
      /\ \A a \in AssistantIds : assistant'[a] = assistant[a] \/ assistant'[a] = row
  BY <1>1, <1>2 DEF AssistantTypes
<1>4. \A a \in AssistantIds : Numbers(a)' = Numbers(a)
  BY <1>1 DEF Numbers
<1>5. AssistantTypes'
  BY <1>1, <1>3, <1>4 DEF AssistantTypes
<1>6. \A a \in AssistantIds : NewestExists(a)'
  BY <1>4 DEF AssistantIInv, NewestExists
<1>7. \A a \in AssistantIds \ stray : Dense(a)' /\ RowNamesVersion(a)'
  BY <1>1, <1>2, <1>3, <1>4 DEF AssistantIInv, Dense, RowNamesVersion, Present
<1>8. ASSUME NEW c \in Calls PROVE ChangeSound(c)'
  <2>1. call[c].at \in {"number", "apply"} => call[c].id \in AssistantIds
    BY <1>1, CallFields DEF Changes
  <2> QED BY <1>1, <1>4, <2>1 DEF AssistantIInv, ChangeSound
<1> QED BY <1>1, <1>5, <1>6, <1>7, <1>8 DEF AssistantIInv

\* A restart of the server: what is in memory goes.
LEMMA ProcessGoesSound ==
    ASSUME AssistantIInv, Restart \/ InvalidateGraphs
              \/ \E u \in Clients, a \in AssistantIds : InspectGraph(u, a)
    PROVE  AssistantIInv'
<1>1. AssistantTypes /\ UNCHANGED <<assistant, versions, stray>>
  BY DEF AssistantIInv, Restart, InvalidateGraphs, InspectGraph
<1>2. compiled' \subseteq Loadable /\ agents' \subseteq Loadable /\ started' \in BOOLEAN
  <2>1. CASE Restart
    BY <2>1 DEF Restart
  <2>2. CASE InvalidateGraphs
    BY <1>1, <2>2 DEF InvalidateGraphs, AssistantTypes
  <2>3. CASE \E u \in Clients, a \in AssistantIds : InspectGraph(u, a)
    BY <1>1, <2>3 DEF InspectGraph, GetGraph, AssistantTypes
  <2> QED BY <2>1, <2>2, <2>3
<1>3. crashes' \in 0..MaxCrashes
  <2>1. Crash \/ UNCHANGED crashes
    BY DEF Restart, InvalidateGraphs, InspectGraph
  <2> QED BY <1>1, <2>1, AssistantConstants DEF AssistantTypes, Crash
<1>4. /\ call' \in [Calls -> {Resting, Finished} \cup Changes]
      /\ \A c \in Calls : call'[c] = call[c] \/ call'[c] \in {Resting, Finished}
  <2>1. CASE Restart
    BY <1>1, <2>1 DEF Restart, AssistantTypes
  <2>2. CASE call' = call
    BY <1>1, <2>2 DEF AssistantTypes
  <2> QED BY <2>1, <2>2 DEF InvalidateGraphs, InspectGraph
<1>5. \A a \in AssistantIds : Numbers(a)' = Numbers(a)
  BY <1>1 DEF Numbers
<1>6. AssistantTypes'
  BY <1>1, <1>2, <1>3, <1>4, <1>5 DEF AssistantTypes
<1>7. \A a \in AssistantIds : NewestExists(a)'
  BY <1>5 DEF AssistantIInv, NewestExists
<1>8. \A a \in AssistantIds \ stray : Dense(a)' /\ RowNamesVersion(a)'
  BY <1>1, <1>5 DEF AssistantIInv, Dense, RowNamesVersion, Present
<1>9. ASSUME NEW c \in Calls PROVE ChangeSound(c)'
  <2>1. CASE call'[c] = call[c]
    <3>1. call[c].at \in {"number", "apply"} => call[c].id \in AssistantIds
      BY <1>1, CallFields DEF Changes
    <3> QED BY <1>1, <1>5, <2>1, <3>1 DEF AssistantIInv, ChangeSound
  <2>2. CASE call'[c] \in {Resting, Finished}
    BY <2>2, AssistantRowsDiffer DEF ChangeSound
  <2> QED BY <1>4, <2>1, <2>2
<1> QED BY <1>1, <1>6, <1>7, <1>8, <1>9 DEF AssistantIInv

\* No request that is under way for a deleted assistant is bound by its versions.
LEMMA DeleteAssistantSound ==
    ASSUME AssistantIInv, NEW c \in Calls, DeleteAssistant(c)
    PROVE  AssistantIInv'
<1>1. PICK u \in Clients, a \in AssistantIds :
        /\ assistant' = [assistant EXCEPT ![a] = NoAssistant]
        /\ versions' = [versions EXCEPT ![a] = NoVersions]
        /\ stray' = IF \E d \in Calls : call[d].at \notin {"idle", "done"} /\ call[d].id = a
                    THEN stray \cup {a} ELSE stray
  BY DEF DeleteAssistant
<1>2. AssistantTypes /\ SetCall(c, Finished) /\ UNCHANGED <<compiled, agents, started, crashes>>
  BY DEF DeleteAssistant, AssistantIInv
<1>3. /\ call' \in [Calls -> {Resting, Finished} \cup Changes]
      /\ call'[c] = Finished
      /\ \A d \in Calls : d # c => call'[d] = call[d]
  BY <1>2 DEF AssistantTypes, SetCall
<1>4. /\ assistant' \in [AssistantIds -> {NoAssistant} \cup AssistantRows]
      /\ assistant'[a] = NoAssistant
      /\ \A b \in AssistantIds : b # a => assistant'[b] = assistant[b]
  BY <1>1, <1>2 DEF AssistantTypes
<1>5. /\ versions' = [b \in AssistantIds |-> versions'[b]]
      /\ versions'[a] = NoVersions
      /\ \A b \in AssistantIds : b # a => versions'[b] = versions[b]
  BY <1>1, <1>2 DEF AssistantTypes
<1>6. /\ Numbers(a)' = {} /\ NoVersions \in [{} -> Contents]
      /\ \A b \in AssistantIds : b # a => Numbers(b)' = Numbers(b)
  BY <1>5 DEF Numbers, NoVersions
<1>7. stray \subseteq stray' /\ stray' \subseteq AssistantIds
  BY <1>1, <1>2 DEF AssistantTypes
<1>8. AssistantTypes'
  <2>1. ASSUME NEW b \in AssistantIds
        PROVE  versions'[b] \in [Numbers(b)' -> Contents] /\ Numbers(b)' \subseteq 1..MaxVersions
    <3>1. CASE b = a
      BY <1>5, <1>6, <3>1
    <3>2. CASE b # a
      BY <1>2, <1>5, <1>6, <3>2 DEF AssistantTypes
    <3> QED BY <3>1, <3>2
  <2> QED BY <1>2, <1>3, <1>4, <1>5, <1>7, <2>1 DEF AssistantTypes
<1>9. ASSUME NEW b \in AssistantIds PROVE NewestExists(b)'
  BY <1>6 DEF AssistantIInv, NewestExists
<1>10. ASSUME NEW b \in AssistantIds \ stray' PROVE Dense(b)' /\ RowNamesVersion(b)'
  <2>1. CASE b = a
    <3>1. 0 \in 0..MaxVersions /\ 1..0 = {}
      BY AssistantConstants
    <3> QED BY <1>4, <1>6, <2>1, <3>1 DEF Dense, RowNamesVersion, Present
  <2>2. CASE b # a
    BY <1>4, <1>5, <1>6, <1>7, <2>2 DEF AssistantIInv, Dense, RowNamesVersion, Present
  <2> QED BY <2>1, <2>2
<1>11. ASSUME NEW d \in Calls PROVE ChangeSound(d)'
  <2>1. CASE d = c
    BY <1>3, <2>1, AssistantRowsDiffer DEF ChangeSound
  <2>2. CASE d # c
    <3>1. ChangeSound(d) /\ call'[d] = call[d]
      BY <1>3, <2>2 DEF AssistantIInv
    <3>2. call[d].at \in {"number", "apply"} => call[d].id \in AssistantIds
      BY <1>2, CallFields DEF Changes
    <3>3. CASE call[d].at \in {"number", "apply"} /\ call[d].id = a
      <4>1. a \in stray'
        BY <1>1, <3>3
      <4> QED BY <3>1, <3>3, <4>1 DEF ChangeSound
    <3>4. CASE call[d].at \in {"number", "apply"} /\ call[d].id # a
      BY <1>5, <1>6, <1>7, <3>1, <3>2, <3>4 DEF ChangeSound
    <3>5. CASE call[d].at \notin {"number", "apply"}
      BY <3>1, <3>5 DEF ChangeSound
    <3> QED BY <3>3, <3>4, <3>5
  <2> QED BY <2>1, <2>2
<1> QED BY <1>8, <1>9, <1>10, <1>11 DEF AssistantIInv

\* One step for each action.
LEMMA AssistantsStep == AssistantIInv /\ [NextAssistants]_asstVars => AssistantIInv'
<1> SUFFICES ASSUME AssistantIInv, [NextAssistants]_asstVars PROVE AssistantIInv'
  OBVIOUS
<1>1. CASE UNCHANGED asstVars
  BY <1>1 DEF asstVars, AssistantIInv, AssistantTypes, NewestExists, Dense, RowNamesVersion,
              ChangeSound, Numbers, Present
<1>2. CASE StartUp
  BY <1>2, StartUpSound
<1>3. CASE Restart \/ InvalidateGraphs \/ \E u \in Clients, a \in AssistantIds : InspectGraph(u, a)
  BY <1>3, ProcessGoesSound
<1>4. ASSUME NEW c \in Calls, CheckNew(c) \/ InsertAssistant(c) \/ InsertFirst(c)
      PROVE  AssistantIInv'
  BY <1>4, CheckNewSound, InsertAssistantSound, InsertFirstSound
<1>5. ASSUME NEW c \in Calls, ReadNewest(c) \/ InsertVersion(c) \/ ReadVersion(c)
      PROVE  AssistantIInv'
  BY <1>5, ReadNewestSound, InsertVersionSound, ReadVersionSound
<1>6. ASSUME NEW c \in Calls, ApplyVersion(c) \/ DeleteAssistant(c)
      PROVE  AssistantIInv'
  BY <1>6, ApplyVersionSound, DeleteAssistantSound
<1> QED BY <1>1, <1>2, <1>3, <1>4, <1>5, <1>6 DEF NextAssistants

(***************************************************************************)
(* For any assistants, clients, contents and requests, whichever           *)
(* transaction fails between a row and its version: the numbers of the     *)
(* versions leave none out, and the row has the graph, the configuration   *)
(* and the names of the version it names.  Of the metadata nothing is said *)
(* (services/assistant_service.py).                                        *)
(***************************************************************************)
THEOREM AssistantsSound == AssistantSpec => []AssistantInv
<1>1. InitAssistants => AssistantIInv
  BY AssistantsBegin
<1>2. AssistantIInv /\ [NextAssistants]_asstVars => AssistantIInv'
  BY AssistantsStep
<1>3. AssistantIInv => AssistantInv
  BY AssistantInvariantGives
<1> QED BY <1>1, <1>2, <1>3, PTL DEF AssistantSpec

\* The row goes back in one step only: another version is applied to it.
LEMMA BackStep ==
    ASSUME AssistantIInv, [NextAssistants]_asstVars,
           NEW a \in AssistantIds, NEW c \in Calls,
           SteppedBack(a), a \notin stray, call'[c] # call[c]
    PROVE  call[c].kind = "latest" \/ Newest(a) > call[c].number
<1>1. /\ AssistantTypes /\ Present(a) /\ assistant'[a] # NoAssistant
      /\ assistant'[a].version < assistant[a].version /\ assistant[a] \in AssistantRows
      /\ assistant'[a] # assistant[a]
  BY DEF SteppedBack, AssistantIInv, AssistantTypes, Present, AssistantRows
<1>2. PICK d \in Calls : ApplyVersion(d) \/ InsertAssistant(d)
  <2>1. assistant' # assistant /\ call' # call
    BY <1>1
  <2>2. ~UNCHANGED asstVars
    BY <2>1 DEF asstVars
  <2>3. ~StartUp /\ ~Restart /\ ~InvalidateGraphs
    BY <2>1 DEF StartUp, Restart, InvalidateGraphs
  <2>4. \A u \in Clients, b \in AssistantIds : ~InspectGraph(u, b)
    BY <2>1 DEF InspectGraph
  <2>5. ASSUME NEW d \in Calls, DeleteAssistant(d) PROVE FALSE
    <3>1. PICK b \in AssistantIds : assistant' = [assistant EXCEPT ![b] = NoAssistant]
      BY <2>5 DEF DeleteAssistant
    <3> QED BY <1>1, <3>1 DEF AssistantTypes
  <2>6. \A d \in Calls : /\ ~CheckNew(d) /\ ~InsertFirst(d) /\ ~ReadNewest(d)
                         /\ ~InsertVersion(d) /\ ~ReadVersion(d)
    BY <2>1 DEF CheckNew, InsertFirst, ReadNewest, InsertVersion, ReadVersion
  <2> QED BY <2>2, <2>3, <2>4, <2>5, <2>6 DEF NextAssistants
<1>3. call[d].at \in {"apply", "insert"} /\ call[d] \in Changes /\ call[d].id \in AssistantIds
  <2>1. call[d].at \in {"apply", "insert"}
    BY <1>2 DEF ApplyVersion, InsertAssistant
  <2> QED BY <1>1, <2>1, CallFields DEF Changes
<1>4. d = c
  BY <1>1, <1>2 DEF ApplyVersion, InsertAssistant, SetCall, AssistantTypes
<1>5. CASE InsertAssistant(d)
  <2>1. assistant' # assistant
    BY <1>1
  <2>2. PICK row : assistant' = [assistant EXCEPT ![call[d].id] = row]
    BY <1>5, <2>1 DEF InsertAssistant
  <2>3. ~Present(call[d].id)
    BY <1>5, <2>1 DEF InsertAssistant
  <2> QED BY <1>1, <1>3, <2>2, <2>3 DEF AssistantTypes
<1>6. CASE ApplyVersion(d)
  <2>1. assistant' = [assistant EXCEPT ![call[d].id] = Applied(@, call[d])]
    BY <1>1, <1>6 DEF ApplyVersion
  <2>2. call[d].id = a
    BY <1>1, <1>3, <2>1 DEF AssistantTypes
  <2>3. assistant'[a] = [assistant[a] EXCEPT !.version = call[d].number, !.content = call[d].content]
    BY <1>1, <2>1, <2>2 DEF AssistantTypes, Applied
  <2>4. assistant'[a].version = call[d].number
    <3>1. \A n, y : [assistant[a] EXCEPT !.version = n, !.content = y].version = n
      BY <1>1 DEF AssistantRows
    <3> QED BY <2>3, <3>1
  <2>5. /\ assistant[a].version \in 1..MaxVersions /\ call[d].number \in 1..MaxVersions
        /\ MaxVersions \in Nat
    BY <1>1, <1>3, AssistantConstants DEF AssistantRows, Changes
  <2>6. assistant[a].version > 1
    BY <1>1, <2>4, <2>5
  <2>7. assistant[a].version \in Numbers(a) /\ Numbers(a) \subseteq 1..MaxVersions
    BY <1>1, <2>6 DEF AssistantIInv, AssistantTypes, RowNamesVersion
  <2>8. \E n \in Numbers(a) : \A m \in Numbers(a) : m <= n
    BY <2>7 DEF AssistantIInv, NewestExists
  <2>9. Newest(a) \in Numbers(a) /\ assistant[a].version <= Newest(a)
    BY <2>7, <2>8 DEF Newest
  <2> QED BY <1>1, <1>4, <2>4, <2>5, <2>7, <2>9
<1> QED BY <1>2, <1>5, <1>6

(***************************************************************************)
(* A row goes back to an older version only because a request chose it, or *)
(* because an update was overtaken between its two transactions.           *)
(***************************************************************************)
THEOREM BackByChoiceOrRace == AssistantSpec => BackOnlyByChoiceOrRace
<1>1. InitAssistants => AssistantIInv
  BY AssistantsBegin
<1>2. AssistantIInv /\ [NextAssistants]_asstVars => AssistantIInv'
  BY AssistantsStep
<1>3. AssistantIInv /\ [NextAssistants]_asstVars =>
        [\A a \in AssistantIds, c \in Calls :
            SteppedBack(a) /\ a \notin stray /\ call'[c] # call[c] =>
               call[c].kind = "latest" \/ Newest(a) > call[c].number]_asstVars
  BY BackStep
<1> QED BY <1>1, <1>2, <1>3, PTL DEF AssistantSpec, BackOnlyByChoiceOrRace

---------------------------------------------------------------------------
(* Scheduled runs                                                          *)

Dates == 0..MaxTime + 1
CronRows == [is : {"scheduled"}, next : Dates, threaded : BOOLEAN]
CronRunRows ==
    [cron : CronIds, slot : Dates, server : Servers, next : Dates,
     status : {"pending", "running", "success", "error"}, kept : {"open", "kept", "lost"}]

CronTypes ==
    /\ now \in 0..MaxTime /\ cronFaults \in 0..MaxCronFaults /\ unheard \subseteq CronRuns
    /\ cron \in [CronIds -> {NotMade, Deleted, Orphaned} \cup CronRows]
    /\ run \in [CronRuns -> {NoRun} \cup CronRunRows]
    /\ job \in [CronRuns -> {"none", "find", "invoke", "ended"}]
    /\ tick = [s \in Servers |-> tick[s]]

\* A tick has loaded jobs that were due; it sleeps only when it holds no run.
TickSound(s) ==
    /\ tick[s] = [at |-> tick[s].at, todo |-> tick[s].todo, thread |-> tick[s].thread,
                  slot |-> tick[s].slot]
    /\ tick[s].at \in {"asleep", "each"} /\ tick[s].todo \subseteq CronIds
    /\ tick[s].at = "asleep" => tick[s].todo = {} /\ OpenOf(s) = {}
    /\ \A c \in tick[s].todo : tick[s].slot[c] \in Dates /\ tick[s].slot[c] <= now

Holds(r, c) == Used(r) /\ run[r].cron = c /\ run[r].kept # "lost"
Uncommitted(r) == Used(r) /\ run[r].kept = "open"

(***************************************************************************)
(* Dates only grow: a run is of a date before the job's next one, before   *)
(* the next one that an open run is about to write, and, if the same       *)
(* server has loaded the job again, before the date it has loaded.         *)
(***************************************************************************)
DatesGrow ==
    /\ \A r \in CronRuns : Used(r) => run[r].slot <= now
    /\ \A r \in CronRuns : Used(r) /\ run[r].kept = "kept" /\ Scheduled(run[r].cron) =>
          run[r].slot < cron[run[r].cron].next
    /\ \A o, r \in CronRuns : Uncommitted(o) /\ Holds(r, run[o].cron) => run[r].slot < run[o].next
    /\ \A s \in Servers, r \in CronRuns :
          Used(r) /\ run[r].cron \in tick[s].todo /\ run[r].server = s /\ run[r].kept # "lost" =>
             run[r].kept = "kept" /\ run[r].slot < tick[s].slot[run[r].cron]

\* A job has one open run at most: its row is locked.
OneOpen == \A o, r \in CronRuns : Uncommitted(o) /\ Uncommitted(r) /\ run[o].cron = run[r].cron => o = r

JobSound(r) ==
    /\ job[r] # "none" => Used(r)
    /\ Used(r) /\ job[r] = "ended" /\ r \notin unheard => run[r].status \in {"success", "error"}

CronIInv ==
    /\ CronTypes
    /\ \A s \in Servers : TickSound(s)
    /\ DatesGrow
    /\ OneOpen
    /\ OneRunPerDate
    /\ \A r \in CronRuns : JobSound(r)

---------------------------------------------------------------------------
LEMMA CronRowsDiffer ==
    /\ NotMade # Deleted /\ NotMade # Orphaned /\ Deleted # Orphaned
    /\ \A x \in CronRows : x \notin {NotMade, Deleted, Orphaned}
    /\ \A x \in CronRunRows : x # NoRun
<1>1. NotMade.is = "not made" /\ Deleted.is = "deleted" /\ Orphaned.is = "orphaned"
  BY DEF NotMade, Deleted, Orphaned
<1>2. \A x \in CronRows : x.is = "scheduled"
  BY DEF CronRows
<1>3. \A x \in CronRunRows : "kept" \in DOMAIN x
  BY DEF CronRunRows
<1>4. "kept" \notin DOMAIN NoRun
  BY DEF NoRun
<1> QED BY <1>1, <1>2, <1>3, <1>4

LEMMA AsleepFields ==
    /\ Asleep.at = "asleep" /\ Asleep.todo = {}
    /\ Asleep = [at |-> Asleep.at, todo |-> Asleep.todo, thread |-> Asleep.thread,
                 slot |-> Asleep.slot]
BY DEF Asleep

LEMMA RowOf ==
    ASSUME CronTypes
    PROVE  /\ \A c \in CronIds : Scheduled(c) => cron[c] \in CronRows
           /\ \A r \in CronRuns : Used(r) => run[r] \in CronRunRows
BY DEF CronTypes, Scheduled, Used

LEMMA CronInvariantGives == CronIInv => CronInv
<1> SUFFICES ASSUME CronIInv PROVE CronInv
  OBVIOUS
<1>1. CronTypeOK
  BY RowOf DEF CronIInv, CronTypes, TickSound, CronTypeOK, CronRows, CronRunRows, Dates
<1>2. EndIsWritten
  BY DEF CronIInv, JobSound, EndIsWritten
<1> QED BY <1>1, <1>2 DEF CronIInv, CronInv

LEMMA CronsBegin == InitCrons => CronIInv
<1> SUFFICES ASSUME InitCrons PROVE CronIInv
  OBVIOUS
<1>1. \A r \in CronRuns : ~Used(r)
  BY DEF InitCrons, Used
<1>2. CronTypes
  BY CronConstants DEF InitCrons, CronTypes
<1>3. \A s \in Servers : TickSound(s)
  BY <1>1, AsleepFields DEF InitCrons, TickSound, OpenOf
<1>4. DatesGrow /\ OneOpen /\ OneRunPerDate
  BY <1>1 DEF DatesGrow, OneOpen, OneRunPerDate, Uncommitted
<1>5. \A r \in CronRuns : JobSound(r)
  BY <1>1 DEF InitCrons, JobSound
<1> QED BY <1>2, <1>3, <1>4, <1>5 DEF CronIInv

---------------------------------------------------------------------------
\* Rows of runs are lost, or stay as they are.
LosesOnly ==
    \A r \in CronRuns :
        \/ run'[r] = run[r]
        \/ Used(r) /\ run'[r] = [run[r] EXCEPT !.kept = "lost"]

\* What is never written again in the row of a run.
FieldsKept ==
    /\ \A r \in CronRuns : Used(r)' <=> Used(r)
    /\ \A r \in CronRuns : Used(r) =>
          /\ run'[r].cron = run[r].cron /\ run'[r].slot = run[r].slot
          /\ run'[r].server = run[r].server /\ run'[r].next = run[r].next
          /\ run'[r].kept \in {run[r].kept, "lost"}

LEMMA WithoutLoses ==
    ASSUME CronTypes, NEW lost, lost \subseteq {r \in CronRuns : Used(r)}, run' = Without(lost)
    PROVE  /\ LosesOnly
           /\ \A r \in lost : run'[r] = [run[r] EXCEPT !.kept = "lost"]
BY DEF CronTypes, Without, LosesOnly

LEMMA LosesFields ==
    ASSUME CronTypes, LosesOnly, run' = [r \in CronRuns |-> run'[r]]
    PROVE  /\ run' \in [CronRuns -> {NoRun} \cup CronRunRows]
           /\ FieldsKept
           /\ \A r \in CronRuns : Used(r) => run'[r].status = run[r].status
<1>1. ASSUME NEW r \in CronRuns, Used(r)
      PROVE  /\ run'[r] \in CronRunRows /\ Used(r)'
             /\ run'[r].cron = run[r].cron /\ run'[r].slot = run[r].slot
             /\ run'[r].server = run[r].server /\ run'[r].next = run[r].next
             /\ run'[r].status = run[r].status
             /\ run'[r].kept \in {run[r].kept, "lost"}
  <2>1. run[r] \in CronRunRows
    BY <1>1, RowOf
  <2>2. \A x \in CronRunRows :
          LET y == [x EXCEPT !.kept = "lost"] IN
          /\ y \in CronRunRows /\ y.kept = "lost"
          /\ y.cron = x.cron /\ y.slot = x.slot /\ y.server = x.server /\ y.next = x.next
          /\ y.status = x.status
    BY DEF CronRunRows
  <2>3. run'[r] = run[r] \/ run'[r] = [run[r] EXCEPT !.kept = "lost"]
    BY DEF LosesOnly
  <2> QED BY <2>1, <2>2, <2>3, CronRowsDiffer, ZenonT(60) DEF Used
<1>2. ASSUME NEW r \in CronRuns, ~Used(r) PROVE ~Used(r)' /\ run'[r] = NoRun
  BY <1>2 DEF Used, LosesOnly
<1>3. \A r \in CronRuns : run'[r] \in {NoRun} \cup CronRunRows
  BY <1>1, <1>2
<1>4. run' \in [CronRuns -> {NoRun} \cup CronRunRows]
  BY <1>3
<1> QED BY <1>1, <1>2, <1>4 DEF FieldsKept

LEMMA WithoutIsFunction ==
    ASSUME NEW lost, run' = Without(lost)
    PROVE  run' = [r \in CronRuns |-> run'[r]]
BY DEF Without

\* Runs may be lost, time may pass, ticks may end without them; jobs may go, come
\* with a date to come, or forget their thread.
LEMMA LosingSound ==
    ASSUME CronIInv, CronTypes', FieldsKept, now <= now',
           \A c \in CronIds : Scheduled(c)' => \/ Scheduled(c) /\ cron'[c].next = cron[c].next
                                               \/ now < cron'[c].next,
           \A s \in Servers : \/ tick'[s] = tick[s]
                              \/ tick'[s] = Asleep /\ \A r \in OpenOf(s) : run'[r].kept = "lost",
           \A r \in CronRuns : JobSound(r)'
    PROVE  CronIInv'
<1>1. CronTypes
  BY DEF CronIInv
<1>2. cron' \in [CronIds -> {NotMade, Deleted, Orphaned} \cup CronRows]
  BY DEF CronTypes
<1>3. /\ \A r \in CronRuns : Used(r)' <=> Used(r)
      /\ \A r \in CronRuns : Used(r) =>
            /\ run'[r].cron = run[r].cron /\ run'[r].slot = run[r].slot
            /\ run'[r].server = run[r].server /\ run'[r].next = run[r].next
            /\ run'[r].kept \in {run[r].kept, "lost"}
  BY DEF FieldsKept
<1>4. /\ \A r \in CronRuns : Used(r) => run[r] \in CronRunRows
      /\ \A r \in CronRuns : Used(r) => run[r].cron \in CronIds /\ run[r].server \in Servers
                                        /\ run[r].slot \in Dates
  BY <1>1, RowOf DEF CronRunRows
<1>5. now \in Nat /\ now' \in Nat /\ Dates \subseteq Nat
  BY <1>1, CronConstants DEF CronTypes, Dates
<1>6. ASSUME NEW s \in Servers PROVE TickSound(s)'
  <2>1. TickSound(s)
    BY DEF CronIInv
  <2>2. OpenOf(s)' \subseteq OpenOf(s)
    BY <1>3 DEF OpenOf
  <2>3. CASE tick'[s] = tick[s]
    <3>1. ASSUME NEW c \in tick[s].todo PROVE tick[s].slot[c] <= now'
      <4>1. tick[s].slot[c] \in Nat /\ tick[s].slot[c] <= now
        BY <1>5, <2>1 DEF TickSound
      <4> QED BY <1>5, <4>1
    <3> QED BY <2>1, <2>2, <2>3, <3>1 DEF TickSound
  <2>4. CASE tick'[s] = Asleep /\ \A r \in OpenOf(s) : run'[r].kept = "lost"
    <3>1. OpenOf(s)' = {}
      BY <2>2, <2>4 DEF OpenOf
    <3> QED BY <2>4, <3>1, AsleepFields DEF TickSound
  <2> QED BY <2>3, <2>4
<1>7. DatesGrow'
  <2>1. ASSUME NEW r \in CronRuns, Used(r)' PROVE run'[r].slot <= now'
    <3>1. run[r].slot <= now /\ run[r].slot \in Nat /\ run'[r].slot = run[r].slot
      BY <1>3, <1>4, <1>5, <2>1 DEF CronIInv, DatesGrow
    <3> QED BY <1>5, <3>1
  <2>2. ASSUME NEW r \in CronRuns, Used(r)', run'[r].kept = "kept", Scheduled(run[r].cron)'
        PROVE  run'[r].slot < cron'[run[r].cron].next
    <3>1. /\ Used(r) /\ run[r].kept = "kept" /\ run'[r].slot = run[r].slot
          /\ run'[r].cron = run[r].cron /\ run[r].cron \in CronIds /\ run[r].slot \in Nat
      BY <1>3, <1>4, <1>5, <2>2
    <3>2. run[r].slot <= now
      BY <3>1 DEF CronIInv, DatesGrow
    <3>3. CASE Scheduled(run[r].cron) /\ cron'[run[r].cron].next = cron[run[r].cron].next
      BY <3>1, <3>3 DEF CronIInv, DatesGrow
    <3>4. CASE now < cron'[run[r].cron].next
      <4>1. cron'[run[r].cron].next \in Dates
        <5>1. cron'[run[r].cron] \in CronRows
          BY <1>2, <2>2, <3>1 DEF Scheduled
        <5> QED BY <5>1 DEF CronRows
      <4>2. \A i, j, k \in Nat : i <= j /\ j < k => i < k
        OBVIOUS
      <4>3. cron'[run[r].cron].next \in Nat
        BY <1>5, <4>1
      <4> QED BY <1>5, <3>1, <3>2, <3>4, <4>2, <4>3
    <3> QED BY <2>2, <3>1, <3>3, <3>4
  <2>3. ASSUME NEW o \in CronRuns, NEW r \in CronRuns, Uncommitted(o)', Holds(r, run[o].cron)'
        PROVE  run'[r].slot < run'[o].next
    <3>1. Uncommitted(o) /\ Holds(r, run[o].cron)
      BY <1>3, <2>3 DEF Uncommitted, Holds
    <3> QED BY <1>3, <3>1 DEF CronIInv, DatesGrow, Uncommitted, Holds
  <2>4. ASSUME NEW s \in Servers, NEW r \in CronRuns, Used(r)', run'[r].cron \in tick'[s].todo,
               run'[r].server = s, run'[r].kept # "lost"
        PROVE  run'[r].kept = "kept" /\ run'[r].slot < tick'[s].slot[run'[r].cron]
    <3>1. tick'[s] = tick[s]
      BY <2>4, AsleepFields
    <3>2. /\ Used(r) /\ run'[r].cron = run[r].cron /\ run[r].cron \in tick[s].todo
          /\ run[r].server = s /\ run[r].kept # "lost" /\ run'[r].kept = run[r].kept
          /\ run'[r].slot = run[r].slot
      BY <1>3, <2>4, <3>1
    <3>3. run[r].slot < tick[s].slot[run[r].cron] /\ run[r].kept = "kept"
      BY <3>2 DEF CronIInv, DatesGrow
    <3> QED BY <3>1, <3>2, <3>3
  <2>5. \A r \in CronRuns : Used(r)' => run'[r].cron = run[r].cron
    BY <1>3
  <2> QED BY <2>1, <2>2, <2>3, <2>4, <2>5 DEF DatesGrow, Uncommitted
<1>8. OneOpen'
  BY <1>3 DEF CronIInv, OneOpen, Uncommitted
<1>9. OneRunPerDate'
  BY <1>3 DEF CronIInv, OneRunPerDate
<1> QED BY <1>6, <1>7, <1>8, <1>9 DEF CronIInv

\* Without a change of runs, JobSound stays.
LEMMA JobsStay ==
    ASSUME CronIInv, LosesOnly, run' = [r \in CronRuns |-> run'[r]], UNCHANGED <<job, unheard>>
    PROVE  \A r \in CronRuns : JobSound(r)'
<1>1. /\ \A r \in CronRuns : Used(r)' <=> Used(r)
      /\ \A r \in CronRuns : Used(r) => run'[r].status = run[r].status
  BY LosesFields DEF CronIInv, FieldsKept
<1> QED BY <1>1 DEF CronIInv, JobSound

LEMMA FaultsCounted ==
    ASSUME CronTypes, CronFault \/ UNCHANGED cronFaults
    PROVE  cronFaults' \in 0..MaxCronFaults
BY CronConstants DEF CronTypes, CronFault

\* api/crons.py, the foreign keys, and the clock.
LEMMA CronEditsSound ==
    ASSUME CronIInv, \/ Pass
                     \/ \E c \in CronIds : CreateCron(c) \/ DeleteCron(c)
                                           \/ DeleteCronAssistant(c) \/ DeleteCronThread(c)
    PROVE  CronIInv'
<1>1. /\ CronTypes /\ now \in 0..MaxTime /\ now' \in 0..MaxTime /\ now <= now' /\ MaxTime \in Nat
      /\ UNCHANGED <<tick, job, unheard, cronFaults>>
  <2>1. CronTypes /\ now \in 0..MaxTime /\ MaxTime \in Nat
    BY CronConstants DEF CronIInv, CronTypes
  <2>2. now' = now \/ (now < MaxTime /\ now' = now + 1)
    BY DEF Pass, CreateCron, DeleteCron, DeleteCronAssistant, DeleteCronThread
  <2>3. UNCHANGED <<tick, job, unheard, cronFaults>>
    BY DEF Pass, CreateCron, DeleteCron, DeleteCronAssistant, DeleteCronThread
  <2> QED BY <2>1, <2>2, <2>3
<1>2. /\ LosesOnly /\ run' = [r \in CronRuns |-> run'[r]]
  <2>1. CASE run' = run
    BY <1>1, <2>1 DEF LosesOnly, CronTypes
  <2>2. ASSUME NEW c \in CronIds, run' = Without({r \in CronRuns : Used(r) /\ run[r].cron = c})
        PROVE  LosesOnly /\ run' = [r \in CronRuns |-> run'[r]]
    <3> DEFINE lost == {r \in CronRuns : Used(r) /\ run[r].cron = c}
    <3>1. lost \subseteq {r \in CronRuns : Used(r)} /\ run' = Without(lost)
      BY <2>2
    <3> HIDE DEF lost
    <3> QED BY <1>1, <3>1, WithoutLoses, WithoutIsFunction
  <2> QED BY <2>1, <2>2 DEF Pass, CreateCron, DeleteCron, DeleteCronAssistant, DeleteCronThread
<1> DEFINE NextKept == \A c \in CronIds : Scheduled(c)' =>
                  \/ Scheduled(c) /\ cron'[c].next = cron[c].next
                  \/ now < cron'[c].next
           CronTyped == cron' \in [CronIds -> {NotMade, Deleted, Orphaned} \cup CronRows]
<1>3. CronTyped /\ NextKept
  <2>1. CASE Pass
    BY <1>1, <2>1 DEF CronTypes, Scheduled, Pass
  <2>2. ASSUME NEW c \in CronIds, DeleteCron(c) \/ DeleteCronAssistant(c)
        PROVE  CronTyped /\ NextKept
    <3>1. PICK gone \in {Deleted, Orphaned} : cron' = [cron EXCEPT ![c] = gone]
      BY <2>2 DEF DeleteCron, DeleteCronAssistant
    <3>2. \A b \in CronIds : Scheduled(b)' => cron'[b] = cron[b]
      BY <1>1, <3>1 DEF CronTypes, Scheduled
    <3> QED BY <1>1, <3>1, <3>2 DEF CronTypes, Scheduled
  <2>3. ASSUME NEW c \in CronIds, CreateCron(c) PROVE CronTyped /\ NextKept
    <3> DEFINE row == [is |-> "scheduled", next |-> now + 1, threaded |-> c \in ForThreads]
    <3>1. cron' = [cron EXCEPT ![c] = row] /\ now < MaxTime
      BY <2>3 DEF CreateCron, NextDate
    <3>2. row \in CronRows /\ row.next = now + 1
      <4>1. now + 1 \in Dates
        BY <1>1 DEF Dates
      <4>2. \A b \in BOOLEAN : LET x == [is |-> "scheduled", next |-> now + 1, threaded |-> b]
                               IN  x \in CronRows /\ x.next = now + 1
        BY <4>1 DEF CronRows
      <4>3. (c \in ForThreads) \in BOOLEAN
        OBVIOUS
      <4> QED BY <4>2, <4>3, Zenon
    <3> HIDE DEF row
    <3>3. /\ cron' \in [CronIds -> {NotMade, Deleted, Orphaned} \cup CronRows] /\ cron'[c] = row
          /\ \A b \in CronIds : b # c => cron'[b] = cron[b]
      BY <1>1, <3>1, <3>2 DEF CronTypes
    <3>4. now < cron'[c].next
      BY <1>1, <3>2, <3>3
    <3> QED BY <3>3, <3>4 DEF Scheduled
  <2>4. ASSUME NEW c \in CronIds, DeleteCronThread(c) PROVE CronTyped /\ NextKept
    <3> DEFINE row == [cron[c] EXCEPT !.threaded = FALSE]
    <3>1. cron' = [cron EXCEPT ![c] = row] /\ Scheduled(c)
      BY <2>4 DEF DeleteCronThread
    <3>2. row \in CronRows /\ row.next = cron[c].next
      <4>1. cron[c] \in CronRows
        BY <1>1, <3>1, RowOf
      <4>2. \A b \in BOOLEAN : LET x == [cron[c] EXCEPT !.threaded = b]
                               IN  x \in CronRows /\ x.next = cron[c].next
        BY <4>1 DEF CronRows
      <4> QED BY <4>2, Zenon
    <3> HIDE DEF row
    <3>3. /\ cron' \in [CronIds -> {NotMade, Deleted, Orphaned} \cup CronRows] /\ cron'[c] = row
          /\ \A b \in CronIds : b # c => cron'[b] = cron[b]
      BY <1>1, <3>1, <3>2 DEF CronTypes
    <3> QED BY <3>1, <3>2, <3>3 DEF Scheduled
  <2> QED BY <2>1, <2>2, <2>3, <2>4
<1>4. CronTypes'
  <2>1. run' \in [CronRuns -> {NoRun} \cup CronRunRows]
    BY <1>1, <1>2, LosesFields
  <2> QED BY <1>1, <1>3, <2>1 DEF CronTypes
<1>5. \A r \in CronRuns : JobSound(r)'
  BY <1>1, <1>2, JobsStay
<1>6. \A s \in Servers : tick'[s] = tick[s]
  BY <1>1
<1>7. FieldsKept
  BY <1>1, <1>2, LosesFields
<1> QED BY <1>1, <1>3, <1>4, <1>5, <1>6, <1>7, LosingSound

---------------------------------------------------------------------------
\* A tick that fails, and a server that ends: the runs of the tick are lost.
LEMMA RollBackSound ==
    ASSUME CronIInv, NEW s \in Servers,
           FailTick(s) \/ BreakDeadlock(s) \/ CrashServer(s)
    PROVE  CronIInv'
<1>1. /\ CronTypes /\ run' = Without(OpenOf(s)) /\ SetTick(s, Asleep)
      /\ UNCHANGED <<now, cron>> /\ (CronFault \/ UNCHANGED cronFaults)
  BY DEF CronIInv, FailTick, BreakDeadlock, CrashServer, RollBack
<1>2. /\ LosesOnly /\ run' = [r \in CronRuns |-> run'[r]]
      /\ \A r \in OpenOf(s) : run'[r] = [run[r] EXCEPT !.kept = "lost"]
  BY <1>1, WithoutLoses, WithoutIsFunction DEF OpenOf
<1>3. \A r \in OpenOf(s) : run'[r].kept = "lost"
  <2>1. \A r \in OpenOf(s) : run[r] \in CronRunRows
    BY <1>1, RowOf DEF OpenOf
  <2>2. \A x \in CronRunRows : [x EXCEPT !.kept = "lost"].kept = "lost"
    BY DEF CronRunRows
  <2>3. ASSUME NEW r \in OpenOf(s) PROVE run'[r].kept = "lost"
    <3>1. run'[r] = [run[r] EXCEPT !.kept = "lost"] /\ run[r] \in CronRunRows
      BY <1>2, <2>1
    <3> QED BY <2>2, <3>1
  <2> QED BY <2>3
<1>4. /\ run' \in [CronRuns -> {NoRun} \cup CronRunRows]
      /\ \A r \in CronRuns : Used(r)' <=> Used(r)
      /\ \A r \in CronRuns : Used(r) => run'[r].status = run[r].status
      /\ FieldsKept
  BY <1>1, <1>2, LosesFields DEF FieldsKept
<1>5. /\ job' \in [CronRuns -> {"none", "find", "invoke", "ended"}] /\ unheard' \subseteq CronRuns
      /\ \A r \in CronRuns : JobSound(r)'
  <2>1. CASE UNCHANGED <<job, unheard>>
    BY <1>1, <1>2, <2>1, JobsStay DEF CronTypes
  <2>2. CASE CrashServer(s)
    <3> DEFINE here == {r \in CronRuns : Used(r) /\ run[r].server = s /\ job[r] # "ended"}
    <3>1. /\ job' = [r \in CronRuns |-> IF r \in here THEN "ended" ELSE job[r]]
          /\ unheard' = unheard \cup here
      BY <2>2 DEF CrashServer
    <3>2. here \subseteq CronRuns /\ \A r \in here : Used(r)
      OBVIOUS
    <3> HIDE DEF here
    <3>3. job' \in [CronRuns -> {"none", "find", "invoke", "ended"}] /\ unheard' \subseteq CronRuns
      BY <1>1, <3>1, <3>2 DEF CronTypes
    <3> QED BY <1>4, <3>1, <3>2, <3>3 DEF CronIInv, JobSound
  <2> QED BY <2>1, <2>2 DEF FailTick, BreakDeadlock, RollBack
<1>6. CronTypes'
  <2>1. cronFaults' \in 0..MaxCronFaults
    BY <1>1, FaultsCounted
  <2>2. tick' = [q \in Servers |-> tick'[q]]
    BY <1>1 DEF CronTypes, SetTick
  <2> QED BY <1>1, <1>4, <1>5, <2>1, <2>2 DEF CronTypes
<1>7. \A q \in Servers : \/ tick'[q] = tick[q]
                         \/ tick'[q] = Asleep /\ \A r \in OpenOf(q) : run'[r].kept = "lost"
  BY <1>1, <1>3 DEF CronTypes, SetTick
<1>8. now <= now'
  BY <1>1, CronConstants DEF CronTypes
<1>9. \A c \in CronIds : Scheduled(c)' => Scheduled(c) /\ cron'[c].next = cron[c].next
  BY <1>1 DEF Scheduled
<1> QED BY <1>4, <1>5, <1>6, <1>7, <1>8, <1>9, LosingSound

\* Of the jobs that are due, the committed runs are of earlier dates.
LEMMA LoadDueSound ==
    ASSUME CronIInv, NEW s \in Servers, LoadDue(s)
    PROVE  CronIInv'
<1> DEFINE due == {c \in CronIds : IsDue(c)}
           slots == [c \in due |-> cron[c].next]
           new == [at |-> "each", todo |-> due, thread |-> {c \in due : cron[c].threaded},
                   slot |-> slots]
<1>1. /\ CronTypes /\ tick[s].at = "asleep" /\ SetTick(s, new) /\ TickSound(s)
      /\ UNCHANGED <<now, cron, run, job, unheard, cronFaults>>
  BY DEF LoadDue, CronIInv
<1>2. /\ new.at = "each" /\ new.todo = due /\ new.slot = slots
      /\ new = [at |-> new.at, todo |-> new.todo, thread |-> new.thread, slot |-> new.slot]
      /\ due \subseteq CronIds /\ \A c \in due : slots[c] = cron[c].next
  OBVIOUS
<1>3. \A c \in due : Scheduled(c) /\ cron[c].next \in Dates /\ cron[c].next <= now
  BY <1>1, RowOf DEF IsDue, CronRows
<1> HIDE DEF due, slots, new
<1>4. /\ tick' = [q \in Servers |-> tick'[q]] /\ tick'[s] = new
      /\ \A q \in Servers : q # s => tick'[q] = tick[q]
  BY <1>1 DEF CronTypes, SetTick
<1>5. CronTypes'
  BY <1>1, <1>4 DEF CronTypes
<1>6. /\ \A r \in CronRuns : Used(r)' <=> Used(r)
      /\ \A q \in Servers : OpenOf(q)' = OpenOf(q)
      /\ \A c \in CronIds : Scheduled(c)' <=> Scheduled(c)
  BY <1>1 DEF Used, OpenOf, Scheduled
<1>7. ASSUME NEW q \in Servers PROVE TickSound(q)'
  <2>1. CASE q = s
    BY <1>1, <1>2, <1>3, <1>4, <2>1 DEF TickSound
  <2>2. CASE q # s
    BY <1>1, <1>4, <1>6, <2>2 DEF CronIInv, TickSound
  <2> QED BY <2>1, <2>2
<1>8. DatesGrow'
  <2>1. ASSUME NEW q \in Servers, NEW r \in CronRuns, Used(r), run[r].cron \in tick'[q].todo,
               run[r].server = q, run[r].kept # "lost"
        PROVE  run[r].kept = "kept" /\ run[r].slot < tick'[q].slot[run[r].cron]
    <3>1. CASE q # s
      BY <1>4, <2>1, <3>1 DEF CronIInv, DatesGrow
    <3>2. CASE q = s
      <4>1. run[r].cron \in due /\ r \notin OpenOf(s)
        BY <1>1, <1>2, <1>4, <2>1, <3>2 DEF TickSound
      <4>2. run[r].kept = "kept"
        <5>1. run[r].kept \in {"open", "kept", "lost"}
          BY <1>1, <2>1, RowOf DEF CronRunRows
        <5> QED BY <2>1, <3>2, <4>1, <5>1 DEF OpenOf
      <4>3. run[r].slot < cron[run[r].cron].next
        BY <1>3, <2>1, <4>1, <4>2 DEF CronIInv, DatesGrow
      <4> QED BY <1>2, <1>4, <3>2, <4>1, <4>2, <4>3
    <3> QED BY <3>1, <3>2
  <2>2. /\ \A r \in CronRuns : Used(r)' => run'[r].slot <= now'
        /\ \A r \in CronRuns : Used(r)' /\ run'[r].kept = "kept" /\ Scheduled(run[r].cron)' =>
              run'[r].slot < cron'[run[r].cron].next
        /\ \A o, r \in CronRuns : Uncommitted(o)' /\ Holds(r, run[o].cron)' => run'[r].slot < run'[o].next
    BY <1>1 DEF CronIInv, DatesGrow, Uncommitted, Holds, Used, Scheduled
  <2> QED BY <1>1, <1>6, <2>1, <2>2 DEF DatesGrow
<1>9. OneOpen' /\ OneRunPerDate' /\ \A r \in CronRuns : JobSound(r)'
  BY <1>1, <1>6 DEF CronIInv, OneOpen, Uncommitted, OneRunPerDate, JobSound
<1> QED BY <1>5, <1>7, <1>8, <1>9 DEF CronIInv

---------------------------------------------------------------------------
\* A run of a later date than all others of the job; nobody else has the row.
LEMMA ExecuteSound ==
    ASSUME CronIInv, NEW s \in Servers, NEW c \in tick[s].todo, NEW r \in CronRuns,
           ExecuteCron(s, c, r)
    PROVE  CronIInv'
<1> DEFINE slot == tick[s].slot[c]
           new == [cron |-> c, slot |-> slot, server |-> s,
                   next |-> NextDate(now), status |-> "pending", kept |-> "open"]
           rest == [tick[s] EXCEPT !.todo = @ \ {c}]
<1>1. /\ CronTypes /\ TickSound(s) /\ ~Used(r) /\ LockedBy(c) \subseteq {s}
      /\ run' = [run EXCEPT ![r] = new] /\ job' = [job EXCEPT ![r] = "find"]
      /\ SetTick(s, rest) /\ UNCHANGED <<now, cron, unheard, cronFaults>>
  BY DEF ExecuteCron, CronIInv, Used
<1>2. /\ c \in CronIds /\ slot \in Dates /\ slot <= now /\ tick[s].at = "each"
  BY <1>1 DEF TickSound
<1>3. now \in 0..MaxTime /\ MaxTime \in Nat /\ Dates \subseteq Nat /\ now + 1 \in Dates
  BY <1>1, CronConstants DEF CronTypes, Dates
<1>4. /\ new \in CronRunRows
      /\ new.cron = c /\ new.slot = slot /\ new.server = s /\ new.next = now + 1
      /\ new.kept = "open" /\ new.status = "pending"
  BY <1>2, <1>3 DEF CronRunRows, NextDate
<1>5. /\ rest.at = "each" /\ rest.todo = tick[s].todo \ {c} /\ rest.slot = tick[s].slot
      /\ rest = [at |-> rest.at, todo |-> rest.todo, thread |-> rest.thread, slot |-> rest.slot]
  <2>1. \A a, t, h, l : LET x == [at |-> a, todo |-> t, thread |-> h, slot |-> l]
                            y == [x EXCEPT !.todo = @ \ {c}]
                        IN  /\ y.at = a /\ y.todo = t \ {c} /\ y.slot = l
                            /\ y = [at |-> y.at, todo |-> y.todo, thread |-> y.thread, slot |-> y.slot]
    OBVIOUS
  <2> QED BY <1>1, <1>2, <2>1 DEF TickSound
<1> HIDE DEF new, rest, slot
<1>6. /\ run' \in [CronRuns -> {NoRun} \cup CronRunRows] /\ run'[r] = new
      /\ \A q \in CronRuns : q # r => run'[q] = run[q]
      /\ job' \in [CronRuns -> {"none", "find", "invoke", "ended"}] /\ job'[r] = "find"
      /\ \A q \in CronRuns : q # r => job'[q] = job[q]
      /\ tick' = [q \in Servers |-> tick'[q]] /\ tick'[s] = rest
      /\ \A q \in Servers : q # s => tick'[q] = tick[q]
  BY <1>1, <1>4 DEF CronTypes, SetTick
<1>7. CronTypes'
  BY <1>1, <1>6 DEF CronTypes
<1>8. Used(r)' /\ \A q \in CronRuns : q # r => (Used(q)' <=> Used(q))
  BY <1>4, <1>6, CronRowsDiffer DEF Used
<1>9. \A o \in CronRuns : ~(Uncommitted(o) /\ run[o].cron = c)
  <2>1. ASSUME NEW o \in CronRuns, Uncommitted(o), run[o].cron = c PROVE FALSE
    <3>1. run[o].server \in Servers
      BY <1>1, <2>1, RowOf DEF Uncommitted, CronRunRows
    <3>2. run[o].server \in LockedBy(c)
      BY <2>1, <3>1 DEF LockedBy, OpenOf, Uncommitted
    <3>3. run[o].server = s
      BY <1>1, <3>2
    <3>4. run[o].kept = "kept"
      BY <2>1, <3>3 DEF CronIInv, DatesGrow, Uncommitted
    <3> QED BY <2>1, <3>4 DEF Uncommitted
  <2> QED BY <2>1
<1>10. \A q \in CronRuns : Used(q) => run[q].slot <= now /\ run[q].slot \in Nat
  BY <1>1, <1>3, RowOf DEF CronIInv, DatesGrow, CronRunRows
<1>11. ASSUME NEW q \in Servers PROVE TickSound(q)'
  <2>1. TickSound(q)
    BY DEF CronIInv
  <2>2. CASE q = s
    BY <1>1, <1>2, <1>5, <1>6, <2>2 DEF TickSound
  <2>3. CASE q # s
    <3>1. OpenOf(q)' = OpenOf(q)
      <4>1. \A p \in CronRuns : Used(p)' /\ run'[p].kept = "open" /\ run'[p].server = q
                                  <=> Used(p) /\ run[p].kept = "open" /\ run[p].server = q
        BY <1>1, <1>4, <1>6, <1>8, <2>3
      <4> QED BY <4>1 DEF OpenOf
    <3> QED BY <1>1, <1>6, <2>1, <2>3, <3>1 DEF TickSound
  <2> QED BY <2>2, <2>3
<1>12. \A q \in CronRuns : Used(q)' => run'[q].slot <= now'
  BY <1>1, <1>2, <1>4, <1>6, <1>8, <1>10
<1>13. \A q \in CronRuns : Used(q)' /\ run'[q].kept = "kept" /\ Scheduled(run'[q].cron) =>
          run'[q].slot < cron[run'[q].cron].next
  BY <1>4, <1>6, <1>8 DEF CronIInv, DatesGrow
<1>14. ASSUME NEW o \in CronRuns, NEW q \in CronRuns, Uncommitted(o)', Used(q)',
              run'[q].cron = run'[o].cron, run'[q].kept # "lost"
       PROVE  run'[q].slot < run'[o].next
  <2>1. CASE o = r
    <3>1. run'[q].slot \in Nat /\ run'[q].slot <= now
      BY <1>1, <1>2, <1>3, <1>4, <1>6, <1>8, <1>10, <1>14
    <3> QED BY <1>3, <1>4, <1>6, <2>1, <3>1
  <2>2. CASE o # r
    <3>1. Uncommitted(o) /\ run'[o] = run[o]
      BY <1>6, <1>8, <1>14, <2>2 DEF Uncommitted
    <3>2. q # r
      BY <1>4, <1>6, <1>9, <1>14, <3>1
    <3> QED BY <1>6, <1>8, <1>14, <3>1, <3>2 DEF CronIInv, DatesGrow, Holds
  <2> QED BY <2>1, <2>2
<1>15. ASSUME NEW p \in Servers, NEW q \in CronRuns, Used(q)', run'[q].cron \in tick'[p].todo,
              run'[q].server = p, run'[q].kept # "lost"
       PROVE  run'[q].kept = "kept" /\ run'[q].slot < tick'[p].slot[run'[q].cron]
  <2>1. q # r
    BY <1>4, <1>5, <1>6, <1>15
  <2>2. Used(q) /\ run'[q] = run[q]
    BY <1>6, <1>8, <1>15, <2>1
  <2>3. tick'[p].todo \subseteq tick[p].todo /\ tick'[p].slot = tick[p].slot
    BY <1>5, <1>6
  <2> QED BY <1>15, <2>2, <2>3 DEF CronIInv, DatesGrow
<1>16. DatesGrow'
  BY <1>1, <1>12, <1>13, <1>14, <1>15 DEF DatesGrow, Uncommitted, Holds, Scheduled
<1>17. OneOpen'
  BY <1>4, <1>6, <1>8, <1>9 DEF CronIInv, OneOpen, Uncommitted
<1>18. OneRunPerDate'
  <2>1. ASSUME NEW q \in CronRuns, q # r, Used(q), run[q].cron = c, run[q].slot = slot,
               run[q].server = s, run[q].kept # "lost"
        PROVE  FALSE
    <3>1. run[q].slot < slot
      BY <2>1 DEF CronIInv, DatesGrow, slot
    <3> QED BY <1>10, <2>1, <3>1
  <2> QED BY <1>4, <1>6, <1>8, <2>1 DEF CronIInv, OneRunPerDate
<1>19. \A q \in CronRuns : JobSound(q)'
  BY <1>1, <1>6, <1>8 DEF CronIInv, JobSound
<1> QED BY <1>7, <1>11, <1>16, <1>17, <1>18, <1>19 DEF CronIInv

---------------------------------------------------------------------------
\* The dates that are written are later than those of all runs of their jobs.
LEMMA CommitSound ==
    ASSUME CronIInv, NEW s \in Servers, CommitTick(s)
    PROVE  CronIInv'
<1> DEFINE chosen(c) == CHOOSE r \in OpenOf(s) : run[r].cron = c
<1>1. /\ CronTypes /\ SetTick(s, Asleep) /\ UNCHANGED <<now, job, unheard, cronFaults>>
      /\ run' = [r \in CronRuns |-> IF r \in OpenOf(s) THEN [run[r] EXCEPT !.kept = "kept"] ELSE run[r]]
      /\ cron' = [c \in CronIds |-> IF Scheduled(c) /\ LockedBy(c) = {s}
                                    THEN [cron[c] EXCEPT !.next = run[chosen(c)].next]
                                    ELSE cron[c]]
  BY DEF CommitTick, CronIInv
<1>2. \A r \in OpenOf(s) : r \in CronRuns /\ Uncommitted(r) /\ run[r].server = s /\ run[r] \in CronRunRows
  BY <1>1, RowOf DEF OpenOf, Uncommitted
<1>3. ASSUME NEW r \in CronRuns
      PROVE  /\ r \in OpenOf(s) => run'[r] \in CronRunRows /\ run'[r].kept = "kept"
             /\ r \notin OpenOf(s) => run'[r] = run[r]
             /\ Used(r)' <=> Used(r)
             /\ Used(r) => /\ run'[r] \in CronRunRows
                           /\ run'[r].cron = run[r].cron /\ run'[r].slot = run[r].slot
                           /\ run'[r].server = run[r].server /\ run'[r].next = run[r].next
                           /\ run'[r].status = run[r].status
  <2>1. \A x \in CronRunRows :
          LET y == [x EXCEPT !.kept = "kept"] IN
          /\ y \in CronRunRows /\ y.kept = "kept"
          /\ y.cron = x.cron /\ y.slot = x.slot /\ y.server = x.server /\ y.next = x.next
          /\ y.status = x.status
    BY DEF CronRunRows
  <2>2. CASE r \in OpenOf(s)
    <3>1. run'[r] = [run[r] EXCEPT !.kept = "kept"] /\ run[r] \in CronRunRows /\ Used(r)
      BY <1>1, <1>2, <2>2 DEF Uncommitted
    <3>2. /\ run'[r] \in CronRunRows /\ run'[r].kept = "kept"
          /\ run'[r].cron = run[r].cron /\ run'[r].slot = run[r].slot
          /\ run'[r].server = run[r].server /\ run'[r].next = run[r].next
          /\ run'[r].status = run[r].status
      BY <2>1, <3>1
    <3> QED BY <2>2, <3>1, <3>2, CronRowsDiffer DEF Used
  <2>3. CASE r \notin OpenOf(s)
    <3>1. run'[r] = run[r] /\ (Used(r) => run[r] \in CronRunRows)
      BY <1>1, <2>3, RowOf
    <3> QED BY <2>3, <3>1 DEF Used
  <2> QED BY <2>2, <2>3
<1>4. \A r \in OpenOf(s) : LockedBy(run[r].cron) = {s}
  <2>1. ASSUME NEW r \in OpenOf(s) PROVE LockedBy(run[r].cron) = {s}
    <3>1. s \in LockedBy(run[r].cron)
      BY <2>1 DEF LockedBy
    <3>2. ASSUME NEW q \in LockedBy(run[r].cron) PROVE q = s
      <4>1. PICK o \in OpenOf(q) : run[o].cron = run[r].cron
        BY <3>2 DEF LockedBy
      <4>2. o \in CronRuns /\ Uncommitted(o) /\ run[o].server = q
        BY DEF OpenOf, Uncommitted
      <4>3. o = r
        BY <1>2, <4>1, <4>2 DEF CronIInv, OneOpen
      <4> QED BY <1>2, <4>2, <4>3
    <3> QED BY <3>1, <3>2
  <2> QED BY <2>1
<1>5. ASSUME NEW c \in CronIds, LockedBy(c) = {s}
      PROVE  chosen(c) \in OpenOf(s) /\ run[chosen(c)].cron = c /\ run[chosen(c)].next \in Dates
  <2>1. \E r \in OpenOf(s) : run[r].cron = c
    <3>1. s \in LockedBy(c)
      BY <1>5
    <3> QED BY <3>1 DEF LockedBy
  <2>2. chosen(c) \in OpenOf(s) /\ run[chosen(c)].cron = c
    BY <2>1
  <2> HIDE DEF chosen
  <2> QED BY <1>2, <2>2 DEF CronRunRows
<1> HIDE DEF chosen
<1>6. ASSUME NEW c \in CronIds, Scheduled(c), LockedBy(c) = {s}
      PROVE  cron'[c] \in CronRows /\ cron'[c].next = run[chosen(c)].next
  <2>1. \A x \in CronRows, d \in Dates : LET y == [x EXCEPT !.next = d] IN y \in CronRows /\ y.next = d
    BY DEF CronRows
  <2>2. cron[c] \in CronRows
    BY <1>1, <1>6, RowOf
  <2>3. cron'[c] = [cron[c] EXCEPT !.next = run[chosen(c)].next]
    BY <1>1, <1>6
  <2> QED BY <1>5, <1>6, <2>1, <2>2, <2>3
<1>7. \A c \in CronIds : ~(Scheduled(c) /\ LockedBy(c) = {s}) => cron'[c] = cron[c]
  BY <1>1
<1>8. \A c \in CronIds : Scheduled(c)' <=> Scheduled(c)
  <2>1. ASSUME NEW c \in CronIds PROVE Scheduled(c)' <=> Scheduled(c)
    <3>1. CASE Scheduled(c) /\ LockedBy(c) = {s}
      BY <1>6, <3>1, CronRowsDiffer DEF Scheduled
    <3>2. CASE ~(Scheduled(c) /\ LockedBy(c) = {s})
      BY <1>7, <3>2 DEF Scheduled
    <3> QED BY <3>1, <3>2
  <2> QED BY <2>1
<1>9. /\ tick' = [q \in Servers |-> tick'[q]] /\ tick'[s] = Asleep
      /\ \A q \in Servers : q # s => tick'[q] = tick[q]
  BY <1>1 DEF CronTypes, SetTick
<1>10. CronTypes'
  <2>1. run' \in [CronRuns -> {NoRun} \cup CronRunRows]
    <3>1. \A r \in CronRuns : run'[r] \in {NoRun} \cup CronRunRows
      <4>1. ASSUME NEW r \in CronRuns PROVE run'[r] \in {NoRun} \cup CronRunRows
        <5>1. CASE Used(r)
          BY <1>3, <5>1
        <5>2. CASE ~Used(r)
          BY <1>3, <5>2 DEF Used
        <5> QED BY <5>1, <5>2
      <4> QED BY <4>1
    <3> QED BY <1>1, <3>1
  <2>2. cron' \in [CronIds -> {NotMade, Deleted, Orphaned} \cup CronRows]
    <3>1. \A c \in CronIds : cron'[c] \in {NotMade, Deleted, Orphaned} \cup CronRows
      BY <1>1, <1>6, <1>7 DEF CronTypes
    <3>2. cron' = [c \in CronIds |-> cron'[c]]
      BY <1>1
    <3> QED BY <3>1, <3>2
  <2> QED BY <1>1, <1>9, <2>1, <2>2 DEF CronTypes
<1>11. /\ OpenOf(s)' = {}
       /\ \A q \in Servers : q # s => OpenOf(q)' = OpenOf(q)
  <2>1. OpenOf(s)' = {}
    <3>1. ASSUME NEW r \in CronRuns, Used(r)', run'[r].kept = "open", run'[r].server = s
          PROVE  FALSE
      <4>1. r \notin OpenOf(s) /\ Used(r)
        BY <1>3, <3>1
      <4>2. run'[r] = run[r]
        BY <1>3, <4>1
      <4> QED BY <3>1, <4>1, <4>2 DEF OpenOf
    <3> QED BY <3>1 DEF OpenOf
  <2>2. ASSUME NEW q \in Servers, q # s PROVE OpenOf(q)' = OpenOf(q)
    <3>1. ASSUME NEW r \in CronRuns
          PROVE  Used(r)' /\ run'[r].kept = "open" /\ run'[r].server = q
                 <=> Used(r) /\ run[r].kept = "open" /\ run[r].server = q
      <4>1. CASE r \in OpenOf(s)
        BY <1>2, <1>3, <2>2, <4>1
      <4>2. CASE r \notin OpenOf(s)
        BY <1>3, <4>2
      <4> QED BY <4>1, <4>2
    <3> QED BY <3>1 DEF OpenOf
  <2> QED BY <2>1, <2>2
<1>12. ASSUME NEW q \in Servers PROVE TickSound(q)'
  <2>1. CASE q = s
    BY <1>9, <1>11, <2>1, AsleepFields DEF TickSound
  <2>2. CASE q # s
    BY <1>1, <1>9, <1>11, <2>2 DEF CronIInv, TickSound
  <2> QED BY <2>1, <2>2
\* A run that is not lost afterwards was not lost before.
<1>13. \A r \in CronRuns : Used(r)' /\ run'[r].kept # "lost" => Used(r) /\ run[r].kept # "lost"
  BY <1>2, <1>3 DEF Uncommitted
<1>14. ASSUME NEW r \in CronRuns, Used(r)', run'[r].kept = "kept", Scheduled(run[r].cron)'
       PROVE  run'[r].slot < cron'[run'[r].cron].next
  <2>1. /\ Used(r) /\ run[r].kept # "lost" /\ run[r].cron \in CronIds
        /\ run'[r].cron = run[r].cron /\ run'[r].slot = run[r].slot
    BY <1>1, <1>3, <1>13, <1>14, RowOf DEF CronRunRows
  <2>2. PICK c \in CronIds : c = run[r].cron
    BY <2>1
  <2>3. Scheduled(c) /\ run'[r].cron = c
    <3>1. Scheduled(c)'
      BY <1>14, <2>1, <2>2 DEF Scheduled
    <3> QED BY <1>8, <2>1, <2>2, <3>1
  <2>4. CASE LockedBy(c) = {s}
    <3>1. PICK o \in CronRuns : o = chosen(c)
      BY <1>2, <1>5, <2>4
    <3>2. Uncommitted(o) /\ run[o].cron = c
      BY <1>2, <1>5, <2>4, <3>1
    <3>3. run[r].slot < run[o].next
      BY <2>1, <2>2, <3>2 DEF CronIInv, DatesGrow, Holds
    <3>4. cron'[c].next = run[o].next
      BY <1>6, <2>3, <2>4, <3>1
    <3> QED BY <2>1, <2>2, <3>3, <3>4
  <2>5. CASE LockedBy(c) # {s}
    <3>1. r \notin OpenOf(s)
      BY <1>4, <2>2, <2>5
    <3>2. run[r].kept = "kept" /\ cron'[c] = cron[c]
      BY <1>3, <1>7, <1>14, <2>5, <3>1
    <3>3. run[r].slot < cron[c].next
      BY <2>1, <2>2, <2>3, <3>2 DEF CronIInv, DatesGrow
    <3> QED BY <2>1, <2>2, <3>2, <3>3
  <2> QED BY <2>4, <2>5
<1>15. DatesGrow'
  <2>1. \A r \in CronRuns : Used(r)' => run'[r].slot <= now'
    BY <1>1, <1>3 DEF CronIInv, DatesGrow
  <2>2. ASSUME NEW o \in CronRuns, NEW r \in CronRuns, Uncommitted(o)', Used(r)',
               run'[r].cron = run'[o].cron, run'[r].kept # "lost"
        PROVE  run'[r].slot < run'[o].next
    <3>1. o \notin OpenOf(s) /\ Used(o)
      BY <1>3, <2>2 DEF Uncommitted
    <3>2. run'[o] = run[o]
      BY <1>3, <3>1
    <3>3. Uncommitted(o) /\ Used(r) /\ run[r].kept # "lost" /\ run[r].cron = run[o].cron
      BY <1>3, <1>13, <2>2, <3>1, <3>2 DEF Uncommitted
    <3>4. run[r].slot < run[o].next
      BY <3>3 DEF CronIInv, DatesGrow, Holds
    <3> QED BY <1>3, <3>2, <3>3, <3>4
  <2>3. ASSUME NEW q \in Servers, NEW r \in CronRuns, Used(r)', run'[r].cron \in tick'[q].todo,
               run'[r].server = q, run'[r].kept # "lost"
        PROVE  run'[r].kept = "kept" /\ run'[r].slot < tick'[q].slot[run'[r].cron]
    <3>1. q # s
      BY <1>9, <2>3, AsleepFields
    <3>2. r \notin OpenOf(s)
      BY <1>2, <1>3, <2>3, <3>1
    <3>3. run'[r] = run[r] /\ Used(r) /\ tick'[q] = tick[q]
      BY <1>3, <1>9, <2>3, <3>1, <3>2
    <3> QED BY <2>3, <3>3 DEF CronIInv, DatesGrow
  <2>4. \A r \in CronRuns : Used(r)' /\ run'[r].kept = "kept" /\ Scheduled(run[r].cron)' =>
           run'[r].slot < cron'[run'[r].cron].next
    BY <1>14
  <2>5. \A o, r \in CronRuns : Uncommitted(o)' /\ Holds(r, run[o].cron)' => run'[r].slot < run'[o].next
    BY <2>2 DEF Holds
  <2>6. \A q \in Servers, r \in CronRuns :
          Used(r)' /\ run'[r].cron \in tick'[q].todo /\ run'[r].server = q /\ run'[r].kept # "lost" =>
             run'[r].kept = "kept" /\ run'[r].slot < tick'[q].slot[run'[r].cron]
    BY <2>3
  <2> QED BY <2>1, <2>4, <2>5, <2>6 DEF DatesGrow
<1>16. OneOpen'
  <2>1. \A r \in CronRuns : Uncommitted(r)' => Uncommitted(r) /\ run'[r].cron = run[r].cron
    <3>1. ASSUME NEW r \in CronRuns, Uncommitted(r)' PROVE Uncommitted(r) /\ run'[r].cron = run[r].cron
      <4>1. r \notin OpenOf(s) /\ Used(r)
        BY <1>3, <3>1 DEF Uncommitted
      <4> QED BY <1>3, <3>1, <4>1 DEF Uncommitted
    <3> QED BY <3>1
  <2> QED BY <2>1 DEF CronIInv, OneOpen
<1>17. OneRunPerDate'
  <2>1. \A q, r \in CronRuns :
          q # r /\ Used(q) /\ Used(r) /\ run[q].cron = run[r].cron /\ run[q].slot = run[r].slot
          /\ run[q].server = run[r].server => run[q].kept = "lost" \/ run[r].kept = "lost"
    BY DEF CronIInv, OneRunPerDate
  <2>2. \A r \in CronRuns : Used(r) /\ run[r].kept = "lost" => run'[r].kept = "lost"
    BY <1>2, <1>3 DEF Uncommitted
  <2> QED BY <1>3, <2>1, <2>2 DEF OneRunPerDate
<1>18. \A r \in CronRuns : JobSound(r)'
  BY <1>1, <1>3 DEF CronIInv, JobSound
<1> QED BY <1>10, <1>12, <1>15, <1>16, <1>17, <1>18 DEF CronIInv

---------------------------------------------------------------------------
\* The task of a run writes only the status of its row, or is not heard.
LEMMA WriteKeeps ==
    ASSUME CronTypes, NEW r \in CronRuns, Used(r),
           NEW status \in {"pending", "running", "success", "error"}, Write(r, status)
    PROVE  /\ run' \in [CronRuns -> {NoRun} \cup CronRunRows] /\ FieldsKept
           /\ \A q \in CronRuns : q # r => run'[q] = run[q] /\ (q \in unheard' <=> q \in unheard)
           /\ r \in unheard' \/ run'[r].status = status
           /\ unheard' \subseteq CronRuns
           /\ CronFault \/ UNCHANGED cronFaults
<1>1. run[r] \in CronRunRows /\ run \in [CronRuns -> {NoRun} \cup CronRunRows] /\ unheard \subseteq CronRuns
  BY RowOf DEF CronTypes
<1>2. CASE run' = run /\ unheard' = unheard \cup {r} /\ (CronFault \/ UNCHANGED cronFaults)
  <2>1. FieldsKept
    BY <1>1, <1>2 DEF FieldsKept, Used
  <2> QED BY <1>1, <1>2, <2>1
<1>3. CASE run' = [run EXCEPT ![r].status = status] /\ unheard' = unheard \ {r} /\ UNCHANGED cronFaults
  <2> DEFINE row == [run[r] EXCEPT !.status = status]
  <2>1. /\ row \in CronRunRows /\ row.status = status
        /\ row.cron = run[r].cron /\ row.slot = run[r].slot /\ row.server = run[r].server
        /\ row.next = run[r].next /\ row.kept = run[r].kept
    BY <1>1 DEF CronRunRows
  <2>2. run' = [run EXCEPT ![r] = row]
    BY <1>3
  <2> HIDE DEF row
  <2>3. /\ run' \in [CronRuns -> {NoRun} \cup CronRunRows] /\ run'[r] = row
        /\ \A q \in CronRuns : q # r => run'[q] = run[q]
    BY <1>1, <2>1, <2>2
  <2>4. FieldsKept
    BY <2>1, <2>3, CronRowsDiffer DEF FieldsKept, Used
  <2> QED BY <1>1, <1>3, <2>1, <2>3, <2>4
<1> QED BY <1>2, <1>3 DEF Write

\* _execute_run_async
LEMMA TaskSound ==
    ASSUME CronIInv, NEW r \in CronRuns, FindGraph(r) \/ Invoke(r)
    PROVE  CronIInv'
<1>1. /\ CronTypes /\ now <= now /\ UNCHANGED <<now, cron, tick>> /\ Used(r)
  <2>1. CronTypes /\ UNCHANGED <<now, cron, tick>> /\ job[r] # "none"
    BY DEF CronIInv, FindGraph, Invoke
  <2>2. now \in Nat /\ Used(r)
    BY <2>1, CronConstants DEF CronIInv, CronTypes, JobSound
  <2> QED BY <2>1, <2>2
<1>2. PICK status \in {"pending", "running", "success", "error"}, at \in {"invoke", "ended"} :
         /\ Write(r, status) /\ job' = [job EXCEPT ![r] = at]
         /\ at = "ended" => status \in {"success", "error"}
  <2>1. CASE FindGraph(r)
    BY <2>1 DEF FindGraph
  <2>2. CASE Invoke(r)
    BY <2>2 DEF Invoke
  <2> QED BY <2>1, <2>2
<1>3. /\ run' \in [CronRuns -> {NoRun} \cup CronRunRows] /\ FieldsKept
      /\ \A q \in CronRuns : q # r => run'[q] = run[q] /\ (q \in unheard' <=> q \in unheard)
      /\ r \in unheard' \/ run'[r].status = status
      /\ unheard' \subseteq CronRuns
      /\ CronFault \/ UNCHANGED cronFaults
  BY <1>1, <1>2, WriteKeeps
<1>4. /\ job' \in [CronRuns -> {"none", "find", "invoke", "ended"}] /\ job'[r] = at
      /\ \A q \in CronRuns : q # r => job'[q] = job[q]
  BY <1>1, <1>2 DEF CronTypes
<1>5. cronFaults' \in 0..MaxCronFaults
  BY <1>1, <1>3, FaultsCounted
<1>6. CronTypes'
  BY <1>1, <1>3, <1>4, <1>5 DEF CronTypes
<1>7. \A q \in CronRuns : Used(q)' <=> Used(q)
  BY <1>3 DEF FieldsKept
<1>8. ASSUME NEW q \in CronRuns PROVE JobSound(q)'
  <2>1. CASE q = r
    BY <1>1, <1>2, <1>3, <1>4, <1>7, <2>1 DEF JobSound
  <2>2. CASE q # r
    BY <1>3, <1>4, <1>7, <2>2 DEF CronIInv, JobSound
  <2> QED BY <2>1, <2>2
<1>9. \A c \in CronIds : Scheduled(c)' => Scheduled(c) /\ cron'[c].next = cron[c].next
  BY <1>1 DEF Scheduled
<1>10. now <= now' /\ \A s \in Servers : tick'[s] = tick[s]
  BY <1>1
<1> QED BY <1>3, <1>6, <1>8, <1>9, <1>10, LosingSound

LEMMA CronsStep == CronIInv /\ [NextCrons]_cronVars => CronIInv'
<1> SUFFICES ASSUME CronIInv, [NextCrons]_cronVars PROVE CronIInv'
  OBVIOUS
<1>1. CASE Pass \/ \E c \in CronIds : CreateCron(c) \/ DeleteCron(c)
                                       \/ DeleteCronAssistant(c) \/ DeleteCronThread(c)
  BY <1>1, CronEditsSound
<1>2. ASSUME NEW s \in Servers, FailTick(s) \/ BreakDeadlock(s) \/ CrashServer(s) PROVE CronIInv'
  BY <1>2, RollBackSound
<1>3. ASSUME NEW s \in Servers, LoadDue(s) PROVE CronIInv'
  BY <1>3, LoadDueSound
<1>4. ASSUME NEW s \in Servers, CommitTick(s) PROVE CronIInv'
  BY <1>4, CommitSound
<1>5. ASSUME NEW s \in Servers, NEW c \in tick[s].todo, NEW r \in CronRuns, ExecuteCron(s, c, r)
      PROVE  CronIInv'
  BY <1>5, ExecuteSound
<1>6. ASSUME NEW r \in CronRuns, FindGraph(r) \/ Invoke(r) PROVE CronIInv'
  BY <1>6, TaskSound
<1>7. CASE UNCHANGED cronVars
  BY <1>7 DEF cronVars, CronIInv, CronTypes, TickSound, OpenOf, DatesGrow, Uncommitted, Holds, OneOpen,
              OneRunPerDate, JobSound, Used, Scheduled
<1> QED BY <1>1, <1>2, <1>3, <1>4, <1>5, <1>6, <1>7 DEF NextCrons

(***************************************************************************)
(* Under every schedule of ticks, faults and edits, a server makes at most *)
(* one run of a date that is not rolled back or gone with its thread, and  *)
(* a run whose task has ended has the status of its end unless a write of  *)
(* the task was lost: _process_due_crons loads a job again only after the  *)
(* commit that has moved its date past those of all its runs.              *)
(***************************************************************************)
THEOREM CronsSound == CronSpec => []CronInv
<1>1. CronSpec => []CronIInv
  BY CronsBegin, CronsStep, PTL DEF CronSpec
<1> QED BY <1>1, CronInvariantGives, PTL

---------------------------------------------------------------------------
(* The history of a thread                                                 *)

Kinds == {"plain", "other", "sub", "broken"}
Browsers ==
    [pc : {"idle", "reading", "refused", "done", "answered"}, space : {"root", "sub"},
     at : Nat, filter : BOOLEAN, before : Nat, got : Seq(Nat), newest : Nat,
     blind : BOOLEAN, mistaken : BOOLEAN,
     answer : [id : Nat, what : {"none", "refused", "empty", "state"}]]

HistoryTypes ==
    /\ threadRow \in {"present", "deleted"} /\ graphOf \in {"none", "known", "missing"}
    /\ checkpoints \in Seq(Kinds) /\ Len(checkpoints) <= MaxCheckpoints
    /\ browser \in Browsers

\* What the client has is what it asked for, and converted, the newest first; the
\* cursor is the last of it.
ShownSound ==
    LET got == browser.got IN
    /\ browser.newest <= Len(checkpoints)
    /\ \A i \in 1..Len(got) :
          /\ got[i] \in Asked /\ Converts(got[i]) /\ got[i] <= browser.newest
          /\ browser.before <= got[i]
    /\ \A i, j \in 1..Len(got) : i < j => got[i] > got[j]
    /\ got # <<>> => browser.before # 0 /\ browser.before \in ToSet(got)

\* It has everything from the newest of the first page down to the cursor.
NothingSkipped ==
    \A i \in Asked : i <= browser.newest /\ Converts(i) /\ i >= browser.before
                       => i \in ToSet(browser.got)

HistoryIInv ==
    /\ HistoryTypes
    /\ graphOf = "none" => checkpoints = <<>>
    /\ ShownSound
    /\ browser.pc = "idle" => browser.got = <<>>
    /\ browser.pc \in {"idle", "reading"} =>
          /\ NothingSkipped /\ ~browser.blind /\ ~browser.mistaken
          /\ browser.got = <<>> => browser.newest = 0 /\ browser.before = 0
    /\ browser.pc # "answered" => browser.answer = NoAnswer
    /\ HistoryTells /\ ShownIsReadable

(***************************************************************************)
(* In a set of numbers of checkpoints there is one for every rank, counted *)
(* from the greatest, and the greater of two has the smaller rank.         *)
(***************************************************************************)
Rank(set, i) == Cardinality({j \in set : j > i})

LEMMA RanksAbove ==
    ASSUME NEW set, IsFiniteSet(set), \A i \in set : i \in Nat
    PROVE  /\ Cardinality(set) \in Nat
           /\ Cardinality(set) = 0 <=> set = {}
           /\ \A i \in set : Rank(set, i) \in 0..(Cardinality(set) - 1)
           /\ \A i, j \in set : i < j => Rank(set, j) < Rank(set, i)
           /\ \A k \in 1..Cardinality(set) : \E i \in set : Rank(set, i) = k - 1
<1> DEFINE Newer == {p \in set \X set : p[1] > p[2]}
           size == Cardinality(set)
<1>1. \A i, j : <<i, j>> \in Newer <=> i \in set /\ j \in set /\ i > j
  OBVIOUS
<1>2. \A i \in set : RankIn(set, Newer, i) = Rank(set, i)
  <2> SUFFICES ASSUME NEW i \in set PROVE RankIn(set, Newer, i) = Rank(set, i)
    OBVIOUS
  <2>1. {j \in set : <<j, i>> \in Newer} = {j \in set : j > i}
    BY <1>1
  <2> QED BY <2>1 DEF RankIn, Rank
<1> HIDE DEF Newer
<1>3. /\ \A i, j \in set : <<i, j>> \in Newer => <<j, i>> \notin Newer
      /\ \A i, j \in set : i # j => <<i, j>> \in Newer \/ <<j, i>> \in Newer
      /\ \A i, j, k \in set : <<i, j>> \in Newer /\ <<j, k>> \in Newer => <<i, k>> \in Newer
  BY <1>1
<1>4. /\ size \in Nat /\ (size = 0 <=> set = {})
      /\ \A i \in set : RankIn(set, Newer, i) \in 0..(size - 1)
      /\ \A i, j \in set : <<i, j>> \in Newer => RankIn(set, Newer, i) < RankIn(set, Newer, j)
      /\ \A k \in 1..size : \E i \in set : RankIn(set, Newer, i) = k - 1
  BY <1>3, RanksIn
<1> HIDE DEF size
<1>5. \A i, j \in set : i < j => <<j, i>> \in Newer
  BY <1>1
<1>6. /\ \A i \in set : Rank(set, i) \in 0..(size - 1)
      /\ \A i, j \in set : i < j => Rank(set, j) < Rank(set, i)
      /\ \A k \in 1..size : \E i \in set : Rank(set, i) = k - 1
  BY <1>2, <1>4, <1>5
<1>7. Cardinality(set) \in Nat /\ (Cardinality(set) = 0 <=> set = {})
  BY <1>4 DEF size
<1> QED BY <1>6, <1>7 DEF size

LEMMA Ranks ==
    ASSUME NEW n \in Nat, NEW set, set \subseteq 1..n
    PROVE  /\ Cardinality(set) \in Nat
           /\ Cardinality(set) = 0 <=> set = {}
           /\ \A i \in set : Rank(set, i) \in 0..(Cardinality(set) - 1)
           /\ \A i, j \in set : i < j => Rank(set, j) < Rank(set, i)
           /\ \A k \in 1..Cardinality(set) : \E i \in set : Rank(set, i) = k - 1
<1>1. IsFiniteSet(set)
  <2>1. IsFiniteSet(1..n)
    BY FS_Interval
  <2> QED BY <2>1, FS_Subset
<1>2. \A i \in set : i \in Nat
  OBVIOUS
<1> QED BY <1>1, <1>2, RanksAbove

\* The states of a page: all that can be converted, the newest first.
LEMMA ConvertedIsSorted ==
    ASSUME NEW n \in Nat, NEW set, set \subseteq 1..n
    PROVE  LET states == Converted(set) IN
           /\ states \in Seq(Nat)
           /\ \A k \in 1..Len(states) : states[k] \in set /\ Converts(states[k])
           /\ \A i \in set : Converts(i) => \E k \in 1..Len(states) : states[k] = i
           /\ \A k, m \in 1..Len(states) : k < m => states[k] > states[m]
           /\ states = <<>> <=> \A i \in set : ~Converts(i)
<1> DEFINE kept == {i \in set : Converts(i)}
           size == Cardinality(kept)
           states == [k \in 1..size |-> CHOOSE i \in kept : Rank(kept, i) = k - 1]
<1>1. Converted(set) = states
  BY DEF Converted, Rank
<1>2. kept \subseteq 1..n
  OBVIOUS
<1> HIDE DEF kept
<1>3. /\ size \in Nat /\ (size = 0 <=> kept = {})
      /\ \A i \in kept : Rank(kept, i) \in 0..(size - 1)
      /\ \A i, j \in kept : i < j => Rank(kept, j) < Rank(kept, i)
      /\ \A k \in 1..size : \E i \in kept : Rank(kept, i) = k - 1
  BY <1>2, Ranks
<1> HIDE DEF size
<1>4. \A k \in 1..size : states[k] \in kept /\ Rank(kept, states[k]) = k - 1
  BY <1>3
<1>5. states \in Seq(Nat) /\ Len(states) = size /\ (states = <<>> <=> size = 0)
  <2>1. kept \subseteq Nat
    BY <1>2
  <2>2. states \in [1..size -> Nat]
    BY <1>4, <2>1
  <2>3. DOMAIN states = 1..size
    OBVIOUS
  <2> HIDE DEF states
  <2> QED BY <1>3, <2>2, <2>3
<1>6. ASSUME NEW i \in kept PROVE \E k \in 1..size : states[k] = i
  <2>1. Rank(kept, i) \in 0..(size - 1) /\ Rank(kept, i) + 1 \in 1..size
    BY <1>3, <1>6
  <2> DEFINE k == Rank(kept, i) + 1
  <2>2. states[k] \in kept /\ Rank(kept, states[k]) = Rank(kept, i)
    BY <1>4, <2>1
  <2>3. ~(states[k] < i) /\ ~(i < states[k])
    BY <1>3, <2>1, <2>2
  <2> QED BY <1>2, <2>1, <2>2, <2>3
<1>7. ASSUME NEW k \in 1..size, NEW m \in 1..size, k < m PROVE states[k] > states[m]
  <2>1. /\ states[k] \in kept /\ states[m] \in kept
        /\ Rank(kept, states[k]) = k - 1 /\ Rank(kept, states[m]) = m - 1
    <3> HIDE DEF states
    <3> QED BY <1>4
  <2> HIDE DEF states
  <2>2. kept \subseteq Nat
    BY <1>2
  <2>3. states[k] \in Nat /\ states[m] \in Nat
    BY <2>1, <2>2
  <2>4. states[k] # states[m] /\ ~(states[k] < states[m])
    BY <1>3, <1>7, <2>1
  <2> QED BY <2>3, <2>4
<1>8. \A i : i \in kept <=> i \in set /\ Converts(i)
  BY DEF kept
<1> HIDE DEF states
<1>9. states = <<>> <=> \A i \in set : ~Converts(i)
  BY <1>3, <1>5, <1>8
<1> QED BY <1>1, <1>4, <1>5, <1>6, <1>7, <1>8, <1>9

\* A page has no gap from its newest down to any of it, and is empty only at the end.
LEMMA PageHasNoGap ==
    ASSUME NEW n \in Nat, NEW set, set \subseteq 1..n, NEW before \in Nat, HistoryLimit \in Nat \ {0}
    PROVE  LET page == NewestBefore(set, before)
               older == {i \in set : before = 0 \/ i < before}
           IN  /\ page \subseteq older
               /\ page = {} => older = {}
               /\ \A i \in older, j \in page : i >= j => i \in page
<1> DEFINE older == {i \in set : before = 0 \/ i < before}
<1>1. older \subseteq 1..n
  OBVIOUS
<1>2. NewestBefore(set, before) = {i \in older : Rank(older, i) < HistoryLimit}
  BY DEF NewestBefore, Rank
<1> HIDE DEF older
<1>3. /\ Cardinality(older) \in Nat /\ (Cardinality(older) = 0 <=> older = {})
      /\ \A i \in older : Rank(older, i) \in 0..(Cardinality(older) - 1)
      /\ \A i, j \in older : i < j => Rank(older, j) < Rank(older, i)
      /\ \A k \in 1..Cardinality(older) : \E i \in older : Rank(older, i) = k - 1
  BY <1>1, Ranks
<1>4. ASSUME older # {} PROVE \E i \in older : Rank(older, i) < HistoryLimit
  <2>1. PICK i \in older : Rank(older, i) = 1 - 1
    BY <1>3, <1>4
  <2> QED BY <2>1
<1>5. ASSUME NEW i \in older, NEW j \in older, Rank(older, j) < HistoryLimit, i >= j
      PROVE  Rank(older, i) < HistoryLimit
  BY <1>1, <1>3, <1>5
<1>6. NewestBefore(set, before) = {} => older = {}
  BY <1>2, <1>4
<1>7. \A i \in older, j \in NewestBefore(set, before) : i >= j => i \in NewestBefore(set, before)
  BY <1>2, <1>5
<1> QED BY <1>2, <1>6, <1>7 DEF older

LEMMA HistoryInvariantGives == HistoryIInv => HistoryInv
<1> SUFFICES ASSUME HistoryIInv PROVE HistoryInv
  OBVIOUS
<1>1. ToSet(browser.got) \subseteq Checkpoints
  BY DEF HistoryIInv, HistoryTypes, Browsers, ShownSound, Asked, Found, ToSet, Checkpoints
<1>2. HistoryTypeOK
  BY <1>1 DEF HistoryIInv, HistoryTypes, Browsers, HistoryTypeOK
<1> QED BY <1>2 DEF HistoryIInv, HistoryInv

LEMMA HistoryBegins == InitHistory => HistoryIInv
<1> SUFFICES ASSUME InitHistory PROVE HistoryIInv
  OBVIOUS
<1> USE HistoryAssumption DEF InitHistory
<1>1. HistoryTypes
  BY DEF HistoryTypes, Browsers, NoAnswer, Answer, Kinds
<1>2. ShownSound /\ NothingSkipped /\ HistoryTells /\ ShownIsReadable
  BY DEF ShownSound, NothingSkipped, HistoryTells, ShownIsReadable, NoAnswer, Answer, Asked, Found,
         Checkpoints
<1> QED BY <1>1, <1>2 DEF HistoryIInv

\* A new checkpoint is newer than all the client has read of; a graph that gets lost
\* and a row that goes are no checkpoints.
LEMMA ThreadMoves ==
    ASSUME HistoryIInv, AddCheckpoint \/ DeleteThreadRow \/ LoseGraph
    PROVE  HistoryIInv'
<1> USE HistoryAssumption
<1>1. /\ browser' = browser /\ Open
      /\ HistoryTypes'
      /\ graphOf' = "none" => checkpoints' = <<>>
      /\ Len(checkpoints) <= Len(checkpoints')
      /\ \A i \in Checkpoints : checkpoints'[i] = checkpoints[i]
  <2>1. CASE AddCheckpoint
    <3>1. PICK kind \in Kinds : checkpoints' = Append(checkpoints, kind)
      BY <2>1 DEF AddCheckpoint, Kinds
    <3>2. /\ checkpoints' \in Seq(Kinds) /\ Len(checkpoints') = Len(checkpoints) + 1
          /\ \A i \in 1..Len(checkpoints) : checkpoints'[i] = checkpoints[i]
      BY <3>1 DEF HistoryIInv, HistoryTypes
    <3> QED BY <2>1, <3>2 DEF AddCheckpoint, HistoryIInv, HistoryTypes, Checkpoints
  <2>2. CASE DeleteThreadRow \/ LoseGraph
    BY <2>2 DEF DeleteThreadRow, LoseGraph, HistoryIInv, HistoryTypes
  <2> QED BY <2>1, <2>2
<1>2. Len(checkpoints) \in Nat /\ Len(checkpoints') \in Nat /\ browser \in Browsers
  BY <1>1 DEF HistoryIInv, HistoryTypes
<1>3. browser.pc # "answered" /\ browser.answer = NoAnswer
  BY <1>1 DEF Open, HistoryIInv
<1>4. \A i \in Checkpoints : i \in Checkpoints' /\ (Converts(i)' <=> Converts(i))
                              /\ (i \in Asked' <=> i \in Asked)
  BY <1>1, <1>2 DEF Checkpoints, Converts, Asked, Found
<1>5. \A i \in Asked' : i <= browser.newest => i \in Asked
  <2>1. Asked' \subseteq Checkpoints' /\ browser.newest <= Len(checkpoints) /\ browser.newest \in Nat
    BY <1>2 DEF Asked, Found, HistoryIInv, ShownSound, Browsers
  <2>2. \A i \in Checkpoints' : i <= browser.newest => i \in Checkpoints
    BY <1>2, <2>1 DEF Checkpoints
  <2> QED BY <1>4, <2>1, <2>2
<1>6. Asked \subseteq Checkpoints
  BY DEF Asked, Found
<1>7. ShownSound'
  <2>1. browser.newest <= Len(checkpoints')
    BY <1>1, <1>2 DEF HistoryIInv, ShownSound, Browsers
  <2> QED BY <1>1, <1>4, <1>6, <2>1 DEF HistoryIInv, ShownSound
<1>8. NothingSkipped => NothingSkipped'
  BY <1>1, <1>4, <1>5, <1>6 DEF NothingSkipped
<1>9. HistoryTells'
  BY <1>1, <1>4, <1>5, <1>6 DEF HistoryIInv, HistoryTells
<1>10. ShownIsReadable'
  BY <1>1, <1>3 DEF ShownIsReadable, NoAnswer, Answer
<1> QED BY <1>1, <1>3, <1>7, <1>8, <1>9, <1>10 DEF HistoryIInv, NoAnswer, Answer

\* A sequence behind another.
LEMMA Joined ==
    ASSUME NEW set, NEW s \in Seq(set), NEW t \in Seq(set)
    PROVE  /\ s \o t \in Seq(set) /\ Len(s \o t) = Len(s) + Len(t)
           /\ \A k \in 1..Len(s \o t) :
                 IF k <= Len(s) THEN k \in 1..Len(s) /\ (s \o t)[k] = s[k]
                 ELSE k - Len(s) \in 1..Len(t) /\ (s \o t)[k] = t[k - Len(s)]
           /\ ToSet(s \o t) = ToSet(s) \cup ToSet(t)
<1> DEFINE all == s \o t
<1>1. all \in Seq(set) /\ Len(all) = Len(s) + Len(t)
  BY ConcatProperties
<1>2. Len(s) \in Nat /\ Len(t) \in Nat
  OBVIOUS
<1>3. \A k \in 1..(Len(s) + Len(t)) : all[k] = IF k <= Len(s) THEN s[k] ELSE t[k - Len(s)]
  BY ConcatProperties
<1> HIDE DEF all
<1>4. \A k \in 1..Len(all) :
         IF k <= Len(s) THEN k \in 1..Len(s) /\ all[k] = s[k]
         ELSE k - Len(s) \in 1..Len(t) /\ all[k] = t[k - Len(s)]
  BY <1>1, <1>2, <1>3
<1>5. DOMAIN all = 1..Len(all) /\ DOMAIN s = 1..Len(s) /\ DOMAIN t = 1..Len(t)
  BY <1>1
<1>6. ToSet(all) \subseteq ToSet(s) \cup ToSet(t)
  BY <1>4, <1>5 DEF ToSet
<1>7. ASSUME NEW k \in 1..Len(s) PROVE s[k] \in ToSet(all)
  <2>1. k \in 1..Len(all) /\ all[k] = s[k]
    BY <1>1, <1>2, <1>3
  <2> QED BY <1>5, <2>1 DEF ToSet
<1>8. ASSUME NEW k \in 1..Len(t) PROVE t[k] \in ToSet(all)
  <2> DEFINE m == Len(s) + k
  <2>1. m \in 1..Len(all) /\ ~(m <= Len(s)) /\ m - Len(s) = k
    BY <1>1, <1>2
  <2>2. all[m] = t[k]
    BY <1>4, <2>1
  <2> QED BY <1>5, <2>1, <2>2 DEF ToSet
<1>9. ToSet(s) \cup ToSet(t) \subseteq ToSet(all)
  BY <1>5, <1>7, <1>8 DEF ToSet
<1> QED BY <1>1, <1>4, <1>6, <1>9 DEF all

\* A request is made while nothing has been read yet, or ends without a page.
LEMMA RequestSound ==
    ASSUME HistoryIInv, NEW at \in 0..MaxCheckpoints, PostHistory(at)
    PROVE  HistoryIInv'
<1> USE HistoryAssumption
<1>1. /\ browser \in Browsers /\ browser.pc = "idle" /\ browser.got = <<>>
      /\ browser.newest = 0 /\ browser.before = 0 /\ ~browser.blind /\ ~browser.mistaken
      /\ browser.answer = NoAnswer
      /\ UNCHANGED <<threadRow, graphOf, checkpoints>>
  BY ZenonT(60) DEF PostHistory, HistoryIInv, HistoryTypes
<1>2. /\ browser' \in Browsers /\ browser'.pc \in {"reading", "refused"}
      /\ browser'.got = <<>> /\ browser'.newest = 0 /\ browser'.before = 0
      /\ browser'.blind = browser.blind /\ browser'.mistaken = browser.mistaken
      /\ browser'.answer = NoAnswer
  <2>1. at \in Nat
    OBVIOUS
  <2>2. ASSUME NEW space \in {"root", "sub"}, NEW filter \in BOOLEAN,
               browser' = [browser EXCEPT !.pc = "reading", !.space = space, !.at = at,
                                          !.filter = filter]
        PROVE  /\ browser' \in Browsers /\ browser'.pc \in {"reading", "refused"}
               /\ browser'.got = <<>> /\ browser'.newest = 0 /\ browser'.before = 0
               /\ browser'.blind = browser.blind /\ browser'.mistaken = browser.mistaken
               /\ browser'.answer = NoAnswer
    BY <1>1, <2>1, <2>2 DEF Browsers
  <2>3. CASE browser' = [browser EXCEPT !.pc = "refused"]
    BY <1>1, <2>3 DEF Browsers
  <2> QED BY <2>2, <2>3 DEF PostHistory
<1>3. HistoryTypes'
  BY <1>1, <1>2 DEF HistoryIInv, HistoryTypes
<1>4. ShownSound'
  BY <1>2, <1>3 DEF ShownSound, HistoryTypes
<1>5. NothingSkipped'
  BY <1>2 DEF NothingSkipped, Asked, Found, Checkpoints
<1>6. HistoryTells' /\ ShownIsReadable'
  BY <1>2 DEF HistoryTells, ShownIsReadable, NoAnswer, Answer
<1> QED BY <1>1, <1>2, <1>3, <1>4, <1>5, <1>6 DEF HistoryIInv

LEMMA NothingRead ==
    ASSUME HistoryIInv, Unreadable \/ ReadFails
    PROVE  HistoryIInv'
<1> USE HistoryAssumption
<1>1. /\ browser \in Browsers /\ browser.pc = "reading" /\ browser.answer = NoAnswer
      /\ UNCHANGED <<threadRow, graphOf, checkpoints>>
  BY DEF Unreadable, ReadFails, HistoryIInv, HistoryTypes
<1>2. /\ browser' \in Browsers
      /\ \/ browser'.pc = "refused"
         \/ browser'.pc = "done" /\ (graphOf = "none" \/ browser'.mistaken)
      /\ browser'.space = browser.space /\ browser'.at = browser.at
      /\ browser'.filter = browser.filter /\ browser'.got = browser.got
      /\ browser'.newest = browser.newest /\ browser'.before = browser.before
      /\ browser'.answer = NoAnswer
  BY <1>1, ZenonT(60) DEF Unreadable, ReadFails, Browsers
<1>3. HistoryTypes' /\ ShownSound' /\ Asked' = Asked /\ Checkpoints' = Checkpoints
  BY <1>1, <1>2 DEF HistoryIInv, HistoryTypes, ShownSound, Asked, Found, Converts, Checkpoints
<1>4. graphOf = "none" => Asked = {}
  BY DEF HistoryIInv, Asked, Found, Checkpoints
<1>5. HistoryTells'
  BY <1>1, <1>2, <1>3, <1>4 DEF HistoryIInv, HistoryTells
<1>6. ShownIsReadable'
  BY <1>2 DEF ShownIsReadable, NoAnswer, Answer
<1> QED BY <1>1, <1>2, <1>3, <1>5, <1>6 DEF HistoryIInv

LEMMA AskStateSound ==
    ASSUME HistoryIInv, AskState
    PROVE  HistoryIInv'
<1> USE HistoryAssumption
<1>0. PICK i \in 0..MaxCheckpoints :
        \E answer \in IF i = 0 THEN StateAtPost(i) ELSE StateAt(i) :
           browser' = [browser EXCEPT !.pc = "answered", !.answer = answer]
  BY DEF AskState
<1>1. PICK answer \in IF i = 0 THEN StateAtPost(i) ELSE StateAt(i) :
        /\ browser.pc = "done"
        /\ browser' = [browser EXCEPT !.pc = "answered", !.answer = answer]
        /\ UNCHANGED <<threadRow, graphOf, checkpoints>>
  BY <1>0 DEF AskState
<1>2. /\ answer \in [id : Nat, what : {"none", "refused", "empty", "state"}]
      /\ answer.id = i
      /\ answer.what = "state" => i \in Found("root", 0, FALSE)
      /\ answer.what = "empty" => i \notin Found("root", 0, FALSE)
  <2>1. CASE i = 0
    <3>1. answer \in {Answer(0, "refused")}
      BY <1>1, <2>1, Zenon DEF StateAtPost
    <3>2. answer = [id |-> 0, what |-> "refused"]
      BY <3>1, Zenon DEF Answer
    <3> QED BY <2>1, <3>2
  <2>2. CASE i # 0
    <3>1. answer \in StateAt(i)
      BY <1>1, <2>2
    <3>2. \/ answer = Answer(i, "refused")
          \/ answer = Answer(i, "empty") /\ i \notin Found("root", 0, FALSE)
          \/ answer = Answer(i, "state") /\ i \in Found("root", 0, FALSE)
      <4> HIDE DEF Found
      <4> QED BY <3>1, Zenon DEF StateAt
    <3>3. /\ Answer(i, "refused") = [id |-> i, what |-> "refused"]
          /\ Answer(i, "empty") = [id |-> i, what |-> "empty"]
          /\ Answer(i, "state") = [id |-> i, what |-> "state"]
      BY DEF Answer
    <3> DEFINE found == i \in Found("root", 0, FALSE)
    <3> HIDE DEF found
    <3>4. /\ answer \in [id : Nat, what : {"none", "refused", "empty", "state"}]
          /\ answer.id = i /\ (answer.what = "state" => found) /\ (answer.what = "empty" => ~found)
      <4>1. CASE answer = Answer(i, "refused")
        BY <3>3, <4>1
      <4>2. CASE answer = Answer(i, "empty") /\ ~found
        BY <3>3, <4>2
      <4>3. CASE answer = Answer(i, "state") /\ found
        BY <3>3, <4>3
      <4> QED BY <3>2, <4>1, <4>2, <4>3, Zenon DEF found
    <3> QED BY <3>4, Zenon DEF found
  <2> QED BY <2>1, <2>2
<1>3. /\ browser \in Browsers /\ browser' \in Browsers /\ browser'.answer = answer
      /\ browser'.pc = "answered" /\ browser'.space = browser.space /\ browser'.at = browser.at
      /\ browser'.filter = browser.filter /\ browser'.got = browser.got
      /\ browser'.newest = browser.newest /\ browser'.before = browser.before
  BY <1>1, <1>2 DEF HistoryIInv, HistoryTypes, Browsers
<1>4. HistoryTypes' /\ ShownSound'
  BY <1>1, <1>3, SMTT(40) DEF HistoryIInv, HistoryTypes, ShownSound, Asked, Found, Converts, Checkpoints
<1>5. HistoryTells'
  BY <1>3, <1>4 DEF HistoryIInv, HistoryTells
<1>6. browser.space = "root" => ToSet(browser.got) \subseteq Found("root", 0, FALSE)
  <2>1. DOMAIN browser.got = 1..Len(browser.got)
    BY <1>3 DEF Browsers
  <2>2. \A k \in 1..Len(browser.got) : browser.got[k] \in Asked
    BY DEF HistoryIInv, ShownSound
  <2>3. browser.space = "root" => Asked \subseteq Found("root", 0, FALSE)
    BY DEF Asked, Found
  <2> QED BY <2>1, <2>2, <2>3 DEF ToSet
<1>7. ShownIsReadable'
  <2>1. browser.space \in {"root", "sub"}
    BY <1>3 DEF Browsers
  <2>2. Found("root", 0, FALSE)' = Found("root", 0, FALSE)
    BY <1>1 DEF Found, Checkpoints
  <2> QED BY <1>2, <1>3, <1>6, <2>1, <2>2 DEF ShownIsReadable
<1> QED BY <1>1, <1>3, <1>4, <1>5, <1>7 DEF HistoryIInv

(***************************************************************************)
(* A page takes up where the last one ended: what lies between the cursor  *)
(* and the last of the page is in the page, or cannot be converted; and if *)
(* it is empty nothing older is there.                                     *)
(***************************************************************************)
LEMMA ReadHistorySound ==
    ASSUME HistoryIInv, ReadHistory
    PROVE  HistoryIInv'
<1> USE HistoryAssumption
<1> DEFINE n == Len(checkpoints)
           got == browser.got
           before == browser.before
           page == NewestBefore(Asked, before)
           states == Converted(page)
<1>1. /\ browser.pc = "reading" /\ UNCHANGED <<threadRow, graphOf, checkpoints>>
      /\ browser' = [browser EXCEPT
            !.got = got \o states,
            !.pc = IF states = <<>> THEN "done" ELSE "reading",
            !.before = IF states = <<>> THEN before ELSE states[Len(states)],
            !.blind = page # {} /\ states = <<>>,
            !.newest = IF before = 0 THEN n ELSE browser.newest]
  BY DEF ReadHistory
<1>2. /\ browser \in Browsers /\ n \in Nat /\ got \in Seq(Nat) /\ before \in Nat
      /\ browser.newest \in Nat /\ browser.newest <= n /\ browser.answer = NoAnswer
      /\ NothingSkipped /\ ~browser.mistaken
      /\ got = <<>> => browser.newest = 0 /\ before = 0
      /\ got # <<>> => before # 0 /\ before \in ToSet(got)
  BY <1>1 DEF HistoryIInv, HistoryTypes, Browsers, ShownSound
<1>3. Asked \subseteq 1..n
  BY DEF Asked, Found, Checkpoints
<1>4. /\ page \subseteq {i \in Asked : before = 0 \/ i < before}
      /\ page = {} => {i \in Asked : before = 0 \/ i < before} = {}
      /\ \A i \in {i \in Asked : before = 0 \/ i < before}, j \in page : i >= j => i \in page
  <2> HIDE DEF n, before
  <2> QED BY <1>2, <1>3, PageHasNoGap
<1>5. /\ states \in Seq(Nat)
      /\ \A k \in 1..Len(states) : states[k] \in page /\ Converts(states[k])
      /\ \A i \in page : Converts(i) => \E k \in 1..Len(states) : states[k] = i
      /\ \A k, m \in 1..Len(states) : k < m => states[k] > states[m]
      /\ states = <<>> <=> \A i \in page : ~Converts(i)
  <2>1. page \subseteq 1..n
    BY <1>3, <1>4
  <2> HIDE DEF n, page
  <2> QED BY <1>2, <2>1, ConvertedIsSorted
<1> DEFINE all == got \o states
           newest == IF before = 0 THEN n ELSE browser.newest
           last == IF states = <<>> THEN before ELSE states[Len(states)]
<1>6. /\ browser'.got = all /\ browser'.newest = newest /\ browser'.before = last
      /\ browser'.pc = (IF states = <<>> THEN "done" ELSE "reading")
      /\ browser'.blind = (page # {} /\ states = <<>>) /\ ~browser'.mistaken
      /\ browser'.answer = NoAnswer /\ browser'.space = browser.space
      /\ browser'.at = browser.at /\ browser'.filter = browser.filter
  <2> HIDE DEF states, page
  <2> QED BY <1>1, <1>2 DEF Browsers
<1>7. Asked' = Asked /\ Checkpoints' = Checkpoints /\ \A i : Converts(i)' <=> Converts(i)
  BY <1>1, <1>6 DEF Asked, Found, Checkpoints, Converts
<1> HIDE DEF states, page
<1>8. /\ all \in Seq(Nat) /\ Len(all) = Len(got) + Len(states)
      /\ \A k \in 1..Len(all) : IF k <= Len(got) THEN k \in 1..Len(got) /\ all[k] = got[k]
                                  ELSE /\ k - Len(got) \in 1..Len(states)
                                       /\ all[k] = states[k - Len(got)]
      /\ ToSet(all) = ToSet(got) \cup ToSet(states)
  BY <1>2, <1>5, Joined
<1>9. Len(got) \in Nat /\ Len(states) \in Nat
  BY <1>2, <1>5
<1>10. ToSet(states) = {i \in page : Converts(i)}
  <2>1. DOMAIN states = 1..Len(states)
    BY <1>5
  <2>2. ToSet(states) = {states[k] : k \in 1..Len(states)}
    BY <2>1 DEF ToSet
  <2> QED BY <1>5, <2>2
<1>11. /\ last \in Nat
       /\ states = <<>> => last = before
       /\ states # <<>> =>
             /\ last \in page /\ Converts(last) /\ last \in ToSet(all)
             /\ \A k \in 1..Len(states) : last <= states[k]
             /\ before # 0 => last < before
  <2>1. CASE states = <<>>
    BY <1>2, <2>1
  <2>2. CASE states # <<>>
    <3>1. Len(states) \in 1..Len(states) /\ last = states[Len(states)]
      BY <1>5, <2>2
    <3>2. last \in page /\ Converts(last) /\ last \in Nat
      BY <1>3, <1>4, <1>5, <3>1
    <3>3. \A k \in 1..Len(states) : states[k] \in Nat /\ last <= states[k]
      BY <1>5, <1>9, <3>1, <3>2, SMTT(40)
    <3>4. last \in ToSet(all)
      BY <1>8, <1>10, <3>2
    <3>5. before # 0 => last < before
      BY <1>4, <3>2
    <3> QED BY <2>2, <3>2, <3>3, <3>4, <3>5
  <2> QED BY <2>1, <2>2
<1> HIDE DEF all, last
<1>12. newest \in Nat /\ newest <= n /\ browser.newest <= newest
  BY <1>2
<1>13. HistoryTypes'
  <2>1. browser' \in Browsers
    <3>1. \A pc \in {"done", "reading"}, blind \in BOOLEAN :
             [browser EXCEPT !.got = all, !.pc = pc, !.before = last, !.blind = blind,
                             !.newest = newest] \in Browsers
      <4> HIDE DEF newest
      <4> QED BY <1>2, <1>8, <1>11, <1>12 DEF Browsers
    <3>2. PICK pc \in {"done", "reading"} : pc = IF states = <<>> THEN "done" ELSE "reading"
      OBVIOUS
    <3>3. PICK blind \in BOOLEAN : blind = (page # {} /\ states = <<>>)
      OBVIOUS
    <3>4. browser' = [browser EXCEPT !.got = all, !.pc = pc, !.before = last, !.blind = blind,
                                     !.newest = newest]
      BY <1>1, <3>2, <3>3, Zenon DEF all, last
    <3> QED BY <3>1, <3>4
  <2> QED BY <1>1, <2>1 DEF HistoryIInv, HistoryTypes
<1>14. \A k \in 1..Len(all) : all[k] \in Asked /\ Converts(all[k]) /\ all[k] <= newest /\ last <= all[k]
  <2>1. ASSUME NEW k \in 1..Len(got)
        PROVE  got[k] \in Asked /\ Converts(got[k]) /\ got[k] <= newest /\ last <= got[k]
    <3>1. /\ got[k] \in Asked /\ Converts(got[k]) /\ got[k] <= browser.newest
          /\ before <= got[k] /\ got[k] \in Nat
      BY <1>2 DEF HistoryIInv, ShownSound
    <3>2. before # 0
      <4>1. got # <<>>
        BY <1>2
      <4> QED BY <1>2, <4>1
    <3> HIDE DEF got, before, newest
    <3> QED BY <1>2, <1>11, <1>12, <3>1, <3>2
  <2>2. ASSUME NEW k \in 1..Len(states)
        PROVE  /\ states[k] \in Asked /\ Converts(states[k])
               /\ states[k] <= newest /\ last <= states[k]
    <3>1. states[k] \in page /\ Converts(states[k]) /\ states # <<>>
      BY <1>5
    <3>2. states[k] \in Asked /\ states[k] \in 1..n /\ (before = 0 \/ states[k] < before)
      BY <1>3, <1>4, <3>1
    <3>3. before # 0 => before <= browser.newest
      <4>1. before # 0 => got # <<>>
        BY <1>2
      <4>2. before # 0 => \E k1 \in 1..Len(got) : got[k1] = before
        BY <1>2, <4>1, SMTT(40) DEF ToSet
      <4> QED BY <4>2 DEF HistoryIInv, ShownSound
    <3> QED BY <1>2, <1>11, <3>1, <3>2, <3>3
  <2> HIDE DEF newest, got
  <2> TAKE k \in 1..Len(all)
  <2>3. CASE k <= Len(got)
    <3>1. k \in 1..Len(got) /\ all[k] = got[k]
      BY <1>8, <2>3
    <3> QED BY <2>1, <3>1
  <2>4. CASE ~(k <= Len(got))
    <3>1. k - Len(got) \in 1..Len(states) /\ all[k] = states[k - Len(got)]
      BY <1>8, <2>4
    <3> QED BY <2>2, <3>1
  <2> QED BY <2>3, <2>4
<1>15. ASSUME NEW k \in 1..Len(all), NEW m \in 1..Len(all), k < m PROVE all[k] > all[m]
  <2>1. /\ IF k <= Len(got) THEN k \in 1..Len(got) /\ all[k] = got[k]
           ELSE k - Len(got) \in 1..Len(states) /\ all[k] = states[k - Len(got)]
        /\ IF m <= Len(got) THEN m \in 1..Len(got) /\ all[m] = got[m]
           ELSE m - Len(got) \in 1..Len(states) /\ all[m] = states[m - Len(got)]
    BY <1>8
  <2>2. CASE m <= Len(got)
    <3>1. k \in 1..Len(got) /\ m \in 1..Len(got) /\ all[k] = got[k] /\ all[m] = got[m]
      BY <1>8, <1>9, <1>15, <2>1, <2>2, SMTT(40)
    <3> QED BY <1>15, <3>1 DEF HistoryIInv, ShownSound
  <2>3. CASE ~(k <= Len(got))
    <3>1. /\ k - Len(got) \in 1..Len(states) /\ all[k] = states[k - Len(got)]
          /\ m - Len(got) \in 1..Len(states) /\ all[m] = states[m - Len(got)]
          /\ k - Len(got) < m - Len(got)
      BY <1>8, <1>9, <1>15, <2>1, <2>3
    <3> QED BY <1>5, <3>1
  <2>4. CASE k <= Len(got) /\ ~(m <= Len(got))
    <3>1. k \in 1..Len(got) /\ all[k] = got[k]
      BY <2>1, <2>4
    <3>2. PICK i \in 1..Len(states) : all[m] = states[i]
      BY <2>1, <2>4
    <3>3. before <= got[k] /\ before # 0 /\ got[k] \in Nat
      <4>1. got # <<>>
        BY <1>2, <3>1
      <4> QED BY <1>2, <3>1, <4>1, SMTT(40) DEF HistoryIInv, ShownSound
    <3>4. states[i] \in Nat /\ states[i] < before
      <4>1. states[i] \in page /\ states[i] \in Nat
        BY <1>5
      <4>2. states[i] \in {j \in Asked : before = 0 \/ j < before}
        BY <1>4, <4>1
      <4> QED BY <3>3, <4>1, <4>2
    <3> HIDE DEF got, before
    <3> QED BY <1>2, <3>1, <3>2, <3>3, <3>4
  <2> QED BY <2>2, <2>3, <2>4
<1>16. ShownSound'
  <2>1. all # <<>> => last # 0 /\ last \in ToSet(all)
    <3>1. CASE states # <<>>
      BY <1>3, <1>4, <1>11, <3>1
    <3>2. CASE states = <<>>
      <4>1. ToSet(states) = {}
        BY <1>5, <1>10, <3>2
      <4>2. last = before
        BY <1>11, <3>2
      <4>3. CASE got = <<>>
        <5>1. Len(all) = 0
          BY <1>8, <3>2, <4>3
        <5> QED BY <1>8, <5>1
      <4>4. CASE got # <<>>
        BY <1>2, <1>8, <4>2, <4>4
      <4> QED BY <4>3, <4>4
    <3> QED BY <3>1, <3>2
  <2>2. Len(checkpoints') = n
    <3>1. checkpoints' = checkpoints
      BY DEF ReadHistory
    <3> QED BY <3>1
  <2>3. \A k \in 1..Len(all) : all[k] \in Asked' /\ checkpoints'[all[k]] # "broken"
    BY <1>7, <1>14 DEF Converts
  <2>4. newest <= n
    BY <1>12
  <2> HIDE DEF newest
  <2>5. /\ browser'.newest = newest /\ browser'.got = all /\ browser'.before = last
    BY <1>6
  <2>6. browser'.newest <= Len(checkpoints')
    BY <2>2, <2>4, <2>5
  <2>7. \A k \in 1..Len(all) : all[k] <= newest /\ last <= all[k]
    BY <1>14
  <2>8. \A k \in 1..Len(all) : all[k] \in Asked' /\ checkpoints'[all[k]] # "broken"
                                 /\ all[k] <= newest /\ last <= all[k]
    BY <2>3, <2>7
  <2>9. \A k, m \in 1..Len(all) : k < m => all[k] > all[m]
    BY <1>15
  <2> QED BY <2>1, <2>5, <2>6, <2>8, <2>9 DEF ShownSound, Converts
\* Between the new cursor and the old one nothing that can be converted is left out.
<1>17. ASSUME NEW i \in Asked, i <= newest, Converts(i), states # <<>> => i >= last,
              states = <<>> => page = {}
       PROVE  i \in ToSet(all)
  <2>1. i \in Nat
    BY <1>3
  <2>2. CASE before = 0 \/ i < before
    <3>1. page # {}
      BY <1>4, <2>2
    <3>2. states # <<>>
      BY <1>17, <3>1
    <3>3. i \in page
      BY <1>4, <1>11, <1>17, <2>2, <3>2
    <3> QED BY <1>8, <1>10, <1>17, <3>3
  <2>3. CASE before # 0 /\ i >= before
    <3>1. i <= browser.newest
      BY <1>17, <2>3
    <3>2. i \in ToSet(got)
      BY <1>2, <1>17, <2>3, <3>1 DEF NothingSkipped
    <3> QED BY <1>8, <3>2
  <2> QED BY <1>2, <2>1, <2>2, <2>3
<1> HIDE DEF newest
<1>18. browser'.pc = "reading" => /\ NothingSkipped' /\ ~browser'.blind
                                  /\ browser'.got # <<>>
  <2>1. SUFFICES ASSUME states # <<>>
                 PROVE  /\ \A i \in Asked : i <= newest /\ Converts(i) /\ i >= last => i \in ToSet(all)
                        /\ all # <<>>
    BY <1>6, <1>7 DEF NothingSkipped
  <2>2. all # <<>>
    <3>1. last \in ToSet(all)
      BY <1>11, <2>1
    <3>2. DOMAIN all = 1..Len(all)
      BY <1>8
    <3> QED BY <3>1, <3>2 DEF ToSet
  <2> QED BY <1>17, <2>1, <2>2
<1>19. browser'.pc = "done" /\ ~browser'.blind =>
          \A i \in Asked' : i <= browser'.newest /\ Converts(i)' => i \in ToSet(browser'.got)
  <2>1. SUFFICES ASSUME states = <<>>, page = {}
                 PROVE  \A i \in Asked : i <= newest /\ Converts(i) => i \in ToSet(all)
    BY <1>6, <1>7
  <2> QED BY <1>17, <2>1
<1>20. HistoryTells'
  <2>1. browser'.got # <<>> => browser'.got[1] <= browser'.newest
    <3>1. all # <<>> => 1 \in 1..Len(all)
      BY <1>8
    <3> QED BY <1>6, <1>14, <3>1
  <2>2. \A i, j \in 1..Len(browser'.got) : i < j => browser'.got[i] > browser'.got[j]
    BY <1>6, <1>15
  <2> QED BY <1>19, <2>1, <2>2 DEF HistoryTells
<1>21. ShownIsReadable'
  BY <1>6 DEF ShownIsReadable, NoAnswer, Answer
<1>22. browser'.pc \in {"reading", "done"} /\ (graphOf' = "none" => checkpoints' = <<>>)
  BY <1>1, <1>6 DEF HistoryIInv
<1> QED BY <1>6, <1>13, <1>16, <1>18, <1>20, <1>21, <1>22 DEF HistoryIInv

LEMMA HistoryStep == HistoryIInv /\ [NextHistory]_historyVars => HistoryIInv'
<1> SUFFICES ASSUME HistoryIInv, [NextHistory]_historyVars PROVE HistoryIInv'
  OBVIOUS
<1>1. CASE AddCheckpoint \/ DeleteThreadRow \/ LoseGraph
  BY <1>1, ThreadMoves
<1>2. CASE GetHistory \/ \E i \in 1..MaxCheckpoints : PostHistory(i)
  <2>1. PICK i \in 0..MaxCheckpoints : PostHistory(i)
    BY <1>2, HistoryAssumption DEF GetHistory
  <2> QED BY <2>1, RequestSound
<1>3. CASE Unreadable \/ ReadFails
  BY <1>3, NothingRead
<1>4. CASE ReadHistory
  BY <1>4, ReadHistorySound
<1>5. CASE AskState
  BY <1>5, AskStateSound
<1>6. CASE UNCHANGED historyVars
  BY <1>6 DEF historyVars, HistoryIInv, HistoryTypes, ShownSound, NothingSkipped, HistoryTells,
              ShownIsReadable, Asked, Found, Checkpoints, Converts
<1> QED BY <1>1, <1>2, <1>3, <1>4, <1>5, <1>6 DEF NextHistory

(***************************************************************************)
(* Whatever checkpoints the runs add meanwhile, and whatever the limit: a  *)
(* client that follows the cursor to its end has every checkpoint it asked *)
(* for that was there with the first page, the newest first and none twice *)
(* (get_thread_history pages by "before", not by an offset), and can read  *)
(* again what it was shown, unless the thread cannot be read any more.     *)
(***************************************************************************)
THEOREM HistorySound == HistorySpec => []HistoryInv
<1>1. HistorySpec => []HistoryIInv
  BY HistoryBegins, HistoryStep, PTL DEF HistorySpec
<1> QED BY <1>1, HistoryInvariantGives, PTL

---------------------------------------------------------------------------
(* Listings                                                                *)

PageReaders ==
    [pc : {"idle", "counting", "reading", "grouping", "totalling", "querying", "done"},
     for : {"pages", "summary", "export"}, total : Nat, got : Seq(Rows),
     groups : [1..MaxRowTime -> Nat], raced : BOOLEAN]
ExportReaders ==
    [pc : {"sending", "left", "done"}, for : {"export"}, cursor : Seq(Rows), got : Seq(Rows)]

ListingsTypes ==
    /\ listed \in Lists /\ rowTime \in [Rows -> 1..MaxRowTime]
    /\ outside \in IF listed = "rules" THEN {0, 1} ELSE {0}
    /\ rowsIn \subseteq Rows /\ entered \subseteq rowsIn
    /\ departed \subseteq Rows /\ departed \cap rowsIn = {}
    /\ reader \in IF reader.for = "export" /\ reader.pc # "querying" THEN ExportReaders
                  ELSE PageReaders

\* The rows that are listed before a row, those of its own time left aside.
Before(r) == Cardinality({s \in rowsIn : rowTime[s] > rowTime[r]})
CameBefore(r) == \E s \in entered : rowTime[s] > rowTime[r]
WentBefore(r) == \E s \in departed : rowTime[s] > rowTime[r]

\* What is not yet seen is still to come, and what is seen does not come again.
OffsetSound ==
    \A r \in Steady : Placed(r) =>
        /\ ~Seen(r) /\ reader.pc # "done" => WentBefore(r) \/ Before(r) >= Len(reader.got)
        /\ Seen(r) => CameBefore(r) \/ Before(r) < Len(reader.got)

\* The count is not less than the rows, and is all of them while nothing moves.
CountSound ==
    /\ reader.pc = "reading" /\ listed \in Totalled /\ ~reader.raced =>
          Cardinality(rowsIn) <= reader.total
    /\ entered = {} /\ departed = {} =>
          /\ Len(reader.got) <= Cardinality(rowsIn)
          /\ reader.pc \in {"reading", "done"} /\ listed \in Counted =>
                reader.total = Cardinality(rowsIn) + outside

\* What was sent and what is to be sent are the rows of one query.
ExportSound ==
    LET all == reader.got \o reader.cursor
    IN  /\ \A i, j \in 1..Len(all) :
              i < j => all[i] # all[j] /\ rowTime[all[i]] >= rowTime[all[j]]
        /\ Steady \subseteq ToSet(all)
        /\ reader.pc = "done" => reader.cursor = <<>>

ListingsIInv ==
    /\ ListingsTypes
    /\ reader.for = "pages" =>
          /\ reader.pc \in {"idle", "counting", "reading", "done"}
          /\ reader.pc = "idle" => reader.got = <<>> /\ entered = {} /\ departed = {}
          /\ OffsetSound /\ CountSound
    /\ reader.for = "summary" => reader.pc \in {"grouping", "totalling", "done"}
    /\ reader.for = "export" =>
          /\ listed = "audit"
          /\ reader.pc = "querying" => reader.got = <<>>
          /\ reader.pc # "querying" => ExportSound
    /\ PagesTell

(***************************************************************************)
(* An order has every row once.                                            *)
(***************************************************************************)
LEMMA OrderHasAll ==
    ASSUME rowsIn \subseteq Rows, NEW order \in SetToSeqs(rowsIn)
    PROVE  /\ IsFiniteSet(rowsIn) /\ Cardinality(rowsIn) \in Nat
           /\ order \in Seq(rowsIn) /\ Len(order) = Cardinality(rowsIn)
           /\ \A i, j \in 1..Len(order) : order[i] = order[j] => i = j
           /\ \A r \in rowsIn : \E i \in 1..Len(order) : order[i] = r
<1> DEFINE n == Cardinality(rowsIn)
<1>1. IsFiniteSet(rowsIn) /\ n \in Nat
  BY ListingsAssumption, FS_Subset, FS_CardinalityType
<1>2. order \in [1..n -> rowsIn] /\ \A i, j \in 1..n : i # j => order[i] # order[j]
  BY DEF SetToSeqs
<1>3. IsFiniteSet(1..n) /\ Cardinality(1..n) = n
  BY <1>1, FS_Interval
<1> HIDE DEF n
<1>4. order \in Seq(rowsIn) /\ Len(order) = n
  BY <1>1, <1>2
<1>5. order \in Injection(1..n, rowsIn)
  BY <1>2, Zenon DEF Injection, IsInjective
<1>6. order \in Surjection(1..n, rowsIn)
  BY <1>1, <1>3, <1>5, FS_Injection DEF n
<1>7. \A r \in rowsIn : \E i \in 1..n : order[i] = r
  BY <1>6 DEF Surjection
<1> QED BY <1>1, <1>2, <1>4, <1>7 DEF n

\* A row with a time of its own has the same place in every sorted order.
LEMMA PlaceIsFixed ==
    ASSUME rowsIn \subseteq Rows, rowTime \in [Rows -> 1..MaxRowTime],
           NEW order \in SortedOrders, NEW r \in rowsIn, Placed(r)
    PROVE  /\ Before(r) \in Nat /\ Before(r) + 1 \in 1..Len(order)
           /\ order[Before(r) + 1] = r
<1> DEFINE n == Len(order)
           above == {s \in rowsIn : rowTime[s] > rowTime[r]}
<1>1. /\ n \in Nat /\ order \in Seq(rowsIn)
      /\ \A i, j \in 1..n : order[i] = order[j] => i = j
      /\ \A s \in rowsIn : \E i \in 1..n : order[i] = s
      /\ \A i, j \in 1..n : i < j => rowTime[order[i]] >= rowTime[order[j]]
  BY OrderHasAll DEF SortedOrders
<1>2. \A s \in rowsIn : rowTime[s] \in Nat
  BY ListingsAssumption
<1>3. \A s \in rowsIn : s # r => rowTime[s] # rowTime[r]
  BY DEF Placed
<1>4. PICK k \in 1..n : order[k] = r
  BY <1>1
<1>5. \A i \in 1..n : order[i] \in rowsIn
  BY <1>1
<1> HIDE DEF n
<1>6. ASSUME NEW i \in 1..n PROVE order[i] \in above <=> i < k
  <2>1. i < k => order[i] \in above
    <3>1. ASSUME i < k PROVE rowTime[order[i]] >= rowTime[r] /\ order[i] # r
      BY <1>1, <1>4, <3>1
    <3> QED BY <1>2, <1>3, <1>5, <3>1
  <2>2. order[i] \in above => i < k
    <3>1. SUFFICES ASSUME i >= k PROVE ~(rowTime[order[i]] > rowTime[r])
      BY <1>1
    <3>2. i = k \/ k < i
      BY <1>1, <3>1
    <3>3. rowTime[r] >= rowTime[order[i]]
      BY <1>1, <1>2, <1>4, <3>2
    <3> QED BY <1>2, <1>5, <3>3
  <2> QED BY <2>1, <2>2
<1> DEFINE f == [i \in 1..(k - 1) |-> order[i]]
<1>7. /\ k - 1 \in Nat
      /\ \A i \in 1..(k - 1) : i \in 1..n /\ i < k
      /\ \A i \in 1..n : i < k => i \in 1..(k - 1)
  BY <1>1
<1>8. ExistsBijection(1..(k - 1), above)
  <2>1. f \in [1..(k - 1) -> above]
    BY <1>6, <1>7
  <2>2. \A i, j \in 1..(k - 1) : f[i] = f[j] => i = j
    BY <1>1, <1>7
  <2>3. \A s \in above : \E i \in 1..(k - 1) : f[i] = s
    <3>1. TAKE s \in above
    <3>2. PICK i \in 1..n : order[i] = s
      BY <1>1
    <3>3. i \in 1..(k - 1)
      BY <1>6, <1>7, <3>2
    <3> QED BY <3>2, <3>3
  <2>4. DOMAIN f = 1..(k - 1)
    OBVIOUS
  <2> HIDE DEF f, above
  <2>5. f \in Injection(1..(k - 1), above)
    BY <2>1, <2>2, <2>4, Zenon DEF Injection, IsInjective
  <2>6. f \in Surjection(1..(k - 1), above)
    BY <2>1, <2>3, <2>4, Zenon DEF Surjection
  <2> QED BY <2>5, <2>6, Zenon DEF ExistsBijection, Bijection
<1>9. Before(r) = k - 1
  BY <1>7, <1>8, FS_CountingElements DEF Before
<1> QED BY <1>1, <1>4, <1>7, <1>9 DEF n

\* A page is a part of an order, as long as the limit but for the end.
LEMMA PageIsPart ==
    ASSUME rowsIn \subseteq Rows, NEW order \in SetToSeqs(rowsIn), Len(reader.got) \in Nat
    PROVE  LET got == Len(reader.got)
               n == Len(order)
               page == SubSeq(order, got + 1, Min({got + PageLimit, n}))
           IN  /\ page \in Seq(Rows)
               /\ Len(page) = IF n <= got THEN 0 ELSE IF n <= got + PageLimit THEN n - got ELSE PageLimit
               /\ \A i \in 1..Len(page) : got + i \in 1..n /\ page[i] = order[got + i]
<1> USE ListingsAssumption
<1> DEFINE got == Len(reader.got)
           n == Len(order)
           end == Min({got + PageLimit, n})
           page == SubSeq(order, got + 1, end)
<1> DEFINE size == IF n <= got THEN 0 ELSE IF n <= got + PageLimit THEN n - got ELSE PageLimit
<1> SUFFICES /\ page \in Seq(Rows) /\ Len(page) = size
             /\ \A i \in 1..Len(page) : got + i \in 1..n /\ page[i] = order[got + i]
  OBVIOUS
<1>1. n \in Nat /\ order \in Seq(rowsIn) /\ got \in Nat /\ \A i \in 1..n : order[i] \in Rows
  <2>1. n \in Nat /\ order \in Seq(rowsIn) /\ got \in Nat
    BY OrderHasAll
  <2>2. \A i \in 1..n : order[i] \in rowsIn
    BY <2>1, ElementOfSeq
  <2> QED BY <2>1, <2>2
<1>2. end = IF n <= got + PageLimit THEN n ELSE got + PageLimit
  <2> HIDE DEF got, n
  <2>1. /\ Min({got + PageLimit, n}) \in {got + PageLimit, n}
        /\ \A x \in {got + PageLimit, n} : Min({got + PageLimit, n}) <= x
    <3>1. \E x \in {got + PageLimit, n} : \A y \in {got + PageLimit, n} : x <= y
      BY <1>1
    <3> QED BY <3>1, Zenon DEF Min
  <2> QED BY <1>1, <2>1
<1> HIDE DEF got, n, end
<1>3. /\ end \in Nat /\ end <= n
      /\ end - got = IF n <= got + PageLimit THEN n - got ELSE PageLimit
  BY <1>1, <1>2
<1>4. CASE n <= got
  <2>1. page = <<>>
    <3>1. end < got + 1
      BY <1>1, <1>2, <1>4
    <3>2. got + 1 \in Int /\ end \in Int
      BY <1>1, <1>3
    <3> QED BY <3>1, <3>2, SubSeqEmpty, Zenon
  <2>2. <<>> \in Seq(Rows) /\ Len(<<>>) = 0 /\ size = 0
    BY <1>4
  <2> HIDE DEF page, size
  <2> QED BY <2>1, <2>2
<1>5. CASE ~(n <= got)
  <2>1. got + 1 \in 1..(n + 1) /\ end \in got..n
    BY <1>1, <1>2, <1>3, <1>5
  <2>2. /\ page \in Seq(Rows) /\ Len(page) = end - got
        /\ \A i \in 1..(end - got) : page[i] = order[got + i]
    <3>0. \A i \in (got + 1)..end : order[i] \in Rows
      BY <1>1, <1>3
    <3>1. /\ page \in Seq(Rows)
          /\ Len(page) = IF got + 1 <= end THEN end - (got + 1) + 1 ELSE 0
          /\ \A i \in 1..(end - (got + 1) + 1) : page[i] = order[(got + 1) + i - 1]
      BY <1>1, <1>3, <3>0, SubSeqProperties
    <3>2. /\ end - (got + 1) + 1 = end - got
          /\ (IF got + 1 <= end THEN end - (got + 1) + 1 ELSE 0) = end - got
          /\ \A i \in 1..(end - got) : (got + 1) + i - 1 = got + i
      BY <1>1, <1>3, <2>1
    <3> HIDE DEF page
    <3>3. page \in Seq(Rows) /\ Len(page) = end - got
      BY <3>1, <3>2
    <3>4. ASSUME NEW i \in 1..(end - got) PROVE page[i] = order[got + i]
      <4>1. page[i] = order[(got + 1) + i - 1]
        BY <3>1, <3>2
      <4> QED BY <3>2, <4>1
    <3> QED BY <3>3, <3>4
  <2> HIDE DEF page
  <2>4. \A i \in 1..(end - got) : got + i \in 1..n
    BY <1>1, <1>3
  <2>5. Len(page) = size
    BY <1>3, <1>5, <2>2
  <2> QED BY <2>2, <2>4, <2>5
<1> QED BY <1>4, <1>5

LEMMA EmptyHasNone == ToSet(<<>>) = {}
BY DEF ToSet

LEMMA ListingsInvariantGives == ListingsIInv => ListingsInv
<1> SUFFICES ASSUME ListingsIInv PROVE ListingsInv
  OBVIOUS
<1>1. ListingsTypeOK
  BY DEF ListingsIInv, ListingsTypes, ListingsTypeOK
<1>2. ASSUME reader.for = "export", reader.pc # "querying" PROVE ExportIsWhole
  <2>1. reader.got \in Seq(Rows) /\ reader.cursor \in Seq(Rows) /\ ExportSound
    BY <1>2 DEF ListingsIInv, ListingsTypes, ExportReaders
  <2> DEFINE got == reader.got
             cursor == reader.cursor
             all == got \o cursor
  <2>3. /\ \A i, j \in 1..Len(all) :
             i < j => all[i] # all[j] /\ rowTime[all[i]] >= rowTime[all[j]]
        /\ Steady \subseteq ToSet(all)
        /\ reader.pc = "done" => cursor = <<>>
    BY <2>1 DEF ExportSound
  <2> SUFFICES /\ \A i, j \in 1..Len(got) : i < j => got[i] # got[j] /\ rowTime[got[i]] >= rowTime[got[j]]
               /\ reader.pc = "done" => Steady \subseteq ToSet(got)
    BY DEF ExportIsWhole
  <2>4. got \in Seq(Rows) /\ cursor \in Seq(Rows)
    BY <2>1
  <2> HIDE DEF got, cursor
  <2>5. /\ Len(all) = Len(got) + Len(cursor) /\ Len(got) \in Nat /\ Len(cursor) \in Nat
        /\ \A k \in 1..Len(all) : k <= Len(got) => all[k] = got[k]
        /\ ToSet(all) = ToSet(got) \cup ToSet(cursor)
    BY <2>4, Joined
  <2> HIDE DEF all
  <2>6. \A i \in 1..Len(got) : i \in 1..Len(all) /\ all[i] = got[i]
    BY <2>5
  <2>7. reader.pc = "done" => ToSet(cursor) = {}
    BY <2>3, EmptyHasNone
  <2> QED BY <2>3, <2>5, <2>6, <2>7
<1>3. ASSUME reader.for = "export", reader.pc = "querying" PROVE ExportIsWhole
  BY <1>3 DEF ListingsIInv, ExportIsWhole
<1>4. ExportIsWhole
  BY <1>2, <1>3 DEF ExportIsWhole
<1> QED BY <1>1, <1>4 DEF ListingsIInv, ListingsInv

LEMMA ListingsBegin == InitListings => ListingsIInv
<1> SUFFICES ASSUME InitListings PROVE ListingsIInv
  OBVIOUS
<1> USE ListingsAssumption
<1>1. reader = Idle /\ entered = {} /\ departed = {} /\ rowsIn \subseteq Rows
  BY DEF InitListings
<1>2. Idle \in PageReaders /\ Idle.pc = "idle" /\ Idle.for = "pages" /\ Idle.got = <<>>
  BY DEF Idle, PageReaders
<1>3. ListingsTypes
  BY <1>1, <1>2 DEF InitListings, ListingsTypes
<1>4. \A r \in rowsIn : Before(r) \in Nat
  BY <1>1, FS_Subset, FS_CardinalityType DEF Before
<1>5. Cardinality(rowsIn) \in Nat
  BY <1>1, FS_Subset, FS_CardinalityType
<1>6. OffsetSound
  <2>1. reader.got = <<>> /\ Len(reader.got) = 0 /\ ToSet(reader.got) = {}
    BY <1>1, <1>2, EmptyHasNone
  <2> QED BY <1>1, <1>4, <2>1 DEF OffsetSound, Steady, Seen
<1>7. CountSound /\ PagesTell
  BY <1>1, <1>2, <1>5 DEF CountSound, PagesTell, SeenTwice
<1> QED BY <1>1, <1>2, <1>3, <1>6, <1>7 DEF ListingsIInv

\* What the reader is, by what it reads for.
LEMMA ReaderKinds ==
    ASSUME ListingsIInv
    PROVE  /\ rowsIn \subseteq Rows /\ IsFiniteSet(rowsIn) /\ Cardinality(rowsIn) \in Nat
           /\ outside \in {0, 1} /\ (listed # "rules" => outside = 0)
           /\ reader.pc \in {"idle", "counting", "reading"} =>
                 reader \in PageReaders /\ reader.for = "pages" /\ OffsetSound /\ CountSound
           /\ reader.pc \in {"grouping", "totalling"} => reader \in PageReaders /\ reader.for = "summary"
           /\ reader.pc = "querying" => reader \in PageReaders /\ reader.for = "export"
           /\ reader.pc \in {"sending", "left"} =>
                 reader \in ExportReaders /\ reader.for = "export" /\ ExportSound
<1>1. rowsIn \subseteq Rows /\ IsFiniteSet(rowsIn) /\ Cardinality(rowsIn) \in Nat
  BY ListingsAssumption, FS_Subset, FS_CardinalityType DEF ListingsIInv, ListingsTypes
<1>2. outside \in {0, 1} /\ (listed # "rules" => outside = 0)
  BY DEF ListingsIInv, ListingsTypes
<1>3. CASE reader.for = "export" /\ reader.pc # "querying"
  <2>1. reader \in ExportReaders /\ ExportSound
    BY <1>3 DEF ListingsIInv, ListingsTypes
  <2>2. reader.pc \in {"sending", "left", "done"}
    BY <2>1 DEF ExportReaders
  <2> QED BY <1>1, <1>2, <1>3, <2>1, <2>2
<1>4. CASE ~(reader.for = "export" /\ reader.pc # "querying")
  <2>1. reader \in PageReaders
    BY <1>4 DEF ListingsIInv, ListingsTypes
  <2>2. /\ reader.for \in {"pages", "summary", "export"}
        /\ reader.pc \in {"idle", "counting", "reading", "grouping", "totalling", "querying", "done"}
    BY <2>1 DEF PageReaders
  <2> QED BY <1>1, <1>2, <1>4, <2>1, <2>2 DEF ListingsIInv
<1> QED BY <1>3, <1>4

LEMMA BeginSound == ListingsIInv /\ Begin => ListingsIInv'
<1> SUFFICES ASSUME ListingsIInv, Begin PROVE ListingsIInv'
  OBVIOUS
<1>1. /\ reader.pc = "idle"
      /\ UNCHANGED <<listed, rowTime, outside, rowsIn, entered, departed>>
  BY DEF Begin
<1>2. /\ reader \in PageReaders /\ reader.for = "pages" /\ OffsetSound /\ CountSound
      /\ reader.got = <<>>
  BY <1>1, ReaderKinds DEF ListingsIInv
<1>3. CASE reader' = [reader EXCEPT !.pc = IF listed \in Counted THEN "counting" ELSE "reading"]
  <2>1. /\ reader' \in PageReaders /\ reader'.for = "pages" /\ reader'.got = reader.got
        /\ reader'.pc \in {"counting", "reading"} /\ reader'.total = reader.total
        /\ reader'.raced = reader.raced
        /\ reader'.pc = "reading" => listed \notin Counted
    BY <1>2, <1>3 DEF PageReaders
  <2>2. ListingsTypes'
    BY <1>1, <2>1 DEF ListingsIInv, ListingsTypes
  <2>3. OffsetSound'
    BY <1>1, <1>2, <2>1 DEF OffsetSound, Steady, Placed, Seen, Before, CameBefore, WentBefore
  <2>4. CountSound'
    BY <1>1, <1>2, <2>1 DEF CountSound, Counted
  <2>5. PagesTell'
    BY <1>2, <2>1 DEF PagesTell, SeenTwice
  <2> QED BY <2>1, <2>2, <2>3, <2>4, <2>5 DEF ListingsIInv
<1>4. CASE listed = "audit" /\ reader' = [reader EXCEPT !.pc = "grouping", !.for = "summary"]
  <2>1. reader' \in PageReaders /\ reader'.for = "summary" /\ reader'.pc = "grouping"
    BY <1>2, <1>4 DEF PageReaders
  <2> QED BY <1>1, <2>1 DEF ListingsIInv, ListingsTypes, PagesTell
<1>5. CASE listed = "audit" /\ reader' = [reader EXCEPT !.pc = "querying", !.for = "export"]
  <2>1. /\ reader' \in PageReaders /\ reader'.for = "export" /\ reader'.pc = "querying"
        /\ reader'.got = <<>>
    BY <1>2, <1>5 DEF PageReaders
  <2> QED BY <1>1, <1>5, <2>1 DEF ListingsIInv, ListingsTypes, PagesTell
<1> QED BY <1>3, <1>4, <1>5 DEF Begin

LEMMA CountRowsSound == ListingsIInv /\ CountRows => ListingsIInv'
<1> SUFFICES ASSUME ListingsIInv, CountRows PROVE ListingsIInv'
  OBVIOUS
<1>1. /\ reader.pc = "counting" /\ reader' = [reader EXCEPT !.pc = "reading", !.total = Total]
      /\ UNCHANGED <<listed, rowTime, outside, rowsIn, entered, departed>>
  BY DEF CountRows
<1>2. /\ reader \in PageReaders /\ reader.for = "pages" /\ OffsetSound /\ CountSound
      /\ Cardinality(rowsIn) \in Nat /\ outside \in {0, 1} /\ (listed # "rules" => outside = 0)
  BY <1>1, ReaderKinds
<1>3. Total = Cardinality(rowsIn) + outside /\ Total \in Nat
  BY <1>2 DEF Total
<1>4. /\ reader' \in PageReaders /\ reader'.for = "pages" /\ reader'.got = reader.got
      /\ reader'.pc = "reading" /\ reader'.total = Total
  BY <1>1, <1>2, <1>3 DEF PageReaders
<1>5. ListingsTypes'
  BY <1>1, <1>4 DEF ListingsIInv, ListingsTypes
<1>6. OffsetSound'
  BY <1>1, <1>2, <1>4 DEF OffsetSound, Steady, Placed, Seen, Before, CameBefore, WentBefore
<1>7. CountSound'
  BY <1>1, <1>2, <1>3, <1>4 DEF CountSound
<1>8. PagesTell'
  BY <1>1, <1>2, <1>4 DEF ListingsIInv, PagesTell, SeenTwice, Steady, Placed
<1> QED BY <1>4, <1>5, <1>6, <1>7, <1>8 DEF ListingsIInv

LEMMA SummarySound == ListingsIInv /\ (GroupRows \/ TotalRows) => ListingsIInv'
<1> SUFFICES ASSUME ListingsIInv, GroupRows \/ TotalRows PROVE ListingsIInv'
  OBVIOUS
<1>1. /\ reader.pc \in {"grouping", "totalling"}
      /\ UNCHANGED <<listed, rowTime, outside, rowsIn, entered, departed>>
  BY DEF GroupRows, TotalRows
<1>2. /\ reader \in PageReaders /\ reader.for = "summary"
      /\ Cardinality(rowsIn) \in Nat /\ outside \in {0, 1} /\ IsFiniteSet(rowsIn)
  BY <1>1, ReaderKinds
<1>3. reader' \in PageReaders /\ reader'.for = "summary" /\ reader'.pc \in {"totalling", "done"}
  <2>1. CASE GroupRows
    <3>1. \A t \in 1..MaxRowTime : Cardinality({r \in rowsIn : GroupColumn(r) = t}) \in Nat
      BY <1>2, FS_Subset, FS_CardinalityType
    <3> QED BY <1>2, <2>1, <3>1 DEF GroupRows, PageReaders
  <2>2. CASE TotalRows
    <3>1. Total \in Nat
      BY <1>2 DEF Total
    <3> QED BY <1>2, <2>2, <3>1 DEF TotalRows, PageReaders
  <2> QED BY <2>1, <2>2
<1> QED BY <1>1, <1>3 DEF ListingsIInv, ListingsTypes, PagesTell

\* A row that comes puts those behind it further back, and no other.
LEMMA EnterSound ==
    ASSUME ListingsIInv, NEW x \in Rows, Enter(x)
    PROVE  ListingsIInv'
<1>1. /\ Reading /\ x \notin rowsIn \cup departed
      /\ rowsIn' = rowsIn \cup {x} /\ entered' = entered \cup {x}
      /\ UNCHANGED <<listed, rowTime, outside, departed>>
      /\ reader' = IF (reader.pc = "reading" /\ listed \in Totalled) \/ reader.pc = "totalling"
                   THEN [reader EXCEPT !.raced = TRUE] ELSE reader
  BY DEF Enter
<1>2. /\ rowsIn \subseteq Rows /\ rowsIn' \subseteq Rows /\ entered \subseteq rowsIn
      /\ IsFiniteSet(rowsIn) /\ IsFiniteSet(rowsIn')
  BY <1>1, ReaderKinds, FS_AddElement DEF ListingsIInv, ListingsTypes
<1>3. /\ reader'.pc = reader.pc /\ reader'.for = reader.for /\ reader'.got = reader.got
      /\ reader \in PageReaders => reader' \in PageReaders /\ reader'.total = reader.total
      /\ reader \in ExportReaders /\ reader.pc \in {"sending", "left"} => reader' = reader
      /\ reader.pc = "reading" /\ listed \in Totalled => reader'.raced
  <2>1. CASE reader.pc \in {"reading", "totalling"}
    <3>1. reader \in PageReaders
      BY <2>1, ReaderKinds
    <3>2. CASE (reader.pc = "reading" /\ listed \in Totalled) \/ reader.pc = "totalling"
      <4>1. reader' = [reader EXCEPT !.raced = TRUE]
        BY <1>1, <3>2
      <4> QED BY <2>1, <3>1, <4>1 DEF PageReaders
    <3>3. CASE ~((reader.pc = "reading" /\ listed \in Totalled) \/ reader.pc = "totalling")
      BY <1>1, <3>1, <3>3
    <3> QED BY <3>2, <3>3
  <2>2. CASE reader.pc \notin {"reading", "totalling"}
    BY <1>1, <2>2
  <2> QED BY <2>1, <2>2
<1>4. reader.pc \notin {"idle", "done"}
  BY <1>1 DEF Reading
<1>5. ListingsTypes'
  <2>1. /\ listed' \in Lists /\ rowTime' \in [Rows -> 1..MaxRowTime]
        /\ outside' \in IF listed' = "rules" THEN {0, 1} ELSE {0}
        /\ departed' \subseteq Rows /\ departed' \cap rowsIn' = {}
    BY <1>1 DEF ListingsIInv, ListingsTypes
  <2>2. reader' \in IF reader'.for = "export" /\ reader'.pc # "querying" THEN ExportReaders
                    ELSE PageReaders
    <3>1. CASE reader.for = "export" /\ reader.pc # "querying"
      <4>1. reader \in ExportReaders
        BY <3>1 DEF ListingsIInv, ListingsTypes
      <4>2. reader.pc \in {"sending", "left"}
        BY <1>4, <4>1 DEF ExportReaders
      <4> QED BY <1>3, <3>1, <4>1, <4>2
    <3>2. CASE ~(reader.for = "export" /\ reader.pc # "querying")
      <4>1. reader \in PageReaders
        BY <3>2 DEF ListingsIInv, ListingsTypes
      <4> QED BY <1>3, <3>2, <4>1
    <3> QED BY <3>1, <3>2
  <2> QED BY <1>1, <1>2, <2>1, <2>2 DEF ListingsTypes
<1>6. Steady' = Steady
  BY <1>1, <1>2 DEF Steady
<1>7. CASE reader.for = "pages"
  <2>1. OffsetSound /\ CountSound /\ PagesTell
    BY <1>7 DEF ListingsIInv
  <2>2. ASSUME NEW r \in Steady, Placed(r)'
        PROVE  /\ Placed(r) /\ (CameBefore(r) => CameBefore(r)') /\ (WentBefore(r) => WentBefore(r)')
               /\ Before(r) \in Nat /\ Before(r)' \in Nat /\ Before(r) <= Before(r)'
               /\ Before(r)' = Before(r) \/ CameBefore(r)'
    <3> DEFINE above == {s \in rowsIn : rowTime[s] > rowTime[r]}
               aboveNow == {s \in rowsIn' : rowTime[s] > rowTime[r]}
    <3>1. Placed(r) /\ (CameBefore(r) => CameBefore(r)') /\ (WentBefore(r) => WentBefore(r)')
      BY <1>1, <2>2 DEF Placed, CameBefore, WentBefore
    <3>2. Before(r) = Cardinality(above) /\ Before(r)' = Cardinality(aboveNow)
      BY <1>1 DEF Before
    <3>3. above \in SUBSET aboveNow /\ aboveNow \in SUBSET rowsIn'
      BY <1>1
    <3>4. aboveNow = above \/ CameBefore(r)'
      BY <1>1 DEF CameBefore
    <3> HIDE DEF above, aboveNow
    <3>5. IsFiniteSet(aboveNow) /\ IsFiniteSet(above) /\ Cardinality(above) <= Cardinality(aboveNow)
      BY <1>2, <3>3, FS_Subset
    <3> QED BY <3>1, <3>2, <3>4, <3>5, FS_CardinalityType
  <2>3. Len(reader.got) \in Nat
    <3>1. reader \in PageReaders
      BY <1>7 DEF ListingsIInv, ListingsTypes
    <3> QED BY <3>1 DEF PageReaders
  <2>4. OffsetSound'
    <3>1. SUFFICES ASSUME NEW r \in Steady, Placed(r)'
                   PROVE  /\ ~Seen(r) => WentBefore(r)' \/ Before(r)' >= Len(reader.got)
                          /\ Seen(r) => CameBefore(r)' \/ Before(r)' < Len(reader.got)
      BY <1>3, <1>6 DEF OffsetSound, Seen
    <3>2. /\ ~Seen(r) => WentBefore(r) \/ Before(r) >= Len(reader.got)
          /\ Seen(r) => CameBefore(r) \/ Before(r) < Len(reader.got)
      BY <1>4, <2>1, <2>2, <3>1 DEF OffsetSound
    <3> QED BY <2>2, <2>3, <3>1, <3>2
  <2>5. CountSound'
    <3>1. entered' # {} /\ listed' = listed
      BY <1>1
    <3>2. reader'.pc = "reading" /\ listed' \in Totalled => reader'.raced
      BY <1>3, <3>1, Zenon
    <3>3. Totalled' = Totalled
      BY DEF Totalled
    <3> QED BY <3>1, <3>2, <3>3, Zenon DEF CountSound
  <2>6. PagesTell'
    <3>1. \A r \in Steady : Placed(r)' /\ SeenTwice(r) => CameBefore(r)'
      BY <1>7, <2>1, <2>2 DEF PagesTell, CameBefore
    <3> QED BY <1>1, <1>3, <1>4, <1>6, <3>1 DEF PagesTell, SeenTwice, CameBefore
  <2>7. reader.pc \in {"idle", "counting", "reading", "done"}
    BY <1>7 DEF ListingsIInv
  <2> QED BY <1>3, <1>4, <1>5, <1>7, <2>4, <2>5, <2>6, <2>7 DEF ListingsIInv
<1>8. CASE reader.for = "summary"
  BY <1>3, <1>5, <1>8 DEF ListingsIInv, PagesTell
<1>9. CASE reader.for = "export"
  <2>1. CASE reader.pc = "querying"
    BY <1>1, <1>3, <1>5, <1>9, <2>1 DEF ListingsIInv, PagesTell
  <2>2. CASE reader.pc # "querying"
    <3>1. reader \in ExportReaders /\ ExportSound
      BY <1>9, <2>2 DEF ListingsIInv, ListingsTypes
    <3>2. reader' = reader
      BY <1>3, <1>4, <3>1 DEF ExportReaders
    <3>3. ExportSound'
      BY <1>1, <1>6, <3>1, <3>2 DEF ExportSound
    <3> QED BY <1>1, <1>5, <1>9, <2>2, <3>2, <3>3 DEF ListingsIInv, PagesTell
  <2> QED BY <2>1, <2>2
<1>10. reader.for \in {"pages", "summary", "export"}
  BY DEF ListingsIInv, ListingsTypes, PageReaders, ExportReaders
<1> QED BY <1>7, <1>8, <1>9, <1>10

\* A row that goes lets those behind it move up, and no other.
LEMMA DepartSound ==
    ASSUME ListingsIInv, NEW x \in Rows, Depart(x)
    PROVE  ListingsIInv'
<1>1. /\ reader.pc \notin {"idle", "done"} /\ x \in rowsIn \ entered /\ listed # "audit"
      /\ rowsIn' = rowsIn \ {x} /\ departed' = departed \cup {x}
      /\ UNCHANGED <<listed, rowTime, outside, entered, reader>>
  BY DEF Depart, Reading
<1>2. /\ rowsIn \subseteq Rows /\ rowsIn' \subseteq Rows /\ entered \subseteq rowsIn
      /\ IsFiniteSet(rowsIn) /\ IsFiniteSet(rowsIn')
  BY <1>1, ReaderKinds, FS_RemoveElement DEF ListingsIInv, ListingsTypes
<1>3. ListingsTypes'
  BY <1>1 DEF ListingsIInv, ListingsTypes
<1>4. Steady' \subseteq Steady /\ Steady \subseteq rowsIn /\ x \notin Steady'
  BY <1>1 DEF Steady
<1>5. CASE reader.for = "pages"
  <2>1. OffsetSound /\ CountSound /\ PagesTell
    BY <1>5 DEF ListingsIInv
  <2>2. ASSUME NEW r \in Steady', Placed(r)'
        PROVE  /\ Placed(r) /\ (CameBefore(r) => CameBefore(r)') /\ (WentBefore(r) => WentBefore(r)')
               /\ Before(r) \in Nat /\ Before(r)' \in Nat /\ Before(r)' <= Before(r)
               /\ Before(r)' = Before(r) \/ WentBefore(r)'
    <3> DEFINE above == {s \in rowsIn : rowTime[s] > rowTime[r]}
               aboveNow == {s \in rowsIn' : rowTime[s] > rowTime[r]}
    <3>1. Placed(r) /\ (CameBefore(r) => CameBefore(r)') /\ (WentBefore(r) => WentBefore(r)')
      BY <1>1, <2>2 DEF Placed, CameBefore, WentBefore
    <3>2. Before(r) = Cardinality(above) /\ Before(r)' = Cardinality(aboveNow)
      BY <1>1 DEF Before
    <3>3. aboveNow \in SUBSET above /\ above \in SUBSET rowsIn
      BY <1>1
    <3>4. aboveNow = above \/ WentBefore(r)'
      BY <1>1 DEF WentBefore
    <3> HIDE DEF above, aboveNow
    <3>5. IsFiniteSet(aboveNow) /\ IsFiniteSet(above) /\ Cardinality(aboveNow) <= Cardinality(above)
      BY <1>2, <3>3, FS_Subset
    <3> QED BY <3>1, <3>2, <3>4, <3>5, FS_CardinalityType
  <2>3. Len(reader.got) \in Nat
    <3>1. reader \in PageReaders
      BY <1>5 DEF ListingsIInv, ListingsTypes
    <3> QED BY <3>1 DEF PageReaders
  <2>4. OffsetSound'
    <3>1. SUFFICES ASSUME NEW r \in Steady', Placed(r)'
                   PROVE  /\ ~Seen(r) => WentBefore(r)' \/ Before(r)' >= Len(reader.got)
                          /\ Seen(r) => CameBefore(r)' \/ Before(r)' < Len(reader.got)
      BY <1>1 DEF OffsetSound, Seen
    <3>2. /\ ~Seen(r) => WentBefore(r) \/ Before(r) >= Len(reader.got)
          /\ Seen(r) => CameBefore(r) \/ Before(r) < Len(reader.got)
      BY <1>1, <1>4, <2>1, <2>2, <3>1 DEF OffsetSound
    <3> QED BY <2>2, <2>3, <3>1, <3>2
  <2>5. CountSound'
    <3>1. Cardinality(rowsIn') \in Nat /\ Cardinality(rowsIn) \in Nat
          /\ Cardinality(rowsIn') <= Cardinality(rowsIn)
      BY <1>1, <1>2, FS_Subset, FS_CardinalityType
    <3>2. reader.total \in Nat
      BY <1>5 DEF ListingsIInv, ListingsTypes, PageReaders
    <3> QED BY <1>1, <2>1, <3>1, <3>2 DEF CountSound
  <2>6. PagesTell'
    <3>1. \A r \in Steady' : Placed(r)' /\ SeenTwice(r) => CameBefore(r)'
      BY <1>4, <1>5, <2>1, <2>2 DEF PagesTell, CameBefore
    <3> QED BY <1>1, <3>1 DEF PagesTell, SeenTwice, CameBefore
  <2> QED BY <1>1, <1>3, <1>5, <2>4, <2>5, <2>6 DEF ListingsIInv
<1>6. CASE reader.for = "summary"
  BY <1>1, <1>3, <1>6 DEF ListingsIInv, PagesTell
<1>7. reader.for \in {"pages", "summary", "export"} /\ (reader.for = "export" => listed = "audit")
  BY DEF ListingsIInv, ListingsTypes, PageReaders, ExportReaders
<1> QED BY <1>1, <1>5, <1>6, <1>7

\* The rows of one query, sent one by one.
LEMMA ExportStepSound == ListingsIInv /\ (QueryExport \/ SendRow \/ CloseExport) => ListingsIInv'
<1> SUFFICES ASSUME ListingsIInv, QueryExport \/ SendRow \/ CloseExport PROVE ListingsIInv'
  OBVIOUS
<1>1. UNCHANGED <<listed, rowTime, outside, rowsIn, entered, departed>>
  BY DEF QueryExport, SendRow, CloseExport
<1>2. SUFFICES reader' \in ExportReaders /\ ExportSound'
  <2>1. reader.for = "export"
    BY ReaderKinds DEF QueryExport, SendRow, CloseExport
  <2>2. reader' \in ExportReaders => reader'.for = "export" /\ reader'.pc # "querying"
    BY DEF ExportReaders
  <2> QED BY <1>1, <2>1, <2>2 DEF ListingsIInv, ListingsTypes, PagesTell
<1>3. CASE QueryExport
  <2>1. PICK order \in SortedOrders :
          reader' = [pc |-> "sending", for |-> "export", cursor |-> order, got |-> <<>>]
    BY <1>3 DEF QueryExport
  <2>2. /\ order \in Seq(rowsIn) /\ rowsIn \subseteq Rows /\ Len(order) \in Nat
        /\ \A i, j \in 1..Len(order) : order[i] = order[j] => i = j
        /\ \A r \in rowsIn : \E i \in 1..Len(order) : order[i] = r
        /\ \A i, j \in 1..Len(order) : i < j => rowTime[order[i]] >= rowTime[order[j]]
    BY ReaderKinds, OrderHasAll DEF SortedOrders
  <2>3. order \in Seq(Rows)
    <3>1. \A i \in 1..Len(order) : order[i] \in Rows
      BY <2>2, ElementOfSeq
    <3>2. order = [i \in 1..Len(order) |-> order[i]]
      BY <2>2
    <3> QED BY <2>2, <3>1, <3>2, IsASeq
  <2>4. <<>> \o order = order
    BY <2>3, ConcatEmptySeq
  <2>5. reader' \in ExportReaders /\ reader'.pc = "sending" /\ reader'.got \o reader'.cursor = order
    BY <2>1, <2>3, <2>4 DEF ExportReaders
  <2>6. Steady \subseteq ToSet(order)
    <3>1. DOMAIN order = 1..Len(order)
      BY <2>2
    <3> QED BY <2>2, <3>1 DEF Steady, ToSet
  <2>7. \A i, j \in 1..Len(order) : i < j => order[i] # order[j]
    BY <2>2
  <2> QED BY <1>1, <2>2, <2>5, <2>6, <2>7 DEF ExportSound, Steady
<1>4. CASE SendRow
  <2>1. /\ reader \in ExportReaders /\ ExportSound /\ reader.pc = "sending" /\ reader.cursor # <<>>
    BY <1>4, ReaderKinds DEF SendRow
  <2>2. CASE reader' = [reader EXCEPT !.got = Append(@, Head(reader.cursor)), !.cursor = Tail(@)]
    <3> DEFINE got == reader.got
               cursor == reader.cursor
    <3>1. got \in Seq(Rows) /\ cursor \in Seq(Rows) /\ cursor # <<>>
      BY <2>1 DEF ExportReaders
    <3>2. /\ Append(got, Head(cursor)) \in Seq(Rows) /\ Tail(cursor) \in Seq(Rows)
          /\ Append(got, Head(cursor)) \o Tail(cursor) = got \o cursor
      <4> HIDE DEF got, cursor
      <4>1. /\ Head(cursor) \in Rows /\ Tail(cursor) \in Seq(Rows)
        BY <3>1, HeadTailProperties
      <4>2. Append(got, Head(cursor)) = got \o <<Head(cursor)>> /\ cursor = <<Head(cursor)>> \o Tail(cursor)
        BY <3>1, <4>1
      <4>3. <<Head(cursor)>> \in Seq(Rows)
        BY <4>1
      <4>4. (got \o <<Head(cursor)>>) \o Tail(cursor) = got \o (<<Head(cursor)>> \o Tail(cursor))
        BY <3>1, <4>1, <4>3, ConcatAssociative
      <4>5. Append(got, Head(cursor)) \in Seq(Rows)
        BY <3>1, <4>1
      <4> QED BY <4>1, <4>2, <4>4, <4>5
    <3>3. /\ reader' \in ExportReaders /\ reader'.pc = "sending"
          /\ reader'.got = Append(got, Head(cursor)) /\ reader'.cursor = Tail(cursor)
      BY <2>1, <2>2, <3>2 DEF ExportReaders
    <3>4. reader'.got \o reader'.cursor = got \o cursor
      BY <3>2, <3>3
    <3> QED BY <1>1, <2>1, <3>3, <3>4 DEF ExportSound, Steady
  <2>3. CASE reader' = [reader EXCEPT !.pc = "left"]
    <3>1. /\ reader' \in ExportReaders /\ reader'.pc = "left"
          /\ reader'.got = reader.got /\ reader'.cursor = reader.cursor
      BY <2>1, <2>3 DEF ExportReaders
    <3> QED BY <1>1, <2>1, <3>1 DEF ExportSound, Steady
  <2> QED BY <1>4, <2>2, <2>3 DEF SendRow
<1>5. CASE CloseExport
  <2>1. /\ reader \in ExportReaders /\ ExportSound /\ reader.pc = "sending" /\ reader.cursor = <<>>
        /\ reader' = [reader EXCEPT !.pc = "done"]
    BY <1>5, ReaderKinds DEF CloseExport
  <2>2. /\ reader' \in ExportReaders /\ reader'.pc = "done"
        /\ reader'.got = reader.got /\ reader'.cursor = reader.cursor
    BY <2>1 DEF ExportReaders
  <2>3. reader'.got \o reader'.cursor = reader.got \o reader.cursor /\ reader'.cursor = <<>>
    BY <2>1, <2>2
  <2>4. Steady' = Steady
    BY <1>1 DEF Steady
  <2>5. ExportSound'
    BY <1>1, <2>1, <2>3, <2>4, ZenonT(60) DEF ExportSound
  <2> QED BY <2>2, <2>5
<1> QED BY <1>3, <1>4, <1>5

(***************************************************************************)
(* The next page has the rows whose places follow on what the client has.  *)
(***************************************************************************)
LEMMA ReadPageSound == ListingsIInv /\ ReadPage => ListingsIInv'
<1> SUFFICES ASSUME ListingsIInv, ReadPage PROVE ListingsIInv'
  OBVIOUS
<1> USE ListingsAssumption
<1>1. /\ reader.pc = "reading" /\ UNCHANGED <<listed, rowTime, outside, rowsIn, entered, departed>>
      /\ reader \in PageReaders /\ reader.for = "pages" /\ OffsetSound /\ CountSound /\ PagesTell
      /\ rowsIn \subseteq Rows /\ Cardinality(rowsIn) \in Nat
      /\ outside \in {0, 1} /\ (listed # "rules" => outside = 0)
  BY ReaderKinds DEF ReadPage, ListingsIInv
<1>2. PICK page \in Pages :
        reader' = [reader EXCEPT
            !.got = @ \o page,
            !.pc = IF page = <<>> \/ ~HasMore(page) THEN "done"
                   ELSE IF listed \in Totalled THEN "counting" ELSE "reading"]
  BY DEF ReadPage
<1> DEFINE got == reader.got
           g == Len(got)
           n == Cardinality(rowsIn)
           end == page = <<>> \/ ~HasMore(page)
<1>3. PICK order \in SetToSeqs(rowsIn) :
        /\ page = SubSeq(order, g + 1, Min({g + PageLimit, Len(order)}))
        /\ listed # "assistants" => order \in SortedOrders
  <2>1. listed \in {"audit", "crons", "flags", "overrides", "rules", "threads",
                    "assistants", "runs", "foundRuns"}
    BY DEF ListingsIInv, ListingsTypes
  <2>2. Pages = PagesOf(IF listed = "assistants" THEN AnyOrders ELSE SortedOrders)
    BY <2>1 DEF Pages, ListAuditLogs, SearchThreads, ListRuns, SearchRuns, SearchCrons, ListFlags,
                ListOverrides, ListRules, SearchAssistants
  <2> QED BY <1>2, <2>2, Zenon DEF PagesOf, AnyOrders, SortedOrders
<1>4. got \in Seq(Rows) /\ g \in Nat /\ reader.total \in Nat
  BY <1>1 DEF PageReaders
<1>5. /\ page \in Seq(Rows) /\ Len(order) = n /\ Len(page) \in Nat
      /\ Len(page) = IF n <= g THEN 0 ELSE IF n <= g + PageLimit THEN n - g ELSE PageLimit
      /\ \A i \in 1..Len(page) : g + i \in 1..n /\ page[i] = order[g + i]
      /\ \A i, j \in 1..n : order[i] = order[j] => i = j
  <2>1. /\ Len(order) = n /\ \A i, j \in 1..Len(order) : order[i] = order[j] => i = j
    BY <1>1, OrderHasAll
  <2> DEFINE part == SubSeq(order, g + 1, Min({g + PageLimit, Len(order)}))
  <2>2. /\ part \in Seq(Rows)
        /\ Len(part) = IF Len(order) <= g THEN 0
                       ELSE IF Len(order) <= g + PageLimit THEN Len(order) - g ELSE PageLimit
        /\ \A i \in 1..Len(part) : g + i \in 1..Len(order) /\ part[i] = order[g + i]
    BY <1>1, <1>4, PageIsPart
  <2>3. page = part
    BY <1>3
  <2> HIDE DEF part, g, n
  <2> QED BY <2>1, <2>2, <2>3
<1>6. page = <<>> <=> Len(page) = 0
  BY <1>5
<1> DEFINE all == got \o page
<1>7. /\ all \in Seq(Rows) /\ Len(all) = g + Len(page)
      /\ \A k \in 1..Len(all) : IF k <= g THEN k \in 1..g /\ all[k] = got[k]
                                ELSE k - g \in 1..Len(page) /\ all[k] = page[k - g]
      /\ ToSet(all) = ToSet(got) \cup ToSet(page)
  <2>1. got \in Seq(Rows) /\ page \in Seq(Rows)
    BY <1>4, <1>5
  <2> HIDE DEF got
  <2> QED BY <2>1, Joined, ZenonT(60) DEF g
<1>8. /\ reader' \in PageReaders /\ reader'.for = "pages" /\ reader'.got = all
      /\ reader'.total = reader.total /\ reader'.raced = reader.raced
      /\ reader'.pc = (IF end THEN "done" ELSE IF listed \in Totalled THEN "counting" ELSE "reading")
  <2> HIDE DEF end
  <2>1. reader' = [reader EXCEPT !.got = all,
                     !.pc = IF end THEN "done" ELSE IF listed \in Totalled THEN "counting" ELSE "reading"]
    BY <1>2 DEF end
  <2> HIDE DEF all
  <2> QED BY <1>1, <1>7, <2>1 DEF PageReaders
<1>9. end => \/ n <= g
             \/ listed \in Totalled /\ Len(all) >= reader.total
             \/ listed \notin Totalled /\ Len(page) # PageLimit
  <2>1. HasMore(page) <=> IF listed \in Totalled THEN g + Len(page) < reader.total
                          ELSE Len(page) = PageLimit
    BY DEF HasMore
  <2> QED BY <1>1, <1>4, <1>5, <1>6, <1>7, <2>1
<1> HIDE DEF all, end, g, n, got
<1>10. Steady' = Steady /\ \A r : Placed(r)' <=> Placed(r)
  BY <1>1 DEF Steady, Placed
<1>11. DOMAIN page = 1..Len(page) /\ DOMAIN got = 1..g
  BY <1>4, <1>5 DEF g
\* The place of a row tells whether it is in the page.
<1>12. ASSUME NEW r \in Steady, Placed(r)
       PROVE  /\ Before(r) \in Nat /\ Before(r) < n
              /\ r \in ToSet(page) => g <= Before(r) /\ Before(r) < Len(all)
              /\ r \notin ToSet(page) => Before(r) < g \/ Before(r) >= Len(all)
              /\ \A i, j \in 1..Len(page) : page[i] = r /\ page[j] = r => i = j
  <2>1. /\ Before(r) \in Nat /\ Before(r) + 1 \in 1..n /\ order[Before(r) + 1] = r
    <3>1. r \in rowsIn /\ listed # "assistants"
      BY <1>12 DEF Steady, Placed
    <3> QED BY <1>1, <1>3, <1>5, <1>12, <3>1, PlaceIsFixed DEF ListingsIInv, ListingsTypes
  <2> DEFINE k == Before(r) + 1
  <2>2. k \in 1..n /\ order[k] = r
    BY <2>1
  <2>3. \A i \in 1..Len(page) : page[i] = r <=> g + i = k
    BY <1>5, <2>2
  <2>4. r \in ToSet(page) <=> \E i \in 1..Len(page) : page[i] = r
    BY <1>11 DEF ToSet
  <2>5. r \in ToSet(page) <=> \E i \in 1..Len(page) : g + i = k
    BY <2>3, <2>4
  <2>6. r \in ToSet(page) => g < k /\ k <= g + Len(page)
    BY <1>4, <1>5, <2>5
  <2>7. g < k /\ k <= g + Len(page) => r \in ToSet(page)
    <3>1. SUFFICES ASSUME g < k, k <= g + Len(page) PROVE k - g \in 1..Len(page) /\ g + (k - g) = k
      BY <2>5
    <3> QED BY <1>4, <1>5, <2>1, <3>1
  <2>8. \A i, j \in 1..Len(page) : page[i] = r /\ page[j] = r => i = j
    <3>1. ASSUME NEW i \in 1..Len(page), NEW j \in 1..Len(page), g + i = k, g + j = k PROVE i = j
      BY <1>4, <3>1
    <3> QED BY <2>3, <3>1
  <2>9. Len(all) \in Nat /\ Len(all) = g + Len(page)
    BY <1>4, <1>5, <1>7
  <2> HIDE DEF n
  <2>10. n \in Nat
    BY <1>1 DEF n
  <2> QED BY <1>4, <1>5, <2>1, <2>6, <2>7, <2>8, <2>9, <2>10
<1>13. n \in Nat /\ Len(all) \in Nat /\ Len(all) = g + Len(page) /\ PageLimit \in Nat \ {0}
  BY <1>1, <1>4, <1>5, <1>7 DEF n
<1>14. \A r : Seen(r) <=> r \in ToSet(got)
  BY DEF Seen, got
<1>15. ASSUME NEW r \in Steady, Placed(r)
       PROVE  /\ r \notin ToSet(all) => WentBefore(r) \/ Before(r) >= Len(all)
              /\ r \in ToSet(all) => CameBefore(r) \/ Before(r) < Len(all)
  <2>1. /\ r \notin ToSet(got) => WentBefore(r) \/ Before(r) >= g
        /\ r \in ToSet(got) => CameBefore(r) \/ Before(r) < g
    BY <1>1, <1>14, <1>15 DEF OffsetSound, g, got
  <2>2. r \in ToSet(all) <=> r \in ToSet(got) \/ r \in ToSet(page)
    BY <1>7
  <2> QED BY <1>4, <1>5, <1>12, <1>13, <1>15, <2>1, <2>2
<1>16. OffsetSound'
  <2>1. \A r : /\ CameBefore(r)' <=> CameBefore(r)
               /\ WentBefore(r)' <=> WentBefore(r)
               /\ Before(r)' = Before(r)
    BY <1>1 DEF CameBefore, WentBefore, Before
  <2>2. \A r : Seen(r)' <=> r \in ToSet(all)
    BY <1>8 DEF Seen
  <2>3. Len(reader'.got) = Len(all)
    BY <1>8
  <2>4. ASSUME NEW r \in Steady', Placed(r)'
        PROVE  /\ ~Seen(r)' => WentBefore(r)' \/ Before(r)' >= Len(reader'.got)
               /\ Seen(r)' => CameBefore(r)' \/ Before(r)' < Len(reader'.got)
    <3>1. r \in Steady /\ Placed(r)
      BY <1>10, <2>4
    <3> QED BY <1>15, <2>1, <2>2, <2>3, <3>1
  <2> QED BY <2>4, Zenon DEF OffsetSound
<1>17. ASSUME NEW r \in Steady, end, Placed(r), r \notin ToSet(all)
       PROVE  WentBefore(r) \/ reader.raced
  <2>1. SUFFICES ASSUME Before(r) >= Len(all), ~reader.raced PROVE FALSE
    BY <1>15, <1>17
  <2>2. Before(r) \in Nat /\ Before(r) < n /\ Len(all) < n
    BY <1>12, <1>13, <1>17, <2>1
  <2>3. listed \in Totalled => n <= reader.total
    BY <1>1, <2>1 DEF CountSound, n
  <2>4. n > g /\ Len(page) = PageLimit
    BY <1>4, <1>5, <1>13, <2>2
  <2>5. ~(n <= g) /\ ~(Len(all) >= reader.total /\ n <= reader.total)
    BY <1>4, <1>13, <2>2, <2>4
  <2> QED BY <1>9, <1>17, <2>3, <2>4, <2>5
<1>18. ASSUME NEW r \in Steady, Placed(r), NEW i \in 1..Len(all), NEW j \in 1..Len(all),
              i < j, all[i] = r, all[j] = r
       PROVE  CameBefore(r)
  <2>1. /\ IF i <= g THEN i \in 1..g /\ all[i] = got[i]
           ELSE i - g \in 1..Len(page) /\ all[i] = page[i - g]
        /\ IF j <= g THEN j \in 1..g /\ all[j] = got[j]
           ELSE j - g \in 1..Len(page) /\ all[j] = page[j - g]
    BY <1>7
  <2>2. CASE i <= g /\ j <= g
    <3>1. SeenTwice(r)
      BY <1>18, <2>1, <2>2 DEF SeenTwice, g, got
    <3> QED BY <1>1, <1>18, <3>1 DEF PagesTell, CameBefore
  <2>3. CASE i <= g /\ ~(j <= g)
    <3>1. r \in ToSet(got) /\ r \in ToSet(page)
      BY <1>11, <1>18, <2>1, <2>3 DEF ToSet
    <3>2. CameBefore(r) \/ Before(r) < g
      BY <1>1, <1>14, <1>18, <3>1 DEF OffsetSound, g, got
    <3> QED BY <1>4, <1>12, <1>18, <3>1, <3>2
  <2>4. CASE ~(i <= g)
    <3>1. ~(j <= g) /\ i - g # j - g
      BY <1>4, <1>13, <1>18, <2>4
    <3> QED BY <1>12, <1>18, <2>1, <2>4, <3>1
  <2> QED BY <2>2, <2>3, <2>4
<1>19. ASSUME entered = {}, departed = {}
       PROVE  /\ Len(all) <= n
              /\ end /\ listed \in Counted => Len(all) = reader.total - outside
              /\ listed \in Counted => reader.total = n + outside
  <2>1. g <= n /\ (listed \in Counted => reader.total = n + outside)
    BY <1>1, <1>19 DEF CountSound, n, g, got
  <2>2. Len(all) <= n
    BY <1>4, <1>5, <1>13, <2>1
  <2>3. n <= g => Len(all) = n
    BY <1>4, <1>5, <1>13, <2>1
  <2>4. Len(page) # PageLimit => Len(all) = n
    BY <1>4, <1>5, <1>13, <2>1
  <2>5. listed \in Counted /\ Len(all) >= reader.total => Len(all) = n
    BY <1>1, <1>13, <2>1, <2>2
  <2>6. listed \in Counted => n = reader.total - outside
    BY <1>1, <1>13, <2>1
  <2> QED BY <1>9, <2>1, <2>2, <2>3, <2>4, <2>5, <2>6
<1>20. CountSound'
  <2>1. ~(reader'.pc = "reading" /\ listed \in Totalled)
    BY <1>8
  <2> QED BY <1>1, <1>8, <1>19, <2>1 DEF CountSound, n, Totalled, Counted
<1>21. PagesTell'
  <2>1. reader'.pc = "done" => end
    BY <1>8
  <2>2. \A r : (Seen(r)' <=> r \in ToSet(all))
               /\ (SeenTwice(r)' <=> \E i, j \in 1..Len(all) : i < j /\ all[i] = r /\ all[j] = r)
    BY <1>8 DEF Seen, SeenTwice
  <2>3. \A r \in Steady : reader'.pc = "done" /\ Placed(r) /\ r \notin ToSet(all) =>
           (\E s \in departed : rowTime[s] > rowTime[r]) \/ reader.raced
    BY <1>17, <2>1, Zenon DEF WentBefore
  <2>4. \A r \in Steady : Placed(r) /\ (\E i, j \in 1..Len(all) : i < j /\ all[i] = r /\ all[j] = r)
           => \E s \in entered : rowTime[s] > rowTime[r]
    BY <1>18, Zenon DEF CameBefore
  <2>5. reader'.pc = "done" /\ entered = {} /\ departed = {} /\ listed \in Counted =>
           Len(all) = reader.total - outside
    BY <1>19, <2>1
  <2>6. /\ entered' = entered /\ departed' = departed /\ rowTime' = rowTime /\ outside' = outside
        /\ listed' = listed /\ Counted' = Counted
    BY <1>1 DEF Counted, Totalled
  <2> QED BY <1>8, <1>10, <2>2, <2>3, <2>4, <2>5, <2>6, ZenonT(60) DEF PagesTell
<1>22. ListingsTypes' /\ reader'.pc \in {"counting", "reading", "done"}
  BY <1>1, <1>8 DEF ListingsIInv, ListingsTypes
<1> QED BY <1>8, <1>16, <1>20, <1>21, <1>22 DEF ListingsIInv

LEMMA ListingsStep == ListingsIInv /\ [NextListings]_listVars => ListingsIInv'
<1> SUFFICES ASSUME ListingsIInv, [NextListings]_listVars PROVE ListingsIInv'
  OBVIOUS
<1>1. CASE Begin
  BY <1>1, BeginSound
<1>2. CASE CountRows
  BY <1>2, CountRowsSound
<1>3. CASE ReadPage
  BY <1>3, ReadPageSound
<1>4. CASE GroupRows \/ TotalRows
  BY <1>4, SummarySound
<1>5. CASE QueryExport \/ SendRow \/ CloseExport
  BY <1>5, ExportStepSound
<1>6. ASSUME NEW x \in Rows, Enter(x) \/ Depart(x) PROVE ListingsIInv'
  <2>1. CASE Enter(x)
    BY <2>1, EnterSound
  <2>2. CASE Depart(x)
    BY <2>2, DepartSound
  <2> QED BY <1>6, <2>1, <2>2
<1>7. CASE UNCHANGED listVars
  <2>1. /\ reader' = reader /\ listed' = listed /\ rowTime' = rowTime /\ outside' = outside
        /\ rowsIn' = rowsIn /\ entered' = entered /\ departed' = departed
    BY <1>7 DEF listVars
  <2>2. ListingsTypes'
    BY <2>1 DEF ListingsIInv, ListingsTypes
  <2>3. /\ Steady' = Steady
        /\ \A r : /\ Placed(r)' <=> Placed(r)
                  /\ Seen(r)' <=> Seen(r)
                  /\ SeenTwice(r)' <=> SeenTwice(r)
                  /\ CameBefore(r)' <=> CameBefore(r)
                  /\ WentBefore(r)' <=> WentBefore(r)
                  /\ Before(r)' = Before(r)
    BY <2>1 DEF Steady, Placed, Seen, SeenTwice, Before, CameBefore, WentBefore
  <2>4. (OffsetSound => OffsetSound') /\ (CountSound => CountSound') /\ (ExportSound => ExportSound')
    <3>1. OffsetSound => OffsetSound'
      BY <2>1, <2>3 DEF OffsetSound
    <3>2. CountSound => CountSound'
      BY <2>1 DEF CountSound
    <3>3. ExportSound => ExportSound'
      BY <2>1, <2>3, ZenonT(60) DEF ExportSound
    <3> QED BY <3>1, <3>2, <3>3
  <2>5. PagesTell'
    BY <2>1, <2>3 DEF ListingsIInv, PagesTell
  <2> QED BY <2>1, <2>2, <2>4, <2>5 DEF ListingsIInv
<1> QED BY <1>1, <1>2, <1>3, <1>4, <1>5, <1>6, <1>7 DEF NextListings

(***************************************************************************)
(* Reading by LIMIT and OFFSET while rows come and go, for any rows, times *)
(* and limit: a row that was there all the time is missed only if one that *)
(* is listed before it went or one came between the count and the page,    *)
(* and is seen twice only if one that is listed before it came; a list at  *)
(* rest is read as long as its count; and an export is of one moment.      *)
(***************************************************************************)
THEOREM ListingsSound == ListingsSpec => []ListingsInv
<1>1. ListingsSpec => []ListingsIInv
  BY ListingsBegin, ListingsStep, PTL DEF ListingsSpec
<1> QED BY <1>1, ListingsInvariantGives, PTL

\* The rows of a group, and the number of a row among them.
OfGroup(t) == {r \in rowsIn : rowTime[r] = t}
Older == {p \in Rows \X Rows : p[1] < p[2]}
NumberIn(t, r) == RankIn(OfGroup(t), Older, r)

LEMMA NumbersOfGroup ==
    ASSUME rowsIn \subseteq Rows, NEW t
    PROVE  /\ Cardinality(OfGroup(t)) \in Nat
           /\ \A r \in OfGroup(t) : NumberIn(t, r) \in 0..(Cardinality(OfGroup(t)) - 1)
           /\ \A r, s \in OfGroup(t) : NumberIn(t, r) = NumberIn(t, s) => r = s
           /\ \A k \in 1..Cardinality(OfGroup(t)) : \E r \in OfGroup(t) : NumberIn(t, r) = k - 1
<1> DEFINE set == OfGroup(t)
<1>1. IsFiniteSet(set) /\ set \subseteq Rows
  BY ListingsAssumption, FS_Subset DEF OfGroup
<1>2. \A r, s : <<r, s>> \in Older <=> r \in Rows /\ s \in Rows /\ r < s
  BY DEF Older
<1> HIDE DEF set
<1>3. \A r \in set : r \in Rows /\ r \in Nat
  BY <1>1, ListingsAssumption
<1>4. /\ \A r, s \in set : <<r, s>> \in Older => <<s, r>> \notin Older
      /\ \A r, s \in set : r # s => <<r, s>> \in Older \/ <<s, r>> \in Older
      /\ \A r, s, u \in set : <<r, s>> \in Older /\ <<s, u>> \in Older => <<r, u>> \in Older
  BY <1>2, <1>3
<1>5. /\ Cardinality(set) \in Nat
      /\ \A r \in set : RankIn(set, Older, r) \in 0..(Cardinality(set) - 1)
      /\ \A r, s \in set : <<r, s>> \in Older => RankIn(set, Older, r) < RankIn(set, Older, s)
      /\ \A k \in 1..Cardinality(set) : \E r \in set : RankIn(set, Older, r) = k - 1
  BY <1>1, <1>4, RanksIn
<1>6. ASSUME NEW r \in set, NEW s \in set, RankIn(set, Older, r) = RankIn(set, Older, s)
      PROVE  r = s
  <2>1. \A i \in set : RankIn(set, Older, i) \in Nat
    BY <1>5
  <2>2. ~(RankIn(set, Older, r) < RankIn(set, Older, s)) /\ ~(RankIn(set, Older, s) < RankIn(set, Older, r))
    BY <1>6, <2>1
  <2>3. <<r, s>> \notin Older /\ <<s, r>> \notin Older
    BY <1>5, <2>2
  <2> QED BY <1>4, <2>3
<1> QED BY <1>5, <1>6 DEF NumberIn, set

\* The records that the counts speak of are those in the table.
LEMMA CountsAddUp ==
    ASSUME rowsIn \subseteq Rows, rowTime \in [Rows -> 1..MaxRowTime], NEW groups,
           \A t \in 1..MaxRowTime : groups[t] = Cardinality(OfGroup(t))
    PROVE  Cardinality(UNION {{t} \X (1..groups[t]) : t \in 1..MaxRowTime}) = Cardinality(rowsIn)
<1> DEFINE slots == UNION {{t} \X (1..groups[t]) : t \in 1..MaxRowTime}
           slot == [r \in rowsIn |-> <<rowTime[r], NumberIn(rowTime[r], r) + 1>>]
<1>1. IsFiniteSet(rowsIn)
  BY ListingsAssumption, FS_Subset
<1>2. \A p : p \in slots <=> \E t \in 1..MaxRowTime : \E k \in 1..groups[t] : p = <<t, k>>
  <2>1. \A p : p \in slots <=> \E t \in 1..MaxRowTime : p \in {t} \X (1..groups[t])
    OBVIOUS
  <2>2. \A p, t : p \in {t} \X (1..groups[t]) <=> \E k \in 1..groups[t] : p = <<t, k>>
    OBVIOUS
  <2> QED BY <2>1, <2>2
<1>3. \A r \in rowsIn : rowTime[r] \in 1..MaxRowTime /\ r \in OfGroup(rowTime[r])
  BY DEF OfGroup
<1>4. \A t : \A r \in OfGroup(t) : r \in rowsIn /\ rowTime[r] = t
  BY DEF OfGroup
<1> HIDE DEF slots
<1>5. slot \in [rowsIn -> slots]
  <2>1. ASSUME NEW r \in rowsIn PROVE <<rowTime[r], NumberIn(rowTime[r], r) + 1>> \in slots
    <3> DEFINE t == rowTime[r]
               k == NumberIn(t, r) + 1
    <3>1. t \in 1..MaxRowTime /\ r \in OfGroup(t)
      BY <1>3
    <3> HIDE DEF t
    <3>2. k \in 1..groups[t]
      <4>1. Cardinality(OfGroup(t)) \in Nat /\ NumberIn(t, r) \in 0..(Cardinality(OfGroup(t)) - 1)
        BY <3>1, NumbersOfGroup
      <4> QED BY <3>1, <4>1
    <3> HIDE DEF k
    <3>3. <<t, k>> \in slots
      BY <1>2, <3>1, <3>2
    <3> QED BY <3>3 DEF t, k
  <2> QED BY <2>1
<1>6. ASSUME NEW r \in rowsIn, NEW s \in rowsIn, slot[r] = slot[s] PROVE r = s
  <2>1. rowTime[r] = rowTime[s] /\ NumberIn(rowTime[r], r) + 1 = NumberIn(rowTime[s], s) + 1
    BY <1>6
  <2> DEFINE t == rowTime[r]
  <2>2. r \in OfGroup(t) /\ s \in OfGroup(t) /\ NumberIn(t, r) + 1 = NumberIn(t, s) + 1
    BY <1>3, <2>1
  <2> HIDE DEF t
  <2>3. NumberIn(t, r) \in Nat /\ NumberIn(t, s) \in Nat
    BY <2>2, NumbersOfGroup
  <2>4. NumberIn(t, r) = NumberIn(t, s)
    BY <2>2, <2>3
  <2>5. \A i, j \in OfGroup(t) : NumberIn(t, i) = NumberIn(t, j) => i = j
    BY NumbersOfGroup, Zenon
  <2> QED BY <2>2, <2>4, <2>5
<1>7. ASSUME NEW p \in slots PROVE \E r \in rowsIn : slot[r] = p
  <2>0. PICK t \in 1..MaxRowTime : \E k \in 1..groups[t] : p = <<t, k>>
    BY <1>2
  <2>1. PICK k \in 1..groups[t] : p = <<t, k>>
    BY <2>0
  <2>2. k \in 1..Cardinality(OfGroup(t)) /\ Cardinality(OfGroup(t)) \in Nat
    BY <2>1, NumbersOfGroup
  <2>3. PICK r \in OfGroup(t) : NumberIn(t, r) = k - 1
    BY <2>2, NumbersOfGroup
  <2>4. r \in rowsIn /\ rowTime[r] = t
    BY <1>4
  <2>5. NumberIn(t, r) + 1 = k
    BY <2>2, <2>3
  <2>6. slot[r] = <<t, k>>
    BY <2>4, <2>5
  <2> QED BY <2>1, <2>4, <2>6
<1> HIDE DEF slot
<1>8. slot \in Bijection(rowsIn, slots)
  <2>1. \A r, s \in rowsIn : slot[r] = slot[s] => r = s
    BY <1>6
  <2>2. \A p \in slots : \E r \in rowsIn : slot[r] = p
    BY <1>7
  <2> QED BY <1>5, <2>1, <2>2, Zenon DEF Bijection, Injection, Surjection, IsInjective
<1>9. Cardinality(rowsIn) = Cardinality(slots)
  <2>1. ExistsBijection(rowsIn, slots)
    BY <1>8 DEF ExistsBijection
  <2> QED BY <1>1, <2>1, FS_Bijection
<1> QED BY <1>9 DEF slots

\* Where a summary stands: its counts add up to the records, as long as none comes.
SumSound ==
    reader.for = "summary" =>
        /\ listed = "audit"
        /\ reader.pc \in {"totalling", "done"} => GroupSum \in Nat
        /\ reader.pc = "totalling" => AddsUpTo(Cardinality(rowsIn))
        /\ reader.pc = "done" => AddsUpTo(reader.total)

LEMMA SumNext == ListingsIInv /\ SumSound /\ [NextListings]_listVars => SumSound'
<1> SUFFICES ASSUME ListingsIInv, SumSound, [NextListings]_listVars PROVE SumSound'
  OBVIOUS
<1> DEFINE count == Cardinality(rowsIn)
<1>1. /\ rowsIn \subseteq Rows /\ IsFiniteSet(rowsIn) /\ count \in Nat
      /\ reader.for = "summary" => reader \in PageReaders /\ reader.pc \in {"grouping", "totalling", "done"}
      /\ reader.pc \in {"idle", "counting", "reading"} => reader \in PageReaders /\ reader.for = "pages"
      /\ reader.pc \in {"grouping", "totalling"} => reader \in PageReaders /\ reader.for = "summary"
      /\ reader.pc = "querying" => reader.for = "export"
      /\ reader.pc = "sending" => reader \in ExportReaders /\ reader.for = "export"
  <2>1. reader.for = "summary" => reader \in PageReaders /\ reader.pc \in {"grouping", "totalling", "done"}
    BY DEF ListingsIInv, ListingsTypes
  <2> QED BY <2>1, ReaderKinds
<1> HIDE DEF count
<1>2. CASE Begin
  <2>1. /\ reader' \in PageReaders /\ listed' = listed
        /\ reader'.for = "summary" => reader'.pc = "grouping" /\ listed = "audit"
    BY <1>1, <1>2 DEF Begin, PageReaders
  <2> QED BY <2>1 DEF SumSound
<1>3. CASE CountRows \/ ReadPage
  <2>1. reader.pc \in {"counting", "reading"}
    BY <1>3 DEF CountRows, ReadPage
  <2>2. reader \in PageReaders /\ reader.for = "pages"
    BY <1>1, <2>1
  <2>3. reader'.for = "pages"
    BY <1>3, <2>2 DEF CountRows, ReadPage, PageReaders
  <2> QED BY <2>3 DEF SumSound
<1>4. CASE GroupRows
  <2> DEFINE groups == [t \in 1..MaxRowTime |-> Cardinality({r \in rowsIn : GroupColumn(r) = t})]
  <2>1. /\ reader \in PageReaders /\ reader.for = "summary"
        /\ reader' = [reader EXCEPT !.pc = "totalling", !.groups = groups]
        /\ UNCHANGED <<listed, rowsIn>>
    BY <1>1, <1>4 DEF GroupRows
  <2>2. \A t \in 1..MaxRowTime : groups[t] = Cardinality(OfGroup(t))
    BY DEF GroupColumn, OfGroup
  <2> HIDE DEF groups
  <2>3. reader'.groups = groups /\ reader'.pc = "totalling" /\ reader'.raced = reader.raced
    BY <2>1 DEF PageReaders
  <2>4. rowTime \in [Rows -> 1..MaxRowTime]
    BY DEF ListingsIInv, ListingsTypes
  <2>5. GroupSum' = count
    BY <1>1, <2>2, <2>3, <2>4, CountsAddUp DEF GroupSum, count
  <2>6. Cardinality(rowsIn') = count
    BY <2>1 DEF count
  <2> QED BY <1>1, <2>1, <2>3, <2>5, <2>6 DEF SumSound, AddsUpTo
<1>5. CASE TotalRows
  <2>1. /\ reader \in PageReaders /\ reader.for = "summary" /\ reader.pc = "totalling"
        /\ reader' = [reader EXCEPT !.pc = "done", !.total = Total] /\ listed' = listed
    BY <1>1, <1>5 DEF TotalRows
  <2>2. listed = "audit" /\ AddsUpTo(count)
    BY <2>1 DEF SumSound, count
  <2>3. Total = count
    BY <1>1, <2>2 DEF Total, count
  <2>4. /\ reader'.pc = "done" /\ reader'.total = Total /\ reader'.raced = reader.raced
        /\ reader'.groups = reader.groups
    BY <2>1 DEF PageReaders
  <2>5. GroupSum' = GroupSum
    BY <2>4 DEF GroupSum
  <2> QED BY <2>1, <2>2, <2>3, <2>4, <2>5 DEF SumSound, AddsUpTo
<1>6. CASE QueryExport \/ SendRow \/ CloseExport
  <2>1. CASE QueryExport
    <3>1. reader'.for = "export"
      BY <2>1 DEF QueryExport
    <3> QED BY <3>1 DEF SumSound
  <2>2. CASE SendRow \/ CloseExport
    <3>1. reader.pc = "sending"
      BY <2>2 DEF SendRow, CloseExport
    <3>2. reader'.for = "export"
      BY <1>1, <2>2, <3>1 DEF SendRow, CloseExport, ExportReaders
    <3> QED BY <3>2 DEF SumSound
  <2> QED BY <1>6, <2>1, <2>2
<1>7. ASSUME NEW x \in Rows, Enter(x) PROVE SumSound'
  <2>1. /\ x \notin rowsIn /\ rowsIn' = rowsIn \cup {x} /\ listed' = listed /\ reader.pc # "done"
        /\ reader' = IF (reader.pc = "reading" /\ listed \in Totalled) \/ reader.pc = "totalling"
                     THEN [reader EXCEPT !.raced = TRUE] ELSE reader
    BY <1>7 DEF Enter, Reading
  <2>2. Cardinality(rowsIn') = count + 1
    BY <1>1, <2>1, FS_AddElement DEF count
  <2>3. CASE reader.pc = "totalling"
    <3>1. reader \in PageReaders /\ reader.for = "summary" /\ listed = "audit" /\ AddsUpTo(count)
      BY <1>1, <2>3 DEF SumSound, count
    <3>2. /\ reader'.pc = "totalling" /\ reader'.raced = TRUE /\ reader'.groups = reader.groups
      BY <2>1, <2>3, <3>1 DEF PageReaders
    <3>3. GroupSum' = GroupSum
      BY <3>2 DEF GroupSum
    <3>4. GroupSum \in Nat
      BY <2>3, <3>1 DEF SumSound
    <3> QED BY <1>1, <2>1, <2>2, <3>1, <3>2, <3>3, <3>4 DEF SumSound, AddsUpTo
  <2>4. CASE reader.pc # "totalling"
    <3>1. reader'.for = reader.for /\ reader'.pc = reader.pc
      BY <1>1, <2>1, <2>4 DEF PageReaders
    <3> QED BY <2>1, <2>4, <3>1 DEF SumSound
  <2> QED BY <2>3, <2>4
<1>8. ASSUME NEW x \in Rows, Depart(x) PROVE SumSound'
  <2>1. listed # "audit" /\ listed' = listed /\ reader' = reader
    BY <1>8 DEF Depart
  <2> QED BY <2>1 DEF SumSound
<1>9. CASE UNCHANGED listVars
  <2>1. reader' = reader /\ listed' = listed /\ rowsIn' = rowsIn
    BY <1>9 DEF listVars
  <2>2. GroupSum' = GroupSum
    BY <2>1 DEF GroupSum
  <2> QED BY <2>1, <2>2 DEF SumSound, AddsUpTo
<1> QED BY <1>2, <1>3, <1>4, <1>5, <1>6, <1>7, <1>8, <1>9 DEF NextListings

(***************************************************************************)
(* The counts of a summary of the audit log, for any records and groups,   *)
(* add up to its total unless a record came between the two   *)
(* statements; then they are fewer (api/audit.py, get_audit_summary).      *)
(***************************************************************************)
THEOREM SummariesAdd == ListingsSpec => []SummaryAdds
<1>1. InitListings => SumSound
  BY DEF InitListings, Idle, SumSound
<1>2. ListingsSpec => []ListingsIInv
  BY ListingsBegin, ListingsStep, PTL DEF ListingsSpec
<1>3. SumSound => SummaryAdds
  BY DEF SumSound, SummaryAdds
<1> QED BY <1>1, <1>2, <1>3, SumNext, PTL DEF ListingsSpec
=============================================================================
