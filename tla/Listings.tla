------------------------------ MODULE Listings ------------------------------
(***************************************************************************)
(* Reading a table in pages while it changes: the lists of audit records,  *)
(* threads, runs, crons, flags, overrides, rules and assistants, the       *)
(* summary of the audit log and its export (api/audit.py, api/threads.py,  *)
(* api/runs.py, api/runs_standalone.py, api/crons.py and the services of   *)
(* flags, rules and assistants).                                           *)
(*                                                                         *)
(* Every list is a LIMIT and an OFFSET on a new query.  A statement sees   *)
(* what is committed when it begins, so that a count and the page behind   *)
(* it, though one request, need not agree.                                 *)
(***************************************************************************)
EXTENDS Naturals, FiniteSets, FiniteSetsExt, Sequences, SequencesExt

CONSTANTS
    Lists,          \* the lists that are read
    Rows,           \* rows a list may have; the greater the number, the newer
    MaxRowTime,     \* bound on the times of rows
    PageLimit       \* limit of the request

ASSUME ListingsAssumption ==
    /\ Lists \subseteq {"audit", "crons", "flags", "overrides", "rules", "threads",
                        "assistants", "runs", "foundRuns"}
    /\ Rows \subseteq Nat /\ IsFiniteSet(Rows)
    /\ MaxRowTime \in Nat \ {0} /\ PageLimit \in Nat \ {0}

VARIABLES
    listed,         \* the list that is read
    rowTime,        \* the time by which a row is sorted
    outside,        \* rows of the organization that the filter leaves out
    rowsIn,         \* rows that are in the table and match the filter
    entered,        \* rows that came while the client reads (history)
    departed,       \* rows that went while the client reads (history)
    reader          \* the client

listVars == <<listed, rowTime, outside, rowsIn, entered, departed, reader>>

Reading == reader.pc \notin {"idle", "done"}
Totalled == {"audit", "crons", "flags", "overrides", "rules"}
Counted == Totalled \cup {"threads", "assistants"}

-----------------------------------------------------------------------------
(* The queries.                                                            *)

\* The orders in which a statement may return the rows: rows of the same time
\* come in any order, another one in each query.
SortedOrders ==
    {order \in SetToSeqs(rowsIn) :
        \A i, j \in 1..Len(order) : i < j => rowTime[order[i]] >= rowTime[order[j]]}
AnyOrders == SetToSeqs(rowsIn)

\* The pages a query with this order may return to a client that has this many.
PagesOf(orders) ==
    {SubSeq(order, Len(reader.got) + 1,
            Min({Len(reader.got) + PageLimit, Len(order)})) : order \in orders}

ListAuditLogs == PagesOf(SortedOrders)
SearchThreads == PagesOf(SortedOrders)
ListRuns == PagesOf(SortedOrders)
SearchRuns == PagesOf(SortedOrders)
SearchCrons == PagesOf(SortedOrders)
ListFlags == PagesOf(SortedOrders)
ListOverrides == PagesOf(SortedOrders)
\* Priority first, which stands for the time here.
ListRules == PagesOf(SortedOrders)
\* search_assistants sorts by nothing.
SearchAssistants == PagesOf(AnyOrders)

Pages ==
    CASE listed = "audit"      -> ListAuditLogs
      [] listed = "threads"    -> SearchThreads
      [] listed = "runs"       -> ListRuns
      [] listed = "foundRuns"  -> SearchRuns
      [] listed = "crons"      -> SearchCrons
      [] listed = "flags"      -> ListFlags
      [] listed = "overrides"  -> ListOverrides
      [] listed = "rules"      -> ListRules
      [] listed = "assistants" -> SearchAssistants

\* The total of rules disregards the filter.
Total == Cardinality(rowsIn) + (IF listed = "rules" THEN outside ELSE 0)

\* A total that is compared with the index of the last row.
HasMoreShort(page) ==
    IF listed \in Totalled THEN Len(reader.got) + Len(page) + 1 < reader.total
    ELSE Len(page) = PageLimit

\* has_more of the audit log; the other lists leave it to the client, which
\* compares with the total, or takes a full page for one that has a successor.
HasMore(page) ==
    IF listed \in Totalled THEN Len(reader.got) + Len(page) < reader.total
    ELSE Len(page) = PageLimit

-----------------------------------------------------------------------------

Idle == [pc |-> "idle", for |-> "pages", total |-> 0, got |-> <<>>,
         groups |-> [t \in 1..MaxRowTime |-> 0], raced |-> FALSE]

InitListings ==
    /\ listed \in Lists
    /\ rowTime \in {times \in [Rows -> 1..MaxRowTime] :
                      \A r, s \in Rows : r < s => times[r] <= times[s]}
    /\ outside \in IF listed = "rules" THEN {0, 1} ELSE {0}
    /\ rowsIn \in SUBSET Rows
    /\ entered = {} /\ departed = {}
    /\ reader = Idle

Begin ==
    /\ reader.pc = "idle"
    /\ \/ reader' = [reader EXCEPT !.pc = IF listed \in Counted THEN "counting" ELSE "reading"]
       \/ /\ listed = "audit"
          /\ \/ reader' = [reader EXCEPT !.pc = "grouping", !.for = "summary"]
             \/ reader' = [reader EXCEPT !.pc = "querying", !.for = "export"]
    /\ UNCHANGED <<listed, rowTime, outside, rowsIn, entered, departed>>

\* The count in front of a page, or a request of its own.
CountRows ==
    /\ reader.pc = "counting"
    /\ reader' = [reader EXCEPT !.pc = "reading", !.total = Total]
    /\ UNCHANGED <<listed, rowTime, outside, rowsIn, entered, departed>>

ReadPage ==
    /\ reader.pc = "reading"
    /\ \E page \in Pages :
         reader' = [reader EXCEPT
            !.got = @ \o page,
            !.pc = IF page = <<>> \/ ~HasMore(page) THEN "done"
                   ELSE IF listed \in Totalled THEN "counting" ELSE "reading"]
    /\ UNCHANGED <<listed, rowTime, outside, rowsIn, entered, departed>>

\* A column that is null in some records, which are then of no group.
GroupColumnOrNull(r) == IF rowTime[r] = 1 THEN 0 ELSE rowTime[r]

\* The column by which a summary groups; here the day, which is that of the time.
GroupColumn(r) == rowTime[r]

\* get_audit_summary: a count for each group that has rows, and then, by another
\* statement, of all.
GroupRows ==
    /\ reader.pc = "grouping"
    /\ reader' = [reader EXCEPT !.pc = "totalling",
                    !.groups = [t \in 1..MaxRowTime |->
                                  Cardinality({r \in rowsIn : GroupColumn(r) = t})]]
    /\ UNCHANGED <<listed, rowTime, outside, rowsIn, entered, departed>>

TotalRows ==
    /\ reader.pc = "totalling"
    /\ reader' = [reader EXCEPT !.pc = "done", !.total = Total]
    /\ UNCHANGED <<listed, rowTime, outside, rowsIn, entered, departed>>

\* export_audit_logs: the rows of one statement, sent while others come.  The
\* cursor is what is still to be sent.
QueryExport ==
    /\ reader.pc = "querying"
    /\ \E order \in SortedOrders :
         reader' = [pc |-> "sending", for |-> "export", cursor |-> order, got |-> <<>>]
    /\ UNCHANGED <<listed, rowTime, outside, rowsIn, entered, departed>>

\* _stream_csv: a row at a time; the client may leave in between.
SendRow ==
    /\ reader.pc = "sending" /\ reader.cursor # <<>>
    /\ \/ reader' = [reader EXCEPT !.got = Append(@, Head(reader.cursor)),
                                   !.cursor = Tail(@)]
       \/ reader' = [reader EXCEPT !.pc = "left"]
    /\ UNCHANGED <<listed, rowTime, outside, rowsIn, entered, departed>>

\* _stream_json: the rows likewise, and the closing bracket behind the last.
CloseExport ==
    /\ reader.pc = "sending" /\ reader.cursor = <<>>
    /\ reader' = [reader EXCEPT !.pc = "done"]
    /\ UNCHANGED <<listed, rowTime, outside, rowsIn, entered, departed>>

\* A row is inserted, or begins to match the filter; an audit record, which the
\* mover brings, may be older than those already there.
Enter(r) ==
    /\ Reading /\ r \notin rowsIn \cup departed
    /\ rowsIn' = rowsIn \cup {r} /\ entered' = entered \cup {r}
    /\ reader' = IF (reader.pc = "reading" /\ listed \in Totalled) \/ reader.pc = "totalling"
                 THEN [reader EXCEPT !.raced = TRUE] ELSE reader
    /\ UNCHANGED <<listed, rowTime, outside, departed>>

\* A row is deleted, or does not match any more; audit records stay.
Depart(r) ==
    /\ Reading /\ r \in rowsIn \ entered /\ listed # "audit"
    /\ rowsIn' = rowsIn \ {r} /\ departed' = departed \cup {r}
    /\ UNCHANGED <<listed, rowTime, outside, entered, reader>>

NextListings ==
    \/ Begin \/ CountRows \/ ReadPage \/ GroupRows \/ TotalRows
    \/ QueryExport \/ SendRow \/ CloseExport
    \/ \E r \in Rows : Enter(r) \/ Depart(r)

ListingsSpec == InitListings /\ [][NextListings]_listVars

-----------------------------------------------------------------------------
(* Properties.                                                             *)

ListingsTypeOK ==
    /\ listed \in Lists /\ rowsIn \subseteq Rows
    /\ entered \subseteq rowsIn /\ departed \cap rowsIn = {}

Seen(r) == r \in ToSet(reader.got)
SeenTwice(r) == \E i, j \in 1..Len(reader.got) : i < j /\ reader.got[i] = r /\ reader.got[j] = r
\* The place of r in the list is the same in every query.
Placed(r) ==
    /\ listed # "assistants"
    /\ \A s \in (rowsIn \cup departed) \ {r} : rowTime[s] # rowTime[r]
Steady == rowsIn \ entered

\* A client that reads page after page sees every row that was there all the time,
\* unless a row that is listed before it went, or, where the end is told by a
\* total, one came between the count and the page; sees none twice unless a row
\* that is listed before it came; and, if nothing came or went, as many as the
\* count said.  Rows without a place of their own have no such claim.
PagesTell ==
    reader.for = "pages" =>
        /\ \A r \in Steady :
              reader.pc = "done" /\ Placed(r) /\ ~Seen(r) =>
                 \/ \E s \in departed : rowTime[s] > rowTime[r]
                 \/ reader.raced
        /\ \A r \in Steady :
              Placed(r) /\ SeenTwice(r) => \E s \in entered : rowTime[s] > rowTime[r]
        /\ reader.pc = "done" /\ entered = {} /\ departed = {} /\ listed \in Counted =>
              Len(reader.got) = reader.total - outside

\* The sum of the counts of a summary: as many records, each a number of its group.
GroupSum == Cardinality(UNION {{t} \X (1..reader.groups[t]) : t \in 1..MaxRowTime})
AddsUpTo(total) ==
    /\ GroupSum <= total
    /\ ~reader.raced => GroupSum = total

\* The counts of a summary add up to its total, unless a record came in between:
\* then they are fewer.
SummaryAdds ==
    reader.for = "summary" /\ reader.pc = "done" => AddsUpTo(reader.total)

\* An export is sorted and has no record twice, whatever comes while it is sent; if
\* it came to its end it has all that were there when it was asked for.
ExportIsWhole ==
    reader.for = "export" =>
        /\ \A i, j \in 1..Len(reader.got) :
              i < j => /\ reader.got[i] # reader.got[j]
                       /\ rowTime[reader.got[i]] >= rowTime[reader.got[j]]
        /\ reader.pc = "done" => Steady \subseteq ToSet(reader.got)

ListingsInv == ListingsTypeOK /\ PagesTell /\ ExportIsWhole
=============================================================================
