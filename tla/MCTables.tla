------------------------------ MODULE MCTables ------------------------------
(***************************************************************************)
(* Assistants, scheduled runs, the listings of the tables, or the history  *)
(* of a thread: a behavior is one of these, the others at rest in one of   *)
(* their initial states.                                                   *)
(***************************************************************************)
EXTENDS Assistants, Crons, Listings, ThreadHistory, TLC

VARIABLE focus

OneOrg    == [u \in {"ann", "bob"} |-> "acme"]
TwoGraphs == [x \in {"x", "y"} |-> IF x = "x" THEN "g" ELSE "h"]

ListingsRest == listed = "audit" /\ rowsIn = {} /\ \A r \in Rows : rowTime[r] = 1
HistoryRests == graphOf = "none"

MCInit ==
    /\ InitAssistants /\ InitCrons /\ InitListings /\ InitHistory
    /\ \/ focus \in {"assistants", "crons"} /\ ListingsRest /\ HistoryRests
       \/ focus = "listings" /\ HistoryRests
       \/ focus = "history" /\ ListingsRest

MCNext ==
    \/ focus = "assistants" /\ NextAssistants
       /\ UNCHANGED <<cronVars, listVars, historyVars, focus>>
    \/ focus = "crons" /\ NextCrons
       /\ UNCHANGED <<asstVars, listVars, historyVars, focus>>
    \/ focus = "listings" /\ NextListings
       /\ UNCHANGED <<asstVars, cronVars, historyVars, focus>>
    \/ focus = "history" /\ NextHistory
       /\ UNCHANGED <<asstVars, cronVars, listVars, focus>>

MCSpec ==
    MCInit /\ [][MCNext]_<<asstVars, cronVars, listVars, historyVars, focus>>
=============================================================================
