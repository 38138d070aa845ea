------------------------------ MODULE AuditFate ------------------------------
(* What the audit outbox promises of a record: it is captured once, and a     *)
(* captured record ends in the audit log or is given up, never both, and for  *)
(* good.                                                                      *)
EXTENDS FiniteSets

CONSTANT Records
VARIABLE fate

Fates == {"none", "pending", "logged", "given up"}
With(f) == {r \in Records : fate[r] = f}

Init == fate = [r \in Records |-> "none"]

\* Several inserts may become visible at once when a server stops.
Capture ==
  \E S \in SUBSET With("none") :
    fate' = [r \in Records |-> IF r \in S THEN "pending" ELSE fate[r]]

\* A batch settles some of the captured records.
Settle ==
  \E L, G \in SUBSET With("pending") :
    /\ L \cap G = {}
    /\ fate' = [r \in Records |-> IF r \in L THEN "logged"
                                  ELSE IF r \in G THEN "given up" ELSE fate[r]]

Spec == Init /\ [][Capture \/ Settle]_fate
=============================================================================
