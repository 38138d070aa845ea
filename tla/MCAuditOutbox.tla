---------------------------- MODULE MCAuditOutbox ----------------------------
(* Two servers and two requests.                                           *)
EXTENDS AuditOutbox

CONSTANTS s1, s2, q1, q2

TwoServers == {s1, s2}
TwoRequests == {q1, q2}

AtBoth == [q \in Requests |-> IF q = q2 THEN s2 ELSE s1]

BadFirst == {<<q1, 1>>}
=============================================================================
