--------------------------- MODULE MCRunLifecycle ---------------------------
(* One or two runs, on one thread, with few requests.                      *)
EXTENDS RunLifecycle, TLC

CONSTANTS r1, r2, t1, q1, q2, noRun, noThread

OneRun  == {r1}
TwoRuns == {r1, r2}
T1      == {t1}
OneRequest  == {q1}
TwoRequests == {q1, q2}
OneThreadOf == [r \in Runs |-> t1]
NoStream    == {}
NoRequest   == {}
Symmetry    == Permutations(TwoRuns) \cup Permutations(TwoRequests)
=============================================================================
