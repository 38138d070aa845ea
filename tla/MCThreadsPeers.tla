-------------------------- MODULE MCThreadsPeers --------------------------
(***************************************************************************)
(* Threads, or calls to a peer: a behavior is one of Threads or one of     *)
(* Federation, the other at rest, where fairness asks nothing of it.       *)
(***************************************************************************)
EXTENDS Threads, Federation, TLC

VARIABLE focus

OneOrg == [u \in {"ann", "bob"} |-> "acme"]

MCInit == InitThreads /\ InitFed /\ focus \in {"threads", "peers"}

MCNext ==
    \/ focus = "threads" /\ NextThreads /\ UNCHANGED <<fedVars, focus>>
    \/ focus = "peers" /\ NextFed /\ UNCHANGED <<threadVars, focus>>

MCSpec ==
    /\ MCInit /\ [][MCNext]_<<threadVars, fedVars, focus>>
    /\ ThreadFairness /\ FedFairness
=============================================================================
