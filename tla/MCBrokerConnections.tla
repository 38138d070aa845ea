------------------------- MODULE MCBrokerConnections -------------------------
(***************************************************************************)
(* The broker of one run, or the connections of the application: a         *)
(* behavior is one of RunBroker or one of Connections, the other at rest.  *)
(***************************************************************************)
EXTENDS RunBroker, Connections, TLC

CONSTANTS task, h1, h2, c1, c2, a1, a2

VARIABLE focus

MCHandlers  == {h1, h2}
MCConsumers == {c1, c2}
NoPatient   == {}
TwoAskers   == {a1, a2}
Symmetry    == Permutations(TwoAskers)

\* The connections at rest start in one of their states only.
MCInit ==
    /\ Init /\ InitConns
    /\ \/ focus = "broker" /\ setupOnInit
       \/ focus = "connections"

MCNext ==
    \/ focus = "broker" /\ Next /\ UNCHANGED <<connVars, focus>>
    \/ focus = "connections" /\ NextConns /\ UNCHANGED <<vars, focus>>

MCSpec == MCInit /\ [][MCNext]_<<vars, connVars, focus>>
=============================================================================
