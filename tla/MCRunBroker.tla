---------------------------- MODULE MCRunBroker ----------------------------
(* The broker of one run with small sets of streams and cancel requests.   *)
EXTENDS RunBroker

CONSTANTS task, h1, h2, c1, c2

MCHandlers  == {h1, h2}
MCConsumers == {c1, c2}
NoPatient   == {}
PatientC1   == {c1}
=============================================================================
