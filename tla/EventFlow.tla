------------------------------ MODULE EventFlow ------------------------------
(* What the broker of a run promises of the events of the graph: they are      *)
(* shown in their order, each to one stream and once; only drop-oldest gives   *)
(* up events that were accepted, always the oldest one there is; and behind an *)
(* event that was refused none is accepted any more.                           *)
EXTENDS Naturals

CONSTANTS MaxEvents, DropOldest
VARIABLE fate

Numbers == 1..MaxEvents

\* The next event to come, and the oldest and the newest one on its way.
IsNext(n)   == fate[n] = "none" /\ \A m \in 1..(n - 1) : fate[m] # "none"
IsOldest(n) == fate[n] = "coming" /\ \A m \in Numbers : fate[m] = "coming" => n <= m
IsNewest(n) == fate[n] = "coming" /\ \A m \in Numbers : fate[m] = "coming" => m <= n
IsOpen      == \A n \in Numbers : fate[n] # "refused"

Init == fate = [n \in Numbers |-> "none"]

Accept(n) == IsNext(n) /\ IsOpen /\ fate' = [fate EXCEPT ![n] = "coming"]
Refuse(n) == IsNext(n) /\ fate' = [fate EXCEPT ![n] = "refused"]

Show(n) == IsOldest(n) /\ fate' = [fate EXCEPT ![n] = "shown"]

\* Room for the sign of the end, or for the next event.
Drop(n) ==
  /\ DropOldest /\ IsOldest(n)
  /\ \/ fate' = [fate EXCEPT ![n] = "dropped"]
     \/ \E k \in Numbers :
          IsNext(k) /\ IsOpen /\ fate' = [fate EXCEPT ![n] = "dropped", ![k] = "coming"]

\* The task that waits for room with the newest event is cancelled.
GiveUp(n) == ~DropOldest /\ IsNewest(n) /\ fate' = [fate EXCEPT ![n] = "refused"]

\* Each step changes the fate of its event.
Next ==
  \E n \in Numbers :
    /\ fate'[n] # fate[n]
    /\ Accept(n) \/ Refuse(n) \/ Show(n) \/ Drop(n) \/ GiveUp(n)

Spec == Init /\ [][Next]_fate
=============================================================================
