----------------------------- MODULE Federation -----------------------------
(***************************************************************************)
(* Calls to one peer of the federation through its circuit breaker         *)
(* (core/resilience.py).  A discovery (FederationService) asks the breaker *)
(* once for the list of agents and once for each agent's card, and retries *)
(* within what it was allowed; a message (RemoteA2AClient) asks before     *)
(* every attempt.  Each peer has a breaker of its own.                     *)
(***************************************************************************)
EXTENDS Integers, FiniteSets

CONSTANTS
    PeerCalls,          \* discoveries and messages under way at one time
    FailureThreshold,   \* failure_threshold, at least 1
    HalfOpenMaxCalls,   \* half_open_max_calls, at least 1
    MaxAttempts,        \* RetryPolicy.max_attempts, at least 1
    MaxCards,           \* bound of the model: agents in a peer's list
    MaxLeaks            \* bound of the model: calls that end without a record

ASSUME FederationConstants ==
    /\ FailureThreshold \in Nat \ {0} /\ HalfOpenMaxCalls \in Nat \ {0}
    /\ MaxAttempts \in Nat \ {0} /\ MaxCards \in Nat /\ MaxLeaks \in Nat
    /\ IsFiniteSet(PeerCalls)

VARIABLES
    breaker,    \* CircuitBreaker; waited: reset_timeout has passed since opened_at
    peerCall,   \* what each call is doing
    probes,     \* history: calls admitted in this half-open period that go on
    leaked,     \* history: calls admitted in it that ended without a record
    leaks       \* calls that ever did

fedVars == <<breaker, peerCall, probes, leaked, leaks>>

---------------------------------------------------------------------------
(* CircuitBreaker *)

Breakers == [state : {"closed", "open", "half_open"}, failures : 0..FailureThreshold,
             halfOpenCalls : 0..HalfOpenMaxCalls, waited : BOOLEAN]

Closed == [state |-> "closed", failures |-> 0, halfOpenCalls |-> 0, waited |-> FALSE]

\* Only whether the threshold is reached matters of a count beyond it.
OneMore(n) == IF n < FailureThreshold THEN n + 1 ELSE FailureThreshold

\* Half of allow_request: an open breaker that has waited becomes half open.
\* Mutant: the count of the calls of the period before stays.
EnteredKeeps(b) ==
    IF b.state = "open" /\ b.waited THEN [b EXCEPT !.state = "half_open"] ELSE b
Entered(b) ==
    IF b.state = "open" /\ b.waited
    THEN [b EXCEPT !.state = "half_open", !.halfOpenCalls = 0] ELSE b

\* The other half, for a breaker that has been through the first.
Allows(b) ==
    \/ b.state = "closed"
    \/ b.state = "half_open" /\ b.halfOpenCalls < HalfOpenMaxCalls

Counted(b) == IF b.state = "half_open" THEN [b EXCEPT !.halfOpenCalls = @ + 1] ELSE b

\* record_success.  A late answer closes an open breaker too.
\* Mutant: only a closed breaker's count is reset.
SucceededIfClosed(b) == [b EXCEPT !.failures = 0]
Succeeded(b) == IF b.state = "closed" THEN [b EXCEPT !.failures = 0] ELSE Closed

\* record_failure
Failed(b) ==
    IF b.state = "half_open" THEN [b EXCEPT !.state = "open", !.waited = FALSE,
                                            !.failures = FailureThreshold]
    ELSE IF OneMore(b.failures) = FailureThreshold
         THEN [b EXCEPT !.state = "open", !.waited = FALSE, !.failures = FailureThreshold]
         ELSE [b EXCEPT !.failures = OneMore(b.failures)]

---------------------------------------------------------------------------
Calling(kind, at, attempt, cards) ==
    [kind |-> kind, at |-> at, attempt |-> attempt, cards |-> cards]

NoPeerCall == Calling("none", "idle", 1, 0)

PeerCallStates ==
    {NoPeerCall} \cup [kind : {"list", "card", "send"}, at : {"asking", "flying"},
                       attempt : 1..MaxAttempts, cards : 0..MaxCards]

FedTypeOK ==
    /\ breaker \in Breakers
    /\ peerCall \in [PeerCalls -> PeerCallStates]
    /\ probes \subseteq PeerCalls /\ leaked \in 0..MaxLeaks /\ leaks \in 0..MaxLeaks

To(c, state) == peerCall' = [peerCall EXCEPT ![c] = state]

\* After a list or a card, the card of the next agent, if there is one.
NextCard(cards) == IF cards = 0 THEN NoPeerCall ELSE Calling("card", "asking", 1, cards - 1)

Begin(c) ==
    /\ peerCall[c] = NoPeerCall
    /\ \E kind \in {"list", "send"} : To(c, Calling(kind, "asking", 1, 0))
    /\ UNCHANGED <<breaker, probes, leaked, leaks>>

\* allow_request.  What it admits flies: the code awaits nothing before.
Ask(c) ==
    LET b == Entered(breaker)
        enters == breaker.state # b.state
    IN  /\ peerCall[c].at = "asking"
        /\ IF Allows(b)
           THEN /\ breaker' = Counted(b)
                /\ To(c, [peerCall[c] EXCEPT !.at = "flying"])
                /\ probes' = IF b.state # "half_open" THEN {}
                             ELSE IF enters THEN {c} ELSE probes \cup {c}
           ELSE /\ breaker' = b
                /\ To(c, IF peerCall[c].kind = "card" THEN NextCard(peerCall[c].cards)
                         ELSE NoPeerCall)
                /\ probes' = probes
        /\ leaked' = IF enters THEN 0 ELSE leaked
        /\ UNCHANGED leaks

\* An outcome that is recorded ends a half-open period, with its history.
Recorded(b) == breaker' = b /\ probes' = {} /\ leaked' = 0 /\ UNCHANGED leaks

\* The peer has answered, or the card was in the resolver's cache.
Answer(c) ==
    /\ peerCall[c].at = "flying"
    /\ \/ peerCall[c].kind = "list" /\ \E n \in 0..MaxCards : To(c, NextCard(n))
       \/ peerCall[c].kind = "card" /\ To(c, NextCard(peerCall[c].cards))
       \/ peerCall[c].kind = "send" /\ To(c, NoPeerCall)
    /\ Recorded(Succeeded(breaker))

\* The last attempt fails, or one fails with an error that is not retried.
GiveUp(c) ==
    /\ peerCall[c].at = "flying"
    /\ To(c, IF peerCall[c].kind = "card" THEN NextCard(peerCall[c].cards) ELSE NoPeerCall)
    /\ Recorded(Failed(breaker))

\* A discovery tries again with what it was allowed; a message records and asks.
Retry(c) ==
    LET x == [peerCall[c] EXCEPT !.attempt = @ + 1] IN
    /\ peerCall[c].at = "flying" /\ peerCall[c].attempt < MaxAttempts
    /\ \/ /\ x.kind # "send" /\ To(c, x)
          /\ UNCHANGED <<breaker, probes, leaked, leaks>>
       \/ /\ x.kind = "send" /\ To(c, [x EXCEPT !.at = "asking"])
          /\ Recorded(Failed(breaker))

\* A discovery that is cancelled records nothing, for "except Exception" does not
\* catch it; nor does a message whose card the client factory refuses.
Leak(c) ==
    /\ peerCall[c].at = "flying" /\ leaks < MaxLeaks
    /\ To(c, NoPeerCall)
    /\ probes' = probes \ {c}
    /\ leaked' = IF c \in probes THEN leaked + 1 ELSE leaked
    /\ leaks' = leaks + 1
    /\ UNCHANGED breaker

ResetTimeout ==
    /\ breaker.state = "open" /\ ~breaker.waited
    /\ breaker' = [breaker EXCEPT !.waited = TRUE]
    /\ UNCHANGED <<peerCall, probes, leaked, leaks>>

---------------------------------------------------------------------------
InitFed ==
    /\ breaker = Closed /\ peerCall = [c \in PeerCalls |-> NoPeerCall]
    /\ probes = {} /\ leaked = 0 /\ leaks = 0

NextFed ==
    \/ ResetTimeout
    \/ \E c \in PeerCalls :
          Begin(c) \/ Ask(c) \/ Answer(c) \/ GiveUp(c) \/ Retry(c) \/ Leak(c)

\* Every attempt has a timeout and the attempts are counted.
FedFairness ==
    \A c \in PeerCalls : WF_fedVars(Ask(c)) /\ WF_fedVars(Answer(c) \/ GiveUp(c))

FedSpec == InitFed /\ [][NextFed]_fedVars

---------------------------------------------------------------------------
(***************************************************************************)
(* The slots of a half-open breaker are those of calls that were admitted  *)
(* in this period and go on, or that have ended without a record: what     *)
(* earlier periods admitted holds none.  So a breaker that refuses while   *)
(* half open is waiting for a call, or has leaked its slots.               *)
(***************************************************************************)
SlotsAccounted ==
    breaker.state = "half_open" =>
        /\ breaker.halfOpenCalls = Cardinality(probes) + leaked
        /\ breaker.halfOpenCalls > 0
        /\ \A c \in probes : peerCall[c].at = "flying"

\* A breaker is closed only below the threshold.
ClosedBelowThreshold == breaker.state = "closed" => breaker.failures < FailureThreshold

FedInv == FedTypeOK /\ SlotsAccounted /\ ClosedBelowThreshold

(***************************************************************************)
(* A half-open breaker decides, one way or the other, unless one of the    *)
(* calls it admitted leaks.                                                *)
(***************************************************************************)
HalfOpenDecides == (breaker.state = "half_open") ~> (breaker.state # "half_open" \/ leaked > 0)
=============================================================================
