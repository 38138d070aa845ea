--------------------------- MODULE MCEventStream ---------------------------
(***************************************************************************)
(* The events of one run on their way to one client, the forms they take,  *)
(* or the tasks of the A2A server: a behavior is one of EventStream, of    *)
(* EventFrames or of A2AExecutor, the others at rest, where fairness asks  *)
(* nothing of them.                                                        *)
(***************************************************************************)
EXTENDS EventStream, EventFrames, A2AExecutor

VARIABLE focus

\* Data after and between text, an image without text, a document in front.
ThreeMessages ==
    { <<Part("text", "a"), Part("text", "b"), Part("data", "x"), Part("data", "y")>>,
      <<Part("data", "empty"), Part("text", "a"), Part("image", "i")>>,
      <<Part("document", "d"), Part("data", "x"), Part("text", "a")>> }

MCInit ==
    /\ Init /\ InitFrames /\ InitA2A
    /\ \/ focus \in {"stream", "a2a"} /\ asked = {"values"} /\ subgraphs = FALSE
       \/ focus = "frames"

MCNext ==
    \/ focus = "stream" /\ Next /\ UNCHANGED <<frameVars, a2aVars, focus>>
    \/ focus = "frames" /\ NextFrames /\ UNCHANGED <<vars, a2aVars, focus>>
    \/ focus = "a2a" /\ NextA2A /\ UNCHANGED <<vars, frameVars, focus>>

MCSpec ==
    MCInit /\ [][MCNext]_<<vars, frameVars, a2aVars, focus>> /\ Fairness
=============================================================================
