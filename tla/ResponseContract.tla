-------------------------- MODULE ResponseContract --------------------------
(***************************************************************************)
(* What Asgi::handle promises for one HTTP request, with queue, oneshot,   *)
(* select! loop and timer left out: one decision, then a stream that takes *)
(* one chunk from the application at a time and ends at most once.         *)
(*                                                                         *)
(* An application that does not keep to the protocol may also fill and end *)
(* the stream of a response it never starts.                               *)
(***************************************************************************)
EXTENDS Naturals

VARIABLES
    compliant,  \* Whether the application keeps to the ASGI protocol
    outcome,    \* Whether the request got a response
    accepted,   \* Data chunks whose send() has returned
    delivered,  \* Data chunks in the response stream
    ending      \* How the response stream ended, "open" before it does

contractVars == <<compliant, outcome, accepted, delivered, ending>>

Streaming ==
    /\ outcome = "response" \/ (outcome = "pending" /\ ~compliant)
    /\ ending = "open"

Init ==
    /\ compliant \in BOOLEAN
    /\ outcome = "pending"
    /\ accepted = 0
    /\ delivered = 0
    /\ ending = "open"

\* Exactly one of a response and a failure, whatever the application does.
Decide ==
    /\ outcome = "pending"
    /\ outcome' \in {"response", "failure"}
    /\ UNCHANGED <<compliant, accepted, delivered, ending>>

\* Backpressure: a chunk is accepted only when the one before it is delivered.
Accept ==
    /\ Streaming
    /\ accepted = delivered
    /\ accepted' = accepted + 1
    /\ UNCHANGED <<compliant, outcome, delivered, ending>>

Deliver ==
    /\ Streaming
    /\ delivered < accepted
    /\ delivered' = delivered + 1
    /\ UNCHANGED <<compliant, outcome, accepted, ending>>

\* The response ends, complete or broken by an error the reader is told of,
\* with everything that was accepted in it. What was never started fails.
Finish ==
    /\ Streaming
    /\ accepted = delivered
    /\ ending' \in {"complete", "broken"}
    /\ outcome' = IF outcome = "pending" THEN "failure" ELSE outcome
    /\ UNCHANGED <<compliant, accepted, delivered>>

Next == Decide \/ Accept \/ Deliver \/ Finish

Spec == Init /\ [][Next]_contractVars

FairSpec == Spec /\ WF_contractVars(compliant /\ Decide)

=============================================================================
