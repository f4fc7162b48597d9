--------------------------- MODULE WebSocketClaims ---------------------------
(***************************************************************************)
(* What the repository's comments and documentation say of WebSocket       *)
(* connections and the model of the code refutes.                          *)
(***************************************************************************)
EXTENDS WebSocketExchange

\* spawn_websocket_forwarding_task, at its end: the response stream is closed
\* only if no close frame was sent, because write_close has closed it already.
\* Either way it is closed; but close_sent is set for every break of the
\* message branch, and the end of the queue is one.
TaskEndClosesStream ==
    handle = "accepted" /\ loop = "done" => closed # "open" \/ clientGone

=============================================================================
