--------------------------- MODULE EventLoopClaims ---------------------------
(***************************************************************************)
(* What the repository's documentation says of the shared event loop and   *)
(* the model of the code refutes.                                          *)
(***************************************************************************)
EXTENDS EventLoopHandle

\* event_loop_handle.rs, documentation of EventLoopHandle: when the last
\* handle is dropped, the event loop is stopped. stop() is called from another
\* thread and does not wake a loop that is blocked in its selector.
LastDropStops == \A l \in Loops : stopping[l] ~> phase[l] = "stopped"

=============================================================================
