------------------------- MODULE HttpResponseClaims -------------------------
(***************************************************************************)
(* What the repository's documentation says of the response path and the   *)
(* model of the code refutes.                                              *)
(***************************************************************************)
EXTENDS HttpResponse

\* src/README.md, edge cases: a deadlocked application is answered by the 30 s
\* timeout on http.response.start: handle() always returns.
TimeoutBoundsHandle == <>(handle # "waiting")

=============================================================================
