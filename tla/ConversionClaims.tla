--------------------------- MODULE ConversionClaims ---------------------------
(***************************************************************************)
(* What the repository's comments say of the dictionaries an application   *)
(* sends and the model of the code refutes.                                *)
(***************************************************************************)
EXTENDS Conversions

\* HttpSendMessage and WebSocketSendMessage: headers are "an iterable of [name,
\* value] two-item iterables", and their order is kept in the HTTP response. A
\* response.start keeps lists of two only, and an accept's headers go nowhere.
HeadersReachTheClient ==
    /\ answer.outcome = "response"
    /\ \A i \in 1..Len(dictionary.items) : dictionary.items[i].length = 2
    => \A i \in 1..Len(dictionary.items), field \in FieldNames :
           HeaderName(dictionary.items[i].name) = field => answer.headers[field] # <<>>

=============================================================================
