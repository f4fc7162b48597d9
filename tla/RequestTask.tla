----------------------------- MODULE RequestTask -----------------------------
(***************************************************************************)
(* One request of Node.js to an HTTP application, from compute() to its    *)
(* result (PythonRequestTask and PythonStreamTask of lib.rs): the two      *)
(* halves of the exchange composed, driven by a client that is Rust code.  *)
(*                                                                         *)
(*   - A task of its own writes the whole request body into the request    *)
(*     stream and shuts it down.                                           *)
(*   - compute() calls handle(), then waits for that task, and then, in    *)
(*     the buffered variant only, reads the response to its end.           *)
(*   - One coroutine of the application uses both channels, and its end    *)
(*     frees the objects of both.                                          *)
(*                                                                         *)
(* The writer's clone of the request body keeps both ends of the stream:   *)
(* it does not fail when the forwarder is gone, it waits for room.         *)
(***************************************************************************)
EXTENDS Naturals, Sequences, FiniteSets

CONSTANTS
    MaxUnits,       \* Units of the request body
    WireCapacity,   \* Units the request stream buffers
    MaxMessages,    \* Messages any application may queue (bound)
    MaxCompliant,   \* Messages a compliant application may queue (bound)
    Capacity        \* Units the response stream buffers

ASSUME RequestTaskAssumption ==
    /\ MaxUnits \in Nat
    /\ WireCapacity \in Nat \ {0}
    /\ MaxMessages \in Nat
    /\ MaxCompliant \in Nat
    /\ Capacity \in Nat \ {0}

VARIABLES
    written, wireEnd, read, forwarder, inbox, receiverOpen, receiving, received,
    raised,
    compliant, app, log, awaiting, acked, senderOpen, futureDone, taken, loop, head,
    expired, exception, stream, ended, consumed, clientGone, handle,
    buffered,       \* PythonRequestTask, or else PythonStreamTask
    joined,         \* Whether the loop has seen the end of the forwarder
    task            \* What compute() waits for, or its result

Req == INSTANCE HttpRequestBody

Resp == INSTANCE HttpResponse

requestVars == <<written, wireEnd, read, forwarder, inbox, receiverOpen,
                 receiving, received, raised>>
responseVars == <<compliant, app, log, senderOpen, futureDone, awaiting, acked,
                  taken, loop, head, expired, stream, ended, exception, consumed, clientGone,
                  handle>>
taskVars == <<buffered, joined, task>>
vars == <<requestVars, responseVars, taskVars>>

Init ==
    /\ Req!RequestInit
    /\ Resp!ResponseInit
    /\ compliant
    /\ buffered \in BOOLEAN
    /\ joined = FALSE
    /\ task = "handle"

RequestStep(A) == A /\ UNCHANGED <<responseVars, taskVars>>
ResponseStep(A) == A /\ UNCHANGED <<requestVars, taskVars>>

-----------------------------------------------------------------------------
(* The application: one coroutine, which does one thing at a time. *)

CallReceive ==
    /\ app = "running"
    /\ awaiting = 0
    /\ RequestStep(Req!CallReceive)

ReceiveCompletes == RequestStep(Req!ReceiveCompletes)

SendOrFinish ==
    /\ ~receiving
    /\ ResponseStep(\/ \E msg \in Resp!SendMessages : Resp!Send(msg)
                    \/ \E outcome \in {"returned", "raised"} : Resp!Finish(outcome))

ReleaseSender == ResponseStep(Resp!ReleaseSender)

\* The Receiver lives in the same frames as the Sender: until the coroutine has
\* returned, or until the loop drops the future with the exception in it.
ReleaseReceiver ==
    /\ app = "returned" \/ (app = "raised" /\ loop = "done")
    /\ RequestStep(Req!DropReceiver)

-----------------------------------------------------------------------------
(* The writer of the request body. *)

WriteRequest == RequestStep(Req!ClientWrite)

\* body.shutdown(), after the last byte.
ShutdownRequest ==
    /\ written = MaxUnits
    /\ wireEnd = "open"
    /\ wireEnd' = "eof"
    /\ UNCHANGED <<written, read, forwarder, inbox, receiverOpen, receiving,
                   received, raised, responseVars, taskVars>>

-----------------------------------------------------------------------------
(* The two tasks behind handle(). *)

\* Faulty variant: the request is forwarded by a branch of the select! itself.
ForwarderInLoop == loop = "select" /\ RequestStep(Req!Forwarder)

Forwarder == RequestStep(Req!Forwarder)

CompleteFuture == ResponseStep(Resp!CompleteFuture)

ForwardingTask == ResponseStep(Resp!ForwardingTask)

Expire == ResponseStep(Resp!Expire)

\* The select! branch of the request task, polled until it was ready once.
RequestJoined ==
    /\ loop = "select"
    /\ forwarder = "done"
    /\ ~joined
    /\ joined' = TRUE
    /\ UNCHANGED <<requestVars, responseVars, buffered, task>>

HandleReturns == ResponseStep(Resp!HandleReturns)

BodyDropped == ResponseStep(Resp!BodyDropped)

-----------------------------------------------------------------------------
(* compute(). *)

\* Faulty variant: an error of handle() is not returned at once.
AwaitHandleAny ==
    /\ task = "handle"
    /\ handle # "waiting"
    /\ task' = "writer"
    /\ UNCHANGED <<requestVars, responseVars, buffered, joined>>

AwaitHandle ==
    /\ task = "handle"
    /\ handle # "waiting"
    /\ task' = IF handle = "response" THEN "writer" ELSE "failed"
    /\ UNCHANGED <<requestVars, responseVars, buffered, joined>>

\* Faulty variant: every response is buffered.
AwaitWriterAndBody ==
    /\ task = "writer"
    /\ wireEnd = "eof"
    /\ task' = "body"
    /\ UNCHANGED <<requestVars, responseVars, buffered, joined>>

\* The writer is joined; the streaming variant is done with that.
AwaitWriter ==
    /\ task = "writer"
    /\ wireEnd = "eof"
    /\ task' = IF buffered THEN "body" ELSE "done"
    /\ UNCHANGED <<requestVars, responseVars, buffered, joined>>

\* A frame of the response: read by the buffered variant itself, by Node.js
\* once compute() has returned in the other.
ReadResponse ==
    /\ task = IF buffered THEN "body" ELSE "done"
    /\ ResponseStep(Resp!ClientRead)

\* Faulty variant: reading stops when there is nothing to read for the moment.
ReadEmpty ==
    /\ task = "body"
    /\ consumed = Len(stream)
    /\ task' = "done"
    /\ UNCHANGED <<requestVars, responseVars, buffered, joined>>

\* The response is read to its end. An exception in the holder may surface as
\* an error of the last frame, or stay in the extension of the result.
ReadEnd ==
    /\ task = "body"
    /\ ended
    /\ consumed = Len(stream)
    /\ task' \in {"done"} \cup (IF exception THEN {"failed"} ELSE {})
    /\ UNCHANGED <<requestVars, responseVars, buffered, joined>>

-----------------------------------------------------------------------------

Compute == AwaitHandle \/ AwaitWriter \/ ReadEnd

Next ==
    \/ CallReceive \/ SendOrFinish
    \/ ReceiveCompletes \/ ReleaseSender \/ ReleaseReceiver
    \/ WriteRequest \/ ShutdownRequest
    \/ Forwarder \/ ForwardingTask \/ RequestJoined
    \/ CompleteFuture \/ Expire
    \/ HandleReturns \/ BodyDropped
    \/ Compute \/ ReadResponse

\* Everything but the application's own steps.
Fairness ==
    /\ WF_vars(ReceiveCompletes)
    /\ WF_vars(WriteRequest)
    /\ WF_vars(ShutdownRequest)
    /\ WF_vars(Forwarder)
    /\ WF_vars(ForwardingTask)
    /\ WF_vars(CompleteFuture)
    /\ WF_vars(Expire)
    /\ WF_vars(HandleReturns)
    /\ WF_vars(BodyDropped)
    /\ WF_vars(Compute)
    /\ WF_vars(ReadResponse)

Spec == Init /\ [][Next]_vars

FairSpec == Spec /\ Fairness

-----------------------------------------------------------------------------
(* Correctness. *)

\* A buffered result without an exception is the whole response: all the data
\* the application was told is sent, up to its final message.
BufferedIsWhole ==
    buffered /\ task = "done" /\ ~exception =>
        /\ consumed = Len(stream)
        /\ taken > 0 /\ Resp!IsFinal(taken)
        /\ \A i \in acked : Resp!HasData(i) => Resp!IsWritten(i)

\* The writer gets the whole body into the stream, however big it is, as long as
\* the application keeps its Receiver: nothing in the response path (a stream
\* nobody reads yet, a send() that blocks the loop) holds the request back.
WriterFinishes == <>(wireEnd = "eof" \/ ~receiverOpen)

\* compute() ends when the request is written and the application has ended its
\* response, by its last message or by an exception, or never started one.
ResponseDecided ==
    \/ head \notin {"open", "ok"}
    \/ head = "ok" /\ (app = "raised" \/ \E i \in acked : Resp!IsFinal(i))

ComputeEnds ==
    (wireEnd = "eof" /\ ResponseDecided) ~> (task \in {"done", "failed"})

\* The streaming variant does not wait for the response to end: it returns when
\* the head is decided and the request is written.
HeadersReturnEarly ==
    ~buffered => (wireEnd = "eof" /\ head # "open") ~> (task \in {"done", "failed"})

=============================================================================
