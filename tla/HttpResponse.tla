---------------------------- MODULE HttpResponse ----------------------------
(***************************************************************************)
(* The response half of one HTTP exchange.  Four parties:                  *)
(*                                                                         *)
(*   - the Python application, which calls `await send(message)`; the call *)
(*     queues the message with an acknowledgement channel and waits for it *)
(*     (sender.rs);                                                        *)
(*   - the forwarding task (spawn_http_forwarding_task), a select! loop    *)
(*     over the queue, the future of the application, a 30 s timer and the *)
(*     end of the request forwarder (RequestJoined in RequestTask);        *)
(*   - Asgi::handle, which waits on a oneshot channel for the head of the  *)
(*     response or an error, and returns it to its caller;                 *)
(*   - the client, which reads the response stream once it has the head.   *)
(*                                                                         *)
(* A message is known by its place in `log`, the messages queued so far;   *)
(* body data is one unit in the stream, named by its message.              *)
(***************************************************************************)
EXTENDS Naturals, Sequences, FiniteSets

CONSTANTS
    MaxMessages,    \* Messages any application may queue (bound)
    MaxCompliant,   \* Messages a compliant application may queue (bound)
    Capacity        \* Units the response stream buffers

ASSUME ResponseAssumption ==
    /\ MaxMessages \in Nat
    /\ MaxCompliant \in Nat
    /\ Capacity \in Nat \ {0}

VARIABLES
    compliant,      \* Whether the application keeps to the ASGI protocol
    app,            \* The application's coroutine
    log,            \* History: the messages queued by send(), in order
    awaiting,       \* The message whose send() waits for its ack; 0 for none
    acked,          \* History: the messages whose send() returned normally
    senderOpen,     \* Whether Python still owns the Sender object
    futureDone,     \* Whether the asyncio future has its result
    taken,          \* How many messages the loop has received
    loop,           \* Where the forwarding task is
    head,           \* The oneshot: "open" while response_tx.is_some()
    expired,        \* Whether 30 s have passed since the task started
    exception,      \* Whether response_exception holds an error
    stream,         \* The units written to the response stream, in order
    ended,          \* Whether the stream was shut down
    consumed,       \* How many units the client has read
    clientGone,     \* Whether the client's end of the stream is closed
    handle          \* What Asgi::handle did

appVars == <<compliant, app, log, senderOpen, futureDone>>
ackVars == <<awaiting, acked>>
loopVars == <<taken, loop, head, expired>>
streamVars == <<stream, ended, exception>>
clientVars == <<consumed, clientGone, handle>>
responseVars == <<appVars, ackVars, loopVars, streamVars, clientVars>>

\* HttpSendMessage: whether a body message has data is all that matters of it.
Start == [kind |-> "start", data |-> FALSE, more_body |-> TRUE]
Body(data, more) == [kind |-> "body", data |-> data, more_body |-> more]

Message == [kind: {"start", "body"}, data: BOOLEAN, more_body: BOOLEAN]

\* What the conversion of a dictionary may give: body and more_body default to
\* empty and FALSE, and any other type of message raises before it is queued.
SendMessages == {Start} \cup {Body(d, m) : d, m \in BOOLEAN}

IsStart(i) == log[i].kind = "start"
IsFinal(i) == log[i].kind = "body" /\ ~log[i].more_body
HasData(i) == log[i].kind = "body" /\ log[i].data

\* Message i was written to the stream.
IsWritten(i) == \E k \in 1..Len(stream) : stream[k] = i

FlagsOK ==
    /\ compliant \in BOOLEAN
    /\ senderOpen \in BOOLEAN
    /\ futureDone \in BOOLEAN
    /\ expired \in BOOLEAN
    /\ exception \in BOOLEAN
    /\ ended \in BOOLEAN
    /\ clientGone \in BOOLEAN

MessagesOK ==
    /\ log \in Seq(Message)
    /\ awaiting \in 0..Len(log)
    /\ acked \in SUBSET (1..Len(log))
    /\ taken \in 0..Len(log)
    /\ stream \in Seq(1..Len(log))
    /\ consumed \in 0..Len(stream)

StatesOK ==
    /\ app \in {"running", "returned", "raised"}
    /\ loop \in {"select", "write", "close", "raise", "done"}
    /\ head \in {"open", "ok", "pyerror", "timeout", "dropped"}
    /\ handle \in {"waiting", "response", "badhead", "pyerror", "noresponse",
                   "cancelled"}

ResponseTypeOK == FlagsOK /\ MessagesOK /\ StatesOK

ResponseInit ==
    /\ compliant \in BOOLEAN
    /\ app = "running"
    /\ log = <<>>
    /\ awaiting = 0
    /\ acked = {}
    /\ senderOpen = TRUE
    /\ futureDone = FALSE
    /\ taken = 0
    /\ loop = "select"
    /\ head = "open"
    /\ expired = FALSE
    /\ exception = FALSE
    /\ stream = <<>>
    /\ ended = FALSE
    /\ consumed = 0
    /\ clientGone = FALSE
    /\ handle = "waiting"

-----------------------------------------------------------------------------
(* The Python application. *)

\* An application that keeps to the protocol sends one response.start, first,
\* and nothing after the final body message.
Conforms(msg) ==
    /\ (msg.kind = "start") <=> (log = <<>>)
    /\ \A i \in 1..Len(log) : ~IsFinal(i)

Bound == IF compliant THEN MaxCompliant ELSE MaxMessages

\* Sender.__call__ queues the message; `&mut self` admits one call at a time.
\* When the loop is done its receiver is gone, and the call raises
\* "connection closed" without queueing anything.
Send(msg) ==
    /\ app = "running"
    /\ senderOpen
    /\ awaiting = 0
    /\ Len(log) < Bound
    /\ loop # "done"
    /\ compliant => Conforms(msg)
    /\ log' = Append(log, msg)
    /\ awaiting' = Len(log) + 1
    /\ UNCHANGED <<compliant, app, senderOpen, futureDone, acked, loopVars,
                   streamVars, clientVars>>

\* The coroutine in send() is cancelled: its message stays in the queue, and
\* nobody waits for the acknowledgement any more.
CancelSend ==
    /\ ~compliant
    /\ awaiting # 0
    /\ awaiting' = 0
    /\ UNCHANGED <<appVars, acked, loopVars, streamVars, clientVars>>

\* The coroutine returns or raises. A call to send() is still out only when
\* the application left it to a task of its own.
Finish(outcome) ==
    /\ app = "running"
    /\ compliant => awaiting = 0
    /\ app' = outcome
    /\ UNCHANGED <<compliant, log, senderOpen, futureDone, ackVars, loopVars,
                   streamVars, clientVars>>

\* Python frees the Sender. An exception's traceback keeps the frames, and the
\* Sender in them, alive as long as the future; an application that is not
\* compliant may have deleted it before.
ReleaseSender ==
    /\ senderOpen
    /\ awaiting = 0
    /\ compliant => app = "returned"
    /\ senderOpen' = FALSE
    /\ UNCHANGED <<compliant, app, log, futureDone, ackVars, loopVars,
                   streamVars, clientVars>>

\* The event loop sets the result of the concurrent future.
CompleteFuture ==
    /\ app # "running"
    /\ ~futureDone
    /\ futureDone' = TRUE
    /\ UNCHANGED <<compliant, app, log, senderOpen, ackVars, loopVars,
                   streamVars, clientVars>>

-----------------------------------------------------------------------------
(* The forwarding task. *)

\* ack.send(()) succeeds when the call that queued message i still waits.
Acked(i) ==
    /\ awaiting = i
    /\ awaiting' = 0
    /\ acked' = acked \cup {i}

\* The acknowledgement channel of message i is dropped unused: its send()
\* raises "message not acknowledged".
AckDropped(i) ==
    /\ awaiting' = IF awaiting = i THEN 0 ELSE awaiting
    /\ acked' = acked

\* Faulty variant: the queue outlives the loop.
ExitKeepingQueue(result) ==
    /\ loop' = "done"
    /\ head' = IF result = "open" THEN "dropped" ELSE result
    /\ awaiting' = awaiting

\* The task ends: it drops response_tx, the stream's writer, and the queue
\* with the acknowledgement channels in it. `result` is what the oneshot holds.
Exit(result) ==
    /\ loop' = "done"
    /\ head' = IF result = "open" THEN "dropped" ELSE result
    /\ awaiting' = 0

\* Faulty variant: the final message only closes the stream.
AfterAckFinalFirst(i) ==
    IF IsFinal(i) THEN "close" ELSE IF HasData(i) THEN "write" ELSE "select"

\* Faulty variant: data that comes before the head is passed over.
AfterAckOnceStarted(i) ==
    IF HasData(i) /\ head = "ok" THEN "write" ELSE IF IsFinal(i) THEN "close" ELSE "select"

\* What the loop does once the body message i is acknowledged.
AfterAck(i) ==
    IF HasData(i) THEN "write" ELSE IF IsFinal(i) THEN "close" ELSE "select"

AfterWrite(i) == IF IsFinal(i) THEN "close" ELSE "select"

\* The select! branch of the queue gives the loop a message of this kind.
Receives(kind) ==
    /\ loop = "select"
    /\ taken < Len(log)
    /\ log[taken + 1].kind = kind
    /\ taken' = taken + 1

\* Faulty variant: the handler returns before it acknowledges the message.
ForwardStartUnacked ==
    /\ Receives("start")
    /\ head = "open"
    /\ handle # "cancelled"
    /\ head' = "ok"
    /\ AckDropped(taken + 1)
    /\ loop' = loop
    /\ UNCHANGED <<appVars, expired, streamVars, clientVars>>

\* Faulty variant: the call is acknowledged, and the head held back until there
\* is a body to send it with.
ForwardStartHeldBack ==
    /\ Receives("start")
    /\ head = "open"
    /\ handle # "cancelled"
    /\ Acked(taken + 1)
    /\ UNCHANGED <<appVars, head, loop, expired, streamVars, clientVars>>

\* response.start: the head goes to handle(), then the call is acknowledged.
ForwardStart ==
    /\ Receives("start")
    /\ head = "open"
    /\ handle # "cancelled"
    /\ head' = "ok"
    /\ Acked(taken + 1)
    /\ loop' = loop
    /\ UNCHANGED <<appVars, expired, streamVars, clientVars>>

\* response.start, but handle() dropped its end of the oneshot, or nobody
\* waits for the acknowledgement: the loop breaks.
StopAtStart ==
    /\ Receives("start")
    /\ head = "open"
    /\ handle = "cancelled" \/ awaiting # taken + 1
    /\ Exit("ok")
    /\ UNCHANGED <<appVars, acked, expired, streamVars, clientVars>>

\* A second response.start falls to the last arm of the match, which drops the
\* message and its acknowledgement channel.
IgnoreStart ==
    /\ Receives("start")
    /\ head # "open"
    /\ AckDropped(taken + 1)
    /\ loop' = loop
    /\ UNCHANGED <<appVars, head, expired, streamVars, clientVars>>

\* response.body is acknowledged first; writing comes after.
AcceptBody ==
    /\ Receives("body")
    /\ Acked(taken + 1)
    /\ loop' = AfterAck(taken + 1)
    /\ UNCHANGED <<appVars, head, expired, streamVars, clientVars>>

StopAtBody ==
    /\ Receives("body")
    /\ awaiting # taken + 1
    /\ Exit(head)
    /\ UNCHANGED <<appVars, acked, expired, streamVars, clientVars>>

\* write_all, inline in the handler of the message: while it waits for room,
\* no branch of the select! is polled, the timer included.
WriteBody ==
    /\ loop = "write"
    /\ ~clientGone
    /\ Len(stream) - consumed < Capacity
    /\ stream' = Append(stream, taken)
    /\ loop' = AfterWrite(taken)
    /\ UNCHANGED <<appVars, ackVars, taken, head, expired, ended, exception,
                   clientVars>>

\* Faulty variant: a full stream is taken for a closed one (try_write).
WriteFailsWhenFull ==
    /\ loop = "write"
    /\ clientGone \/ Len(stream) - consumed = Capacity
    /\ Exit(head)
    /\ UNCHANGED <<appVars, acked, taken, expired, streamVars, clientVars>>

WriteFails ==
    /\ loop = "write"
    /\ clientGone
    /\ Exit(head)
    /\ UNCHANGED <<appVars, acked, taken, expired, streamVars, clientVars>>

\* Faulty variant: the loop breaks without shutting the stream down.
CloseWithoutShutdown ==
    /\ loop = "close"
    /\ Exit(head)
    /\ UNCHANGED <<appVars, acked, taken, expired, streamVars, clientVars>>

\* Faulty variant: the loop goes on after the final message.
CloseAndGoOn ==
    /\ loop = "close"
    /\ ended' = TRUE
    /\ loop' = "select"
    /\ UNCHANGED <<appVars, ackVars, taken, head, expired, stream,
                   exception, clientVars>>

\* The final body message: the write side is shut down and the loop breaks.
CloseStream ==
    /\ loop = "close"
    /\ ended' = TRUE
    /\ Exit(head)
    /\ UNCHANGED <<appVars, acked, taken, expired, stream, exception,
                   clientVars>>

\* recv() gives None: the queue is empty and Python freed the Sender.
QueueClosed ==
    /\ loop = "select"
    /\ taken = Len(log)
    /\ ~senderOpen
    /\ Exit(head)
    /\ UNCHANGED <<appVars, acked, taken, expired, streamVars, clientVars>>

\* The future poller finds a normal result: the loop breaks, and nothing shuts
\* the stream down.
FutureReturned ==
    /\ loop = "select"
    /\ futureDone
    /\ app = "returned"
    /\ Exit(head)
    /\ UNCHANGED <<appVars, acked, taken, expired, streamVars, clientVars>>

\* Faulty variant: the error is dropped with the oneshot.
RaisedBeforeHeadDropped ==
    /\ loop = "select"
    /\ futureDone
    /\ app = "raised"
    /\ head = "open"
    /\ Exit(head)
    /\ UNCHANGED <<appVars, acked, taken, expired, streamVars, clientVars>>

\* The future poller finds an exception and the head was not sent.
RaisedBeforeHead ==
    /\ loop = "select"
    /\ futureDone
    /\ app = "raised"
    /\ head = "open"
    /\ Exit("pyerror")
    /\ UNCHANGED <<appVars, acked, taken, expired, streamVars, clientVars>>

\* Faulty variant: the stream is shut down before the error is stored.
RaisedAfterHeadLate ==
    /\ loop = "select"
    /\ futureDone
    /\ app = "raised"
    /\ head # "open"
    /\ ended' = TRUE
    /\ loop' = "raise"
    /\ UNCHANGED <<appVars, ackVars, taken, head, expired, stream,
                   exception, clientVars>>

\* Faulty variant: the error is stored and the stream closed although the head
\* was not sent, and the oneshot is dropped.
RaisedWhateverTheHead ==
    /\ loop = "select"
    /\ futureDone
    /\ app = "raised"
    /\ exception' = TRUE
    /\ loop' = "raise"
    /\ UNCHANGED <<appVars, ackVars, taken, head, expired, stream, ended,
                   clientVars>>

\* After the head: the error is stored where the reader of the stream will
\* look for it, before ...
RaisedAfterHead ==
    /\ loop = "select"
    /\ futureDone
    /\ app = "raised"
    /\ head # "open"
    /\ exception' = TRUE
    /\ loop' = "raise"
    /\ UNCHANGED <<appVars, ackVars, taken, head, expired, stream, ended,
                   clientVars>>

\* ... the stream is shut down and the loop breaks.
CloseAfterRaise ==
    /\ loop = "raise"
    /\ ended' = TRUE
    /\ Exit(head)
    /\ UNCHANGED <<appVars, acked, taken, expired, stream, exception,
                   clientVars>>

\* Faulty variant: the condition on response_tx is inverted.
TimeoutInverted ==
    /\ loop = "select"
    /\ expired
    /\ head # "open"
    /\ Exit(head)
    /\ UNCHANGED <<appVars, acked, taken, expired, streamVars, clientVars>>

\* The timer branch, polled only while response_tx is there.
ResponseTimeout ==
    /\ loop = "select"
    /\ expired
    /\ head = "open"
    /\ Exit("timeout")
    /\ UNCHANGED <<appVars, acked, taken, expired, streamVars, clientVars>>

\* Thirty seconds have passed.
Expire ==
    /\ ~expired
    /\ expired' = TRUE
    /\ UNCHANGED <<appVars, ackVars, taken, loop, head, streamVars, clientVars>>

-----------------------------------------------------------------------------
(* Asgi::handle after the task is spawned, and the client. *)

\* The head arrived; building the response from it may still fail (a status
\* or a header that is not valid), and then the response body is dropped.
HandleResponse ==
    /\ handle = "waiting"
    /\ head = "ok"
    /\ handle' \in {"response", "badhead"}
    /\ UNCHANGED <<appVars, ackVars, loopVars, streamVars, consumed, clientGone>>

\* The task sent an error, or dropped the oneshot.
HandleError ==
    /\ handle = "waiting"
    /\ head \notin {"open", "ok"}
    /\ handle' = IF head = "pyerror" THEN "pyerror" ELSE "noresponse"
    /\ UNCHANGED <<appVars, ackVars, loopVars, streamVars, consumed, clientGone>>

\* The caller of handle() drops its future.
CancelHandle ==
    /\ handle = "waiting"
    /\ handle' = "cancelled"
    /\ UNCHANGED <<appVars, ackVars, loopVars, streamVars, consumed, clientGone>>

ClientRead ==
    /\ handle = "response"
    /\ ~clientGone
    /\ consumed < Len(stream)
    /\ consumed' = consumed + 1
    /\ UNCHANGED <<appVars, ackVars, loopVars, streamVars, clientGone, handle>>

CloseClientEnd ==
    /\ ~clientGone
    /\ clientGone' = TRUE
    /\ UNCHANGED <<appVars, ackVars, loopVars, streamVars, consumed, handle>>

\* The client gives the response up.
ClientLeaves == handle = "response" /\ CloseClientEnd

\* Without a response the only reader of the stream goes with handle()'s frame.
BodyDropped == handle \notin {"waiting", "response"} /\ CloseClientEnd

-----------------------------------------------------------------------------

Application ==
    \/ \E msg \in SendMessages : Send(msg)
    \/ CancelSend
    \/ \E outcome \in {"returned", "raised"} : Finish(outcome)
    \/ ReleaseSender

ForwardingTask ==
    \/ ForwardStart \/ StopAtStart \/ IgnoreStart
    \/ AcceptBody \/ StopAtBody \/ WriteBody \/ WriteFails \/ CloseStream
    \/ QueueClosed
    \/ FutureReturned \/ RaisedBeforeHead \/ RaisedAfterHead \/ CloseAfterRaise
    \/ ResponseTimeout

HandleReturns == HandleResponse \/ HandleError

ResponseNext ==
    \/ Application
    \/ CompleteFuture
    \/ ForwardingTask
    \/ Expire
    \/ HandleReturns
    \/ CancelHandle
    \/ ClientRead
    \/ ClientLeaves
    \/ BodyDropped

\* Tokio runs the task, whose poller wakes itself until the future is done,
\* and handle(); time passes; the event loop completes futures; the client
\* reads what it can.  The application owes nothing: it may hang anywhere.
ResponseFairness ==
    /\ WF_responseVars(ForwardingTask)
    /\ WF_responseVars(CompleteFuture)
    /\ WF_responseVars(Expire)
    /\ WF_responseVars(HandleReturns)
    /\ WF_responseVars(ClientRead)
    /\ WF_responseVars(BodyDropped)

ResponseSpec == ResponseInit /\ [][ResponseNext]_responseVars

FairResponseSpec == ResponseSpec /\ ResponseFairness

-----------------------------------------------------------------------------
(* Correctness, for every application. *)

\* Body data reaches the stream in the order of the send() calls and without a
\* gap: before message i is written, every earlier body message is.
DeliveredInOrder ==
    \A k \in 1..Len(stream) :
        /\ HasData(stream[k])
        /\ \A j \in 1..(k-1) : stream[j] < stream[k]
        /\ \A i \in 1..(stream[k]-1) : HasData(i) => IsWritten(i)

\* A send() of body data that returned is not lost: except for the one write
\* in progress, its data is in the stream unless the client went away.
AckedIsWritten ==
    \A i \in acked :
        HasData(i) => \/ IsWritten(i)
                      \/ i = taken /\ (loop = "write" \/ clientGone)

\* The end of the stream is honest: the reader finds the error in the holder,
\* or the application's final message was taken and all its data was written.
EndMeansComplete ==
    ended =>
        \/ exception
        \/ /\ taken > 0 /\ IsFinal(taken)
           /\ \A i \in 1..taken : HasData(i) => IsWritten(i)

\* An exception is reported in one place, and the right one: in the holder if
\* the head was sent and the response not completed, as the result of handle()
\* if no response.start had been acknowledged.
ErrorIsReportedOnce ==
    /\ exception => /\ head = "ok"
                    /\ app = "raised"
                    /\ \A i \in acked : ~IsFinal(i)
    /\ head = "pyerror" => /\ ~exception
                           /\ app = "raised"
                           /\ \A i \in acked : ~IsStart(i)

\* When handle() fails, the application was never told that its response had
\* been started.
FailureMeansNotStarted ==
    handle \in {"pyerror", "noresponse"} => \A i \in acked : ~IsStart(i)

\* Once the stream is shut down nothing is written to it, and the error holder
\* does not change any more: a reader that has seen the end may look at it.
NothingAfterEnd == [][ended => stream' = stream /\ exception' = exception]_responseVars

(* The inductive invariant behind them, in named parts. *)

\* The pending call is the last one, and its message is still in the queue.
AwaitingIsQueued == awaiting # 0 => awaiting = Len(log) /\ taken < awaiting

\* Acknowledged messages have been received by the loop, and the first
\* response.start among them is the one that sent the head.
AckedWereTaken ==
    \A i \in acked : i <= taken /\ (IsStart(i) => head = "ok")

\* Up to the message in hand, the stream holds exactly the data messages.
StreamIsPrefix ==
    /\ \A k \in 1..Len(stream) :
          /\ stream[k] <= taken
          /\ HasData(stream[k])
          /\ \A j \in 1..(k-1) : stream[j] < stream[k]
    /\ \A i \in 1..taken :
          HasData(i) => \/ IsWritten(i)
                        \/ i = taken /\ loop \in {"write", "done"}

\* The message the loop is working on is the one its place tells.
MessageInHand ==
    /\ loop = "write" => /\ taken > 0
                         /\ HasData(taken)
                         /\ \A k \in 1..Len(stream) : stream[k] < taken
    /\ loop = "close" => /\ taken > 0
                         /\ IsFinal(taken)
                         /\ HasData(taken) => IsWritten(taken)
    /\ \A i \in 1..taken :
          IsFinal(i) => i = taken /\ loop \in {"write", "close", "done"}

\* The oneshot is decided by the time the loop ends; an error ends the loop.
HeadFollowsLoop ==
    /\ loop # "done" => head \in {"open", "ok"}
    /\ loop = "done" => head # "open"
    /\ head = "pyerror" => app = "raised" /\ ~exception
    /\ handle \in {"response", "badhead"} => head = "ok"
    /\ handle \in {"pyerror", "noresponse"} => head \notin {"open", "ok"}

\* The stored exception and the end of the stream belong to the last steps.
EndFollowsLoop ==
    /\ ended => loop = "done"
    /\ loop = "raise" => exception
    /\ exception => loop \in {"raise", "done"}

ResponseInv ==
    /\ ResponseTypeOK
    /\ AwaitingIsQueued
    /\ AckedWereTaken
    /\ StreamIsPrefix
    /\ MessageInHand
    /\ HeadFollowsLoop
    /\ EndFollowsLoop
    /\ AckedIsWritten
    /\ EndMeansComplete
    /\ ErrorIsReportedOnce

(* Correctness, for applications that keep to the protocol. *)

\* Somebody stopped waiting: the client, the caller of handle() or the timer.
GivenUp == clientGone \/ handle = "cancelled" \/ head = "timeout"

\* A send() raises only because the response was given up: by the client, by
\* the caller of handle() or by the timeout. The race of the future with the
\* queue, or the duplicate-start arm, never costs such an application a message.
SendsAreAcked ==
    compliant =>
        \A i \in 1..Len(log) :
            \/ i \in acked
            \/ i = awaiting
            \/ GivenUp

\* An exception is not swallowed: when the task has ended, it is in one of the
\* two places, or the response had been completed or given up before.
RaiseIsReported ==
    compliant /\ app = "raised" /\ loop = "done" =>
        \/ exception \/ head = "pyerror"
        \/ ended
        \/ GivenUp

(* What the proofs of these two and of the refinement rest on. *)

\* The log is that of an application that keeps to the protocol.
ProtocolInLog ==
    compliant =>
        \A i \in 1..Len(log) : /\ IsStart(i) <=> i = 1
                               /\ IsFinal(i) => i = Len(log)

\* Such an application has finished only when no send() is out, and Python
\* frees its Sender only after it has returned.
AppFollowsProtocol ==
    /\ futureDone => app # "running"
    /\ compliant => /\ app # "running" => awaiting = 0
                    /\ ~senderOpen => app = "returned"

\* Its first message is the one that sends the head.
FirstSendsHead ==
    compliant => /\ taken > 0 => head # "open"
                 /\ head = "ok" => taken > 0

\* The task ends with the result of the application, with an error that is
\* reported, with the end of the stream, or because it was given up.
EndIsAccounted ==
    compliant /\ loop = "done" /\ app # "returned" =>
        exception \/ head = "pyerror" \/ ended \/ GivenUp

\* Every send() returns or raises.
SendCompletes == (compliant /\ awaiting # 0) ~> (awaiting = 0)

\* handle() returns, even if the application hangs: the timeout sees to it.
HandleTerminates == compliant ~> (handle # "waiting")

\* A response that was started ends for its reader, once the application has
\* sent its last message or has raised.
StartedResponseEnds ==
    (compliant /\ head = "ok" /\ (app = "raised" \/ \E i \in acked : IsFinal(i)))
        ~> (ended \/ clientGone)

\* The promise of handle(), with the loop, the queue and the timer left out.
AcceptedData == {i \in acked : HasData(i)}

Outcome ==
    IF head = "open" THEN "pending" ELSE IF head = "ok" THEN "response" ELSE "failure"

Ending == IF ~ended THEN "open" ELSE IF exception THEN "broken" ELSE "complete"

Contract == INSTANCE ResponseContract WITH
    outcome <- Outcome,
    accepted <- Cardinality(AcceptedData),
    delivered <- Len(stream),
    ending <- Ending

\* What is accepted and not in the stream is the one chunk in hand; it is
\* lost only if the task ends while it waits for room.
ChunkInHand ==
    LET inHand == Cardinality(AcceptedData) - Len(stream)
    IN  IF loop = "done" THEN inHand \in {0, 1}
        ELSE inHand = IF loop = "write" THEN 1 ELSE 0

ComplianceInv ==
    /\ ProtocolInLog
    /\ AppFollowsProtocol
    /\ FirstSendsHead
    /\ SendsAreAcked
    /\ EndIsAccounted
    /\ ChunkInHand

\* The forwarding task keeps that promise to every application: one decision,
\* at most one chunk accepted and not yet in the stream although the queue is
\* unbounded, no end of stream before everything accepted is in it. Only the
\* head of a compliant application is certain to be decided at all.
ImplementsContract == Contract!FairSpec

=============================================================================
