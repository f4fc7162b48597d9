-------------------------- MODULE WebSocketExchange --------------------------
(***************************************************************************)
(* One WebSocket connection, in the three stages Asgi::handle and its      *)
(* tasks give it:                                                          *)
(*                                                                         *)
(*   - the handshake: handle() queues websocket.connect for the            *)
(*     application, submits it, and waits (with no time limit, and without *)
(*     looking at the future) for the first message it sends;              *)
(*   - the connection: spawn_websocket_forwarding_task writes what the     *)
(*     application sends into the response stream, one frame per message,  *)
(*     and forward_websocket_request hands it the client's frames;         *)
(*   - the end, by a close of either side, by the end of the application's *)
(*     coroutine, or by the loss of the client.                            *)
(*                                                                         *)
(* A message of the application is known by its place in `log`, a frame of *)
(* the client by its place in `frames`.                                    *)
(***************************************************************************)
EXTENDS Naturals, Sequences

CONSTANTS
    MaxMessages,    \* Messages any application may queue (bound)
    MaxCompliant,   \* Messages a compliant application may queue (bound)
    MaxFrames,      \* Frames the client may send (bound)
    Capacity        \* Frames the response stream buffers

ASSUME WebSocketAssumption ==
    /\ MaxMessages \in Nat
    /\ MaxCompliant \in Nat
    /\ MaxFrames \in Nat
    /\ Capacity \in Nat \ {0}

VARIABLES
    compliant,      \* Whether the application keeps to the ASGI protocol
    app,            \* The application's coroutine
    log,            \* History: the kinds of the messages queued by send()
    awaiting,       \* The message whose send() waits for its ack; 0 for none
    acked,          \* History: the messages whose send() returned normally
    senderOpen,     \* Whether Python still owns the Sender object
    futureDone,     \* Whether the asyncio future has its result
    inbox,          \* The channel from the server to the Receiver
    received,       \* History: the messages receive() has returned
    receiving,      \* Whether a receive() call is pending
    receiverOpen,   \* Whether Python still owns the Receiver object
    raised,         \* History: whether a receive() call raised ValueError
    handle,         \* What Asgi::handle did
    loop,           \* Where the forwarding task is
    taken,          \* How many messages of the application were received
    stream,         \* The frames of the response stream, by their messages
    closed,         \* Who closed the response stream: a close frame, or end()
    consumed,       \* How many frames the client has read
    clientGone,     \* Whether the client dropped its end of the response
    frames,         \* History: the kinds of the frames the client has sent
    wireEnd,        \* How the client ended the request stream
    read,           \* How many frames forward_websocket_request has read
    forwarder       \* That task; the Receiver's channel closes with it

appVars == <<compliant, app, log, senderOpen, futureDone>>
ackVars == <<awaiting, acked>>
receiveVars == <<inbox, received, receiving, receiverOpen, raised>>
taskVars == <<handle, loop, taken>>
streamVars == <<stream, closed>>
clientVars == <<consumed, clientGone, frames, wireEnd>>
forwardVars == <<read, forwarder>>
vars == <<appVars, ackVars, receiveVars, taskVars, streamVars, clientVars,
          forwardVars>>

\* WebSocketSendMessage. A Send has text or bytes: the conversion of the
\* dictionary refuses one with neither before it is queued.
SendKinds == {"accept", "send", "close"}

\* Client frames: text or binary; ignored (ping, pong, text that is not
\* UTF-8); close frames, with a code or without.
FrameKinds == {"data", "ignored", "close"}

\* WebSocketReceiveMessage. The frame of a Receive and the code of a
\* Disconnect are the fields the properties look at.
Connect == [type |-> "connect", frame |-> 0, code |-> "none"]
Receive(i) == [type |-> "receive", frame |-> i, code |-> "none"]
Disconnect(code) == [type |-> "disconnect", frame |-> 0, code |-> code]

ReceiveMessages ==
    [type: {"connect", "receive", "disconnect"}, frame: Nat,
     code: {"none", "client", "normal", "abnormal"}]

\* Everything the application has been handed, in order.
Delivered == received \o inbox

IsWritten(i) == \E k \in 1..Len(stream) : stream[k] = i

FlagsOK ==
    /\ compliant \in BOOLEAN
    /\ senderOpen \in BOOLEAN
    /\ futureDone \in BOOLEAN
    /\ receiving \in BOOLEAN
    /\ receiverOpen \in BOOLEAN
    /\ raised \in BOOLEAN
    /\ clientGone \in BOOLEAN

MessagesOK ==
    /\ log \in Seq(SendKinds)
    /\ awaiting \in 0..Len(log)
    /\ acked \subseteq 1..Len(log)
    /\ taken \in 0..Len(log)
    /\ stream \in Seq(1..Len(log))
    /\ consumed \in 0..Len(stream)

FramesOK ==
    /\ inbox \in Seq(ReceiveMessages)
    /\ received \in Seq(ReceiveMessages)
    /\ frames \in Seq(FrameKinds)
    /\ read \in 0..Len(frames)

StatesOK ==
    /\ app \in {"running", "returned", "raised"}
    /\ handle \in {"waiting", "accepted", "refused", "cancelled"}
    /\ loop \in {"none", "select", "write", "close", "done"}
    /\ closed \in {"open", "frame", "end"}
    /\ wireEnd \in {"open", "eof", "error"}
    /\ forwarder \in {"none", "reading", "done"}

TypeOK == FlagsOK /\ MessagesOK /\ FramesOK /\ StatesOK

\* handle() after the channel of the Receiver got its Connect and the
\* coroutine was submitted.
Init ==
    /\ compliant \in BOOLEAN
    /\ app = "running"
    /\ log = <<>>
    /\ awaiting = 0
    /\ acked = {}
    /\ senderOpen = TRUE
    /\ futureDone = FALSE
    /\ inbox = <<Connect>>
    /\ received = <<>>
    /\ receiving = FALSE
    /\ receiverOpen = TRUE
    /\ raised = FALSE
    /\ handle = "waiting"
    /\ loop = "none"
    /\ taken = 0
    /\ stream = <<>>
    /\ closed = "open"
    /\ consumed = 0
    /\ clientGone = FALSE
    /\ frames = <<>>
    /\ wireEnd = "open"
    /\ read = 0
    /\ forwarder = "none"

-----------------------------------------------------------------------------
(* The Python application. *)

\* An application that keeps to the protocol accepts or closes first, accepts
\* once, and sends nothing after its close.
Conforms(kind) ==
    IF log = <<>> THEN kind \in {"accept", "close"}
    ELSE kind # "accept" /\ log[Len(log)] # "close"

Bound == IF compliant THEN MaxCompliant ELSE MaxMessages

\* Sender.__call__; once the queue's receiver is dropped the call raises
\* "connection closed" and queues nothing.
Send(kind) ==
    /\ app = "running"
    /\ senderOpen
    /\ awaiting = 0
    /\ compliant => Conforms(kind)
    /\ Len(log) < Bound
    /\ loop # "done"
    /\ log' = Append(log, kind)
    /\ awaiting' = Len(log) + 1
    /\ UNCHANGED <<compliant, app, senderOpen, futureDone, acked, receiveVars,
                   taskVars, streamVars, clientVars, forwardVars>>

\* The coroutine waiting in send() is cancelled; its message stays queued.
CancelSend ==
    /\ ~compliant
    /\ awaiting # 0
    /\ awaiting' = 0
    /\ UNCHANGED <<appVars, acked, receiveVars, taskVars, streamVars,
                   clientVars, forwardVars>>

CallReceive ==
    /\ receiverOpen
    /\ ~receiving
    /\ compliant => app = "running"
    /\ receiving' = TRUE
    /\ UNCHANGED <<appVars, ackVars, inbox, received, receiverOpen, raised,
                   taskVars, streamVars, clientVars, forwardVars>>

ReceiveMessage ==
    /\ receiving
    /\ inbox # <<>>
    /\ received' = Append(received, Head(inbox))
    /\ inbox' = Tail(inbox)
    /\ receiving' = FALSE
    /\ UNCHANGED <<appVars, ackVars, receiverOpen, raised, taskVars,
                   streamVars, clientVars, forwardVars>>

\* recv() gives None: the channel is empty and its sending half is gone.
ReceiveRaises ==
    /\ receiving
    /\ inbox = <<>>
    /\ forwarder = "done"
    /\ raised' = TRUE
    /\ receiving' = FALSE
    /\ UNCHANGED <<appVars, ackVars, inbox, received, receiverOpen, taskVars,
                   streamVars, clientVars, forwardVars>>

\* The coroutine returns or raises.
Finish(outcome) ==
    /\ app = "running"
    /\ compliant => awaiting = 0 /\ ~receiving
    /\ app' = outcome
    /\ UNCHANGED <<compliant, log, senderOpen, futureDone, ackVars, receiveVars,
                   taskVars, streamVars, clientVars, forwardVars>>

CompleteFuture ==
    /\ app # "running"
    /\ ~futureDone
    /\ futureDone' = TRUE
    /\ UNCHANGED <<compliant, app, log, senderOpen, ackVars, receiveVars,
                   taskVars, streamVars, clientVars, forwardVars>>

\* Python frees Sender and Receiver. The traceback of an exception keeps the
\* frames, and both objects in them, as long as somebody keeps the future.
FutureKept == handle \notin {"refused", "cancelled"} /\ loop # "done"

ReleaseSender ==
    /\ senderOpen
    /\ awaiting = 0
    /\ compliant => \/ app = "returned"
                    \/ app = "raised" /\ ~FutureKept
    /\ senderOpen' = FALSE
    /\ UNCHANGED <<compliant, app, log, futureDone, ackVars, receiveVars,
                   taskVars, streamVars, clientVars, forwardVars>>

ReleaseReceiver ==
    /\ receiverOpen
    /\ ~receiving
    /\ compliant => \/ app = "returned"
                    \/ app = "raised" /\ ~FutureKept
    /\ receiverOpen' = FALSE
    /\ inbox' = <<>>
    /\ UNCHANGED <<appVars, ackVars, received, receiving, raised, taskVars,
                   streamVars, clientVars, forwardVars>>

-----------------------------------------------------------------------------
(* The handshake, in Asgi::handle. *)

\* Faulty variant: any first message is taken for an Accept.
AcceptAnything ==
    /\ handle = "waiting"
    /\ log # <<>>
    /\ awaiting = 1
    /\ awaiting' = 0
    /\ acked' = acked \cup {1}
    /\ taken' = 1
    /\ handle' = "accepted"
    /\ loop' = "select"
    /\ forwarder' = "reading"
    /\ UNCHANGED <<appVars, receiveVars, streamVars, clientVars, read>>

\* The first message is Accept, and its sender still waits: it is acknowledged,
\* both tasks are spawned, and the response is 101 Switching Protocols.
Accept ==
    /\ handle = "waiting"
    /\ log # <<>>
    /\ log[1] = "accept"
    /\ awaiting = 1
    /\ awaiting' = 0
    /\ acked' = acked \cup {1}
    /\ taken' = 1
    /\ handle' = "accepted"
    /\ loop' = "select"
    /\ forwarder' = "reading"
    /\ UNCHANGED <<appVars, receiveVars, streamVars, clientVars, read>>

\* handle() is over without a connection: both channels go with its frame.
GiveUp(outcome) ==
    /\ handle' = outcome
    /\ loop' = "done"
    /\ forwarder' = "done"
    /\ awaiting' = 0
    /\ UNCHANGED <<appVars, acked, receiveVars, taken, streamVars, clientVars,
                   read>>

\* Faulty variant: the end of the queue is not taken for an answer.
RefuseMessage ==
    /\ handle = "waiting"
    /\ log # <<>>
    /\ log[1] # "accept" \/ awaiting # 1
    /\ GiveUp("refused")

\* Any other message, a Close included, an Accept nobody waits for, or no
\* message because the Sender was freed: WebSocketNotAccepted.
Refuse ==
    /\ handle = "waiting"
    /\ IF log = <<>> THEN ~senderOpen ELSE log[1] # "accept" \/ awaiting # 1
    /\ GiveUp("refused")

CancelHandle == handle = "waiting" /\ GiveUp("cancelled")

-----------------------------------------------------------------------------
(* The forwarding task, from the application to the client. *)

Acked(i) ==
    /\ awaiting = i
    /\ awaiting' = 0
    /\ acked' = acked \cup {i}

\* Faulty variant: the queue outlives the task.
ExitKeepingQueue ==
    /\ loop' = "done"
    /\ awaiting' = awaiting
    /\ acked' = acked

\* The task ends: the queue and the acknowledgement channels in it are gone.
Exit ==
    /\ loop' = "done"
    /\ awaiting' = 0
    /\ acked' = acked

Receives(kinds) ==
    /\ loop = "select"
    /\ taken < Len(log)
    /\ log[taken + 1] \in kinds
    /\ taken' = taken + 1

\* Faulty variant: the message is acknowledged when it is taken.
TakeFrameAckFirst ==
    /\ Receives({"send", "close"})
    /\ Acked(taken + 1)
    /\ loop' = IF log[taken + 1] = "send" THEN "write" ELSE "close"
    /\ UNCHANGED <<appVars, receiveVars, handle, streamVars, clientVars,
                   forwardVars>>

\* Send or Close: the frame has to be written first.
TakeFrame ==
    /\ Receives({"send", "close"})
    /\ loop' = IF log[taken + 1] = "send" THEN "write" ELSE "close"
    /\ UNCHANGED <<appVars, ackVars, receiveVars, handle, streamVars,
                   clientVars, forwardVars>>

\* A second Accept is only acknowledged.
AckAccept ==
    /\ Receives({"accept"})
    /\ \/ Acked(taken + 1) /\ loop' = loop
       \/ awaiting # taken + 1 /\ Exit
    /\ UNCHANGED <<appVars, receiveVars, handle, streamVars, clientVars,
                   forwardVars>>

Room == Len(stream) - consumed < Capacity

\* Faulty variant: the handler returns before it acknowledges the message.
WriteFrameUnacked ==
    /\ loop = "write"
    /\ ~clientGone
    /\ Room
    /\ stream' = Append(stream, taken)
    /\ awaiting' = IF awaiting = taken THEN 0 ELSE awaiting
    /\ acked' = acked
    /\ loop' = "select"
    /\ UNCHANGED <<appVars, receiveVars, handle, taken, closed, clientVars,
                   forwardVars>>

\* The frame is written, and then the message is acknowledged; when nobody
\* waits for that the loop breaks with close_sent set, and end() is not called.
WriteFrame ==
    /\ loop = "write"
    /\ ~clientGone
    /\ Room
    /\ stream' = Append(stream, taken)
    /\ \/ Acked(taken) /\ loop' = "select"
       \/ awaiting # taken /\ Exit
    /\ UNCHANGED <<appVars, receiveVars, handle, taken, closed, clientVars,
                   forwardVars>>

WriteFails ==
    /\ loop = "write"
    /\ clientGone
    /\ Exit
    /\ UNCHANGED <<appVars, receiveVars, handle, taken, streamVars, clientVars,
                   forwardVars>>

\* Faulty variant: a Close is acknowledged like a Send, and the loop goes on.
WriteCloseAndGoOn ==
    /\ loop = "close"
    /\ ~clientGone
    /\ Room
    /\ stream' = Append(stream, taken)
    /\ closed' = "frame"
    /\ \/ Acked(taken) /\ loop' = "select"
       \/ awaiting # taken /\ Exit
    /\ UNCHANGED <<appVars, receiveVars, handle, taken, clientVars,
                   forwardVars>>

\* write_close writes the close frame and closes the stream; its result is
\* ignored and the loop breaks before the message is acknowledged.
WriteClose ==
    /\ loop = "close"
    /\ ~clientGone
    /\ Room
    /\ stream' = Append(stream, taken)
    /\ closed' = "frame"
    /\ Exit
    /\ UNCHANGED <<appVars, receiveVars, handle, taken, clientVars,
                   forwardVars>>

CloseFails ==
    /\ loop = "close"
    /\ clientGone
    /\ Exit
    /\ UNCHANGED <<appVars, receiveVars, handle, taken, streamVars, clientVars,
                   forwardVars>>

\* recv() gives None: the loop breaks as if a close frame had been sent.
QueueClosed ==
    /\ loop = "select"
    /\ taken = Len(log)
    /\ ~senderOpen
    /\ Exit
    /\ UNCHANGED <<appVars, receiveVars, handle, taken, streamVars, clientVars,
                   forwardVars>>

\* Faulty variant: close_sent is set in the branch of the future as well.
FutureFinishedUnended ==
    /\ loop = "select"
    /\ futureDone
    /\ Exit
    /\ UNCHANGED <<appVars, receiveVars, handle, taken, streamVars, clientVars,
                   forwardVars>>

\* The future is done, with a value or with an exception that nobody looks at:
\* the loop breaks and encoder.end() closes the stream.
FutureFinished ==
    /\ loop = "select"
    /\ futureDone
    /\ closed' = "end"
    /\ Exit
    /\ UNCHANGED <<appVars, receiveVars, handle, taken, stream, clientVars,
                   forwardVars>>

-----------------------------------------------------------------------------
(* forward_websocket_request, from the client to the application. *)

\* rx.send: refused when the Receiver was freed.
Deliver(msg) == inbox' = IF receiverOpen THEN Append(inbox, msg) ELSE inbox

NextFrame(kinds) ==
    /\ forwarder = "reading"
    /\ read < Len(frames)
    /\ frames[read + 1] \in kinds
    /\ read' = read + 1

ForwardFrame ==
    /\ NextFrame({"data"})
    /\ Deliver(Receive(read + 1))
    /\ forwarder' = IF receiverOpen THEN "reading" ELSE "done"
    /\ UNCHANGED <<appVars, ackVars, received, receiving, receiverOpen, raised,
                   taskVars, streamVars, clientVars>>

SkipFrame ==
    /\ NextFrame({"ignored"})
    /\ UNCHANGED <<appVars, ackVars, receiveVars, taskVars, streamVars,
                   clientVars, forwarder>>

\* Faulty variant: the loop is not left after a close frame.
ForwardCloseAndGoOn ==
    /\ NextFrame({"close"})
    /\ Deliver(Disconnect("client"))
    /\ forwarder' = forwarder
    /\ UNCHANGED <<appVars, ackVars, received, receiving, receiverOpen, raised,
                   taskVars, streamVars, clientVars>>

\* A close frame: the client's code, or its absence, is passed on as it is.
ForwardClose ==
    /\ NextFrame({"close"})
    /\ Deliver(Disconnect("client"))
    /\ forwarder' = "done"
    /\ UNCHANGED <<appVars, ackVars, received, receiving, receiverOpen, raised,
                   taskVars, streamVars, clientVars>>

\* Faulty variant: a failed read ends the loop without a message, as it does in
\* forward_http_request.
ForwardEndSilently ==
    /\ forwarder = "reading"
    /\ wireEnd # "open"
    /\ wireEnd = "eof" => read = Len(frames)
    /\ IF wireEnd = "eof" THEN Deliver(Disconnect("normal")) ELSE inbox' = inbox
    /\ forwarder' = "done"
    /\ UNCHANGED <<appVars, ackVars, received, receiving, receiverOpen, raised,
                   taskVars, streamVars, clientVars, read>>

\* The stream ended between two frames: 1000; a failed read: 1006.
ForwardEnd ==
    /\ forwarder = "reading"
    /\ wireEnd # "open"
    /\ wireEnd = "eof" => read = Len(frames)
    /\ Deliver(Disconnect(IF wireEnd = "eof" THEN "normal" ELSE "abnormal"))
    /\ forwarder' = "done"
    /\ UNCHANGED <<appVars, ackVars, received, receiving, receiverOpen, raised,
                   taskVars, streamVars, clientVars, read>>

-----------------------------------------------------------------------------
(* The client. It may write before the handshake is over. *)

ClientFrame(kind) ==
    /\ wireEnd = "open"
    /\ Len(frames) < MaxFrames
    /\ \A i \in 1..Len(frames) : frames[i] # "close"
    /\ frames' = Append(frames, kind)
    /\ UNCHANGED <<appVars, ackVars, receiveVars, taskVars, streamVars,
                   consumed, clientGone, wireEnd, forwardVars>>

ClientEnd ==
    /\ wireEnd = "open"
    /\ wireEnd' \in {"eof", "error"}
    /\ UNCHANGED <<appVars, ackVars, receiveVars, taskVars, streamVars,
                   consumed, clientGone, frames, forwardVars>>

ClientRead ==
    /\ handle = "accepted"
    /\ ~clientGone
    /\ consumed < Len(stream)
    /\ consumed' = consumed + 1
    /\ UNCHANGED <<appVars, ackVars, receiveVars, taskVars, streamVars,
                   clientGone, frames, wireEnd, forwardVars>>

ClientLeaves ==
    /\ handle = "accepted"
    /\ ~clientGone
    /\ clientGone' = TRUE
    /\ UNCHANGED <<appVars, ackVars, receiveVars, taskVars, streamVars,
                   consumed, frames, wireEnd, forwardVars>>

-----------------------------------------------------------------------------

ReceiveCompletes == ReceiveMessage \/ ReceiveRaises

Application ==
    \/ \E kind \in SendKinds : Send(kind)
    \/ CancelSend
    \/ CallReceive
    \/ \E outcome \in {"returned", "raised"} : Finish(outcome)
    \/ ReleaseSender
    \/ ReleaseReceiver

Handshake == Accept \/ Refuse

ForwardingTask ==
    \/ TakeFrame \/ AckAccept
    \/ WriteFrame \/ WriteFails \/ WriteClose \/ CloseFails
    \/ QueueClosed \/ FutureFinished

Forwarder == ForwardFrame \/ SkipFrame \/ ForwardClose \/ ForwardEnd

Client ==
    \/ \E kind \in FrameKinds : ClientFrame(kind)
    \/ ClientEnd
    \/ ClientLeaves

Next ==
    \/ Application
    \/ ReceiveCompletes
    \/ CompleteFuture
    \/ Handshake
    \/ CancelHandle
    \/ ForwardingTask
    \/ Forwarder
    \/ Client
    \/ ClientRead

\* Tokio runs handle() and both tasks, asyncio completes futures and pending
\* calls, and the client reads what it can. The application owes nothing, but
\* Python frees the objects of a coroutine that is over.
Fairness ==
    /\ WF_vars(Handshake)
    /\ WF_vars(ForwardingTask)
    /\ WF_vars(Forwarder)
    /\ WF_vars(ReceiveCompletes)
    /\ WF_vars(CompleteFuture)
    /\ WF_vars(ClientRead)
    /\ WF_vars(compliant /\ ReleaseSender)

Spec == Init /\ [][Next]_vars

FairSpec == Spec /\ Fairness

-----------------------------------------------------------------------------
(* Correctness, for every application and every client. *)

\* The handshake comes first: no frame of the client is shown to the
\* application, and none of its frames to the client, unless its very first
\* message was an Accept whose send() returned.
HandshakeComesFirst ==
    stream # <<>> \/ (\E i \in 1..Len(Delivered) : Delivered[i].type # "connect")
        => /\ handle = "accepted"
           /\ log[1] = "accept"
           /\ 1 \in acked

\* The application sees the connection as it happened: connect first, then the
\* client's data frames in their order with none left out, and a disconnect
\* only as the last message, when nothing more will be read.
DeliveredInOrder ==
    /\ \A i \in 1..Len(Delivered) :
          /\ Delivered[i].type = "connect" <=> i = 1
          /\ Delivered[i].type = "disconnect" =>
                i = Len(Delivered) /\ forwarder = "done"
          /\ Delivered[i].type = "receive" =>
                \A j \in 1..(i-1) : Delivered[j].frame < Delivered[i].frame
    /\ receiverOpen =>
          \A f \in 1..read : frames[f] = "data" =>
              \E i \in 1..Len(Delivered) : Delivered[i] = Receive(f)

\* A send() that returned has its frame in the stream, and the frames are
\* there in the order of the calls, without a gap.
AckedIsWritten ==
    /\ \A i \in acked : log[i] = "send" => IsWritten(i)
    /\ \A k \in 1..Len(stream) :
          \A i \in 1..(stream[k] - 1) :
              log[i] = "send" => \E m \in 1..(k-1) : stream[m] = i

\* Nothing is written behind a close, and a stream is closed once: end() is
\* not called on a stream that write_close has closed.
NothingAfterClose ==
    [][closed # "open" => stream' = stream /\ closed' = closed]_vars

\* receive() raises only after the application was told that the connection is
\* over, or when there never was one.
RaiseFollowsDisconnect ==
    raised => \/ handle \in {"refused", "cancelled"}
              \/ received[Len(received)].type = "disconnect"

\* Whatever the client ended the connection with, the application is told, if
\* it still has its Receiver: even when the forwarding task is blocked or gone.
DisconnectArrives ==
    (handle = "accepted" /\ wireEnd # "open")
        ~> (~receiverOpen \/ \E i \in 1..Len(Delivered) : Delivered[i].type = "disconnect")

(* For applications that keep to the protocol. *)

\* Every send() returns or raises.
SendCompletes == (compliant /\ awaiting # 0) ~> (awaiting = 0)

\* handle() does not wait for an application that is over, if it returned.
ReturnEndsHandshake ==
    (compliant /\ app = "returned" /\ handle = "waiting") ~> (handle # "waiting")

\* When the application of an accepted connection raises, or sends its close,
\* the client sees the end of the stream.
StreamEnds ==
    (/\ compliant
     /\ handle = "accepted"
     /\ app = "raised" \/ \E i \in 1..taken : log[i] = "close")
        ~> (closed # "open" \/ clientGone)

\* Only a close makes a send() raise that the client could still have read:
\* the race of the future with the queue costs such an application nothing.
SendsAreAcked ==
    compliant /\ handle = "accepted" =>
        \A i \in 1..Len(log) :
            i \in acked \/ i = awaiting \/ log[i] = "close" \/ clientGone

=============================================================================
