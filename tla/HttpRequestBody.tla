--------------------------- MODULE HttpRequestBody ---------------------------
(***************************************************************************)
(* The request half of one HTTP exchange: the client (the Node.js side)    *)
(* writes the body into a bounded stream, the task forward_http_request    *)
(* turns what it reads into http.request messages on an unbounded channel, *)
(* and the Python application takes them with receive().                   *)
(*                                                                         *)
(* Data is counted in units; a message carries the range of units it was   *)
(* made of, because read_buf returns whatever part of the pending data it  *)
(* likes: messages need not match the client's writes.                     *)
(***************************************************************************)
EXTENDS Naturals, Sequences

CONSTANTS
    MaxUnits,       \* Units of data the client may write (bound)
    WireCapacity    \* Units the request stream buffers

ASSUME RequestAssumption ==
    /\ MaxUnits \in Nat
    /\ WireCapacity \in Nat \ {0}

VARIABLES
    written,        \* Units the client has written to the stream
    wireEnd,        \* How the client ended the stream, "open" before it does
    read,           \* Units forward_http_request has read
    forwarder,      \* The forwarding task; when it is done `rx` is dropped
    inbox,          \* The channel from the forwarder to the Receiver
    receiverOpen,   \* Whether Python still owns the Receiver object
    receiving,      \* Whether a receive() call is pending
    received,       \* History: the messages receive() has returned
    raised          \* History: whether a receive() call raised ValueError

requestVars == <<written, wireEnd, read, forwarder, inbox, receiverOpen,
                 receiving, received, raised>>

\* HttpReceiveMessage::Request. The Disconnect variant of the enumeration is
\* constructed nowhere outside tests, so no message of this model has it.
Request(first, n, more) == [from |-> first, count |-> n, more_body |-> more]

\* The dictionary made of it has all its fields.
RequestMessage == [from: Nat, count: Nat, more_body: BOOLEAN]

\* Everything the forwarder has handed to Python, in order.
Delivered == received \o inbox

RequestTypeOK ==
    /\ written \in 0..MaxUnits
    /\ wireEnd \in {"open", "eof", "error"}
    /\ read \in 0..written
    /\ forwarder \in {"reading", "done"}
    /\ inbox \in Seq(RequestMessage)
    /\ receiverOpen \in BOOLEAN
    /\ receiving \in BOOLEAN
    /\ received \in Seq(RequestMessage)
    /\ raised \in BOOLEAN

RequestInit ==
    /\ written = 0
    /\ wireEnd = "open"
    /\ read = 0
    /\ forwarder = "reading"
    /\ inbox = <<>>
    /\ receiverOpen = TRUE
    /\ receiving = FALSE
    /\ received = <<>>
    /\ raised = FALSE

-----------------------------------------------------------------------------
(* The client, on its end of the request stream. *)

ClientWrite ==
    /\ wireEnd = "open"
    /\ written < MaxUnits
    /\ written - read < WireCapacity
    /\ written' = written + 1
    /\ UNCHANGED <<wireEnd, read, forwarder, inbox, receiverOpen, receiving,
                   received, raised>>

\* The client ends the body, or its connection breaks.
ClientEnd ==
    /\ wireEnd = "open"
    /\ wireEnd' \in {"eof", "error"}
    /\ UNCHANGED <<written, read, forwarder, inbox, receiverOpen, receiving,
                   received, raised>>

-----------------------------------------------------------------------------
(* forward_http_request. *)

\* rx.send(..): refused when Python has dropped the receiver.
Deliver(msg) == inbox' = IF receiverOpen THEN Append(inbox, msg) ELSE inbox

\* Faulty variant: the bytes read are not split off the buffer, and the next
\* read sends them again.
ForwardDataTwice ==
    /\ forwarder = "reading"
    /\ \E n \in 1..(written - read) :
          /\ Deliver(Request(read, n, TRUE))
          /\ \/ read' = read + n
             \/ read' = read
    /\ forwarder' = IF receiverOpen THEN "reading" ELSE "done"
    /\ UNCHANGED <<written, wireEnd, receiverOpen, receiving, received, raised>>

\* Faulty variant: the forwarder waits until the application has taken the
\* previous message, as a channel of capacity one would.
ForwardDataBounded ==
    /\ forwarder = "reading"
    /\ inbox = <<>>
    /\ \E n \in 1..(written - read) :
          /\ Deliver(Request(read, n, TRUE))
          /\ read' = read + n
    /\ forwarder' = IF receiverOpen THEN "reading" ELSE "done"
    /\ UNCHANGED <<written, wireEnd, receiverOpen, receiving, received, raised>>

\* Some of the pending data is read and forwarded with more_body set; the loop
\* breaks when Python dropped the receiver.
ForwardData ==
    /\ forwarder = "reading"
    /\ \E n \in 1..(written - read) :
          /\ Deliver(Request(read, n, TRUE))
          /\ read' = read + n
    /\ forwarder' = IF receiverOpen THEN "reading" ELSE "done"
    /\ UNCHANGED <<written, wireEnd, receiverOpen, receiving, received, raised>>

\* Faulty variant: an empty read is taken for the end while the client is
\* still sending.
ForwardEofEarly ==
    /\ forwarder = "reading"
    /\ wireEnd # "error"
    /\ read = written
    /\ Deliver(Request(read, 0, FALSE))
    /\ forwarder' = "done"
    /\ UNCHANGED <<written, wireEnd, read, receiverOpen, receiving, received,
                   raised>>

\* A read of zero bytes is the end of the body: an empty message with
\* more_body unset, and the loop breaks.
ForwardEof ==
    /\ forwarder = "reading"
    /\ wireEnd = "eof"
    /\ read = written
    /\ Deliver(Request(read, 0, FALSE))
    /\ forwarder' = "done"
    /\ UNCHANGED <<written, wireEnd, read, receiverOpen, receiving, received,
                   raised>>

\* A failed read ends the loop without any message.
ForwardReadError ==
    /\ forwarder = "reading"
    /\ wireEnd = "error"
    /\ forwarder' = "done"
    /\ UNCHANGED <<written, wireEnd, read, inbox, receiverOpen, receiving,
                   received, raised>>

-----------------------------------------------------------------------------
(* The application and its Receiver object. *)

CallReceive ==
    /\ receiverOpen
    /\ ~receiving
    /\ receiving' = TRUE
    /\ UNCHANGED <<written, wireEnd, read, forwarder, inbox, receiverOpen,
                   received, raised>>

ReceiveMessage ==
    /\ receiving
    /\ inbox # <<>>
    /\ received' = Append(received, Head(inbox))
    /\ inbox' = Tail(inbox)
    /\ receiving' = FALSE
    /\ UNCHANGED <<written, wireEnd, read, forwarder, receiverOpen, raised>>

\* Faulty variant: an empty channel is reported as closed (try_recv).
ReceiveRaisesWhenEmpty ==
    /\ receiving
    /\ inbox = <<>>
    /\ raised' = TRUE
    /\ receiving' = FALSE
    /\ UNCHANGED <<written, wireEnd, read, forwarder, inbox, receiverOpen,
                   received>>

\* Faulty variant: the closed channel is noticed only when the body was
\* ended by the client.
ReceiveRaisesAfterEof ==
    /\ receiving
    /\ inbox = <<>>
    /\ forwarder = "done"
    /\ wireEnd = "eof"
    /\ raised' = TRUE
    /\ receiving' = FALSE
    /\ UNCHANGED <<written, wireEnd, read, forwarder, inbox, receiverOpen,
                   received>>

\* recv() gives None once the forwarder is gone and the channel is empty:
\* ValueError("No message received").
ReceiveRaises ==
    /\ receiving
    /\ inbox = <<>>
    /\ forwarder = "done"
    /\ raised' = TRUE
    /\ receiving' = FALSE
    /\ UNCHANGED <<written, wireEnd, read, forwarder, inbox, receiverOpen,
                   received>>

\* The coroutine waiting in receive() is cancelled: recv() loses no message.
CancelReceive ==
    /\ receiving
    /\ receiving' = FALSE
    /\ UNCHANGED <<written, wireEnd, read, forwarder, inbox, receiverOpen,
                   received, raised>>

\* Python frees the Receiver; what the channel still holds goes with it.
DropReceiver ==
    /\ receiverOpen
    /\ ~receiving
    /\ receiverOpen' = FALSE
    /\ inbox' = <<>>
    /\ UNCHANGED <<written, wireEnd, read, forwarder, receiving, received,
                   raised>>

-----------------------------------------------------------------------------

Client == ClientWrite \/ ClientEnd

Forwarder == ForwardData \/ ForwardEof \/ ForwardReadError

ReceiveCompletes == ReceiveMessage \/ ReceiveRaises

Application ==
    CallReceive \/ ReceiveCompletes \/ CancelReceive \/ DropReceiver

RequestNext == Client \/ Forwarder \/ Application

\* The forwarder is a tokio task woken by the stream, and a pending receive()
\* is woken by the channel. Nobody makes the client write or the application
\* call receive().
RequestFairness ==
    /\ WF_requestVars(Forwarder)
    /\ WF_requestVars(ReceiveCompletes)

RequestSpec == RequestInit /\ [][RequestNext]_requestVars

FairRequestSpec == RequestSpec /\ RequestFairness

-----------------------------------------------------------------------------
(* Correctness. *)

\* The bodies the application receives, put one after the other, are the
\* client's data: each message starts where the one before it ended, and the
\* forwarder is exactly at the end of the last. This is what the buffer kept
\* between two reads in forward_http_request must not break.
BodyIsContiguous ==
    /\ \A i \in 1..Len(Delivered) :
          Delivered[i].from = IF i = 1 THEN 0
                              ELSE Delivered[i-1].from + Delivered[i-1].count
    /\ receiverOpen /\ Delivered # <<>> =>
          read = Delivered[Len(Delivered)].from + Delivered[Len(Delivered)].count

\* A message with more_body unset is a promise that the body is complete: it
\* is the last one, the client ended the body itself (a broken connection is
\* never presented as a complete body) and every unit came before it.
FinalMeansComplete ==
    \A i \in 1..Len(Delivered) :
        ~Delivered[i].more_body =>
            /\ i = Len(Delivered)
            /\ wireEnd = "eof"
            /\ Delivered[i].from = written
            /\ forwarder = "done"

\* receive() raises only when nothing can come any more: in particular, if the
\* client ended its body normally, the application has been given all of it.
RaiseMeansNothingLeft ==
    raised =>
        /\ forwarder = "done"
        /\ inbox = <<>>
        /\ wireEnd = "error" \/ (received # <<>> /\ ~received[Len(received)].more_body)

\* A pending receive() is answered once the client has ended the request in
\* any way: the application is not left waiting on a dead connection.
ReceiveAnsweredAfterEnd == (receiving /\ wireEnd # "open") ~> ~receiving

\* The unbounded channel keeps draining the stream whatever the application
\* does, so a client that writes its whole body before it reads the response
\* is never blocked by an application that has not called receive() yet.
ClientNeverBlocked == []<>(read = written \/ forwarder = "done")

=============================================================================
