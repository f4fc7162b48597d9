--------------------------- MODULE WebSocketProofs ---------------------------
(***************************************************************************)
(* Proofs about WebSocketExchange, for every application and every client, *)
(* any number of messages and frames and every capacity of the stream.     *)
(***************************************************************************)
EXTENDS WebSocketExchange, SequenceTheorems, TLAPS

(* The tuples of variables are always expanded. *)
USE DEF appVars, ackVars, receiveVars, taskVars, streamVars, clientVars,
        forwardVars

(* The inductive invariant, in named parts. *)

\* The pending call is the last one, and the loop has not answered it yet.
AwaitingIsQueued ==
    awaiting # 0 => /\ awaiting = Len(log)
                    /\ loop # "done"
                    /\ taken < awaiting \/ loop \in {"write", "close"}

\* Before the handshake nothing has been taken, read or written; after it the
\* first message is the acknowledged Accept.
HandshakeDecides ==
    /\ loop = "none" <=> handle = "waiting"
    /\ forwarder = "none" <=> handle = "waiting"
    /\ handle \in {"refused", "cancelled"} => loop = "done" /\ forwarder = "done"
    /\ handle = "accepted" => taken > 0 /\ log[1] = "accept" /\ 1 \in acked
    /\ handle # "accepted" => stream = <<>> /\ taken = 0 /\ read = 0

\* The loop works on the message its place tells, which is not in the stream.
MessageInHand ==
    loop \in {"write", "close"} =>
        /\ taken > 0
        /\ log[taken] = IF loop = "write" THEN "send" ELSE "close"
        /\ taken \notin acked
        /\ \A k \in 1..Len(stream) : stream[k] < taken

\* Up to the message in hand, the stream has a frame for every Send.
StreamIsPrefix ==
    /\ \A k \in 1..Len(stream) :
          /\ stream[k] <= taken
          /\ \A j \in 1..(k-1) : stream[j] < stream[k]
    /\ \A i \in 1..taken :
          log[i] = "send" => IsWritten(i) \/ (i = taken /\ loop \in {"write", "done"})

AckedWereWritten ==
    \A i \in acked : i <= taken /\ (log[i] = "send" => IsWritten(i))

ClosedIsDone == closed # "open" => loop = "done"

\* The messages the application is handed.
ConnectComesFirst ==
    /\ receiverOpen => Delivered # <<>>
    /\ handle # "accepted" => Len(Delivered) <= 1
    /\ \A i \in 1..Len(Delivered) : Delivered[i].type = "connect" <=> i = 1

DisconnectComesLast ==
    /\ \A i \in 1..Len(Delivered) :
          Delivered[i].type = "disconnect" => i = Len(Delivered) /\ forwarder = "done"
    /\ receiverOpen /\ handle = "accepted" /\ forwarder = "done"
          => Delivered[Len(Delivered)].type = "disconnect"

FramesInOrder ==
    /\ \A i \in 1..Len(Delivered) : Delivered[i].frame <= read
    /\ \A i \in 1..Len(Delivered) : Delivered[i].type = "receive" =>
          \A j \in 1..(i-1) : Delivered[j].frame < Delivered[i].frame
    /\ receiverOpen =>
          \A f \in 1..read : frames[f] = "data" =>
              \E i \in 1..Len(Delivered) : Delivered[i] = Receive(f)

\* receive() raises when the channel is closed and empty, and it stays so.
CallKeepsReceiver == receiving => receiverOpen

RaisedIsTold ==
    raised => /\ forwarder = "done"
              /\ handle = "accepted" =>
                    /\ received # <<>>
                    /\ received[Len(received)].type = "disconnect"

\* A compliant application queues its one Accept first and its Close last, and
\* once it is over it has no call out.
ProtocolInLog ==
    compliant =>
        \A i \in 1..Len(log) : /\ log[i] = "accept" => i = 1
                               /\ log[i] = "close" => i = Len(log)

AppFollowsProtocol ==
    /\ futureDone => app # "running"
    /\ compliant /\ app # "running" => awaiting = 0

SendingInv ==
    /\ AwaitingIsQueued /\ HandshakeDecides /\ MessageInHand /\ StreamIsPrefix
    /\ AckedWereWritten /\ ClosedIsDone

ReceivingInv ==
    /\ ConnectComesFirst /\ DisconnectComesLast /\ FramesInOrder
    /\ CallKeepsReceiver /\ RaisedIsTold

CompliantInv == ProtocolInLog /\ AppFollowsProtocol /\ SendsAreAcked

WebSocketInv == TypeOK /\ SendingInv /\ ReceivingInv /\ CompliantInv

-----------------------------------------------------------------------------
(* The steps, seen from the side of the application's messages.              *)

sendingVars == <<appVars, ackVars, taskVars, streamVars, consumed, clientGone>>

LEMMA SendingSide ==
  ASSUME [Next]_vars
  PROVE  \/ \E kind \in SendKinds : Send(kind)
         \/ \E outcome \in {"returned", "raised"} : Finish(outcome)
         \/ CancelSend \/ CompleteFuture \/ ReleaseSender
         \/ Accept \/ Refuse \/ CancelHandle
         \/ ForwardingTask
         \/ ClientRead \/ ClientLeaves
         \/ UNCHANGED sendingVars
<1> USE DEF sendingVars
<1>1. CASE CallReceive \/ ReleaseReceiver
  BY <1>1 DEF CallReceive, ReleaseReceiver
<1>2. CASE ReceiveCompletes
  BY <1>2 DEF ReceiveCompletes, ReceiveMessage, ReceiveRaises
<1>3. CASE Forwarder
  BY <1>3 DEF Forwarder, ForwardFrame, SkipFrame, ForwardClose, ForwardEnd
<1>4. ASSUME NEW kind \in FrameKinds, ClientFrame(kind)
      PROVE  UNCHANGED sendingVars
  BY <1>4 DEF ClientFrame
<1>5. CASE ClientEnd
  BY <1>5 DEF ClientEnd
<1>6. CASE UNCHANGED vars
  BY <1>6 DEF vars
<1>7. QED
  BY <1>1, <1>2, <1>3, <1>4, <1>5, <1>6 DEF Next, Application, Handshake, Client

(* The steps, seen from the side of the client's frames. *)
deliveryVars == <<receiveVars, forwardVars, frames, handle>>

LEMMA DeliverySide ==
  ASSUME [Next]_vars
  PROVE  \/ CallReceive \/ ReceiveMessage \/ ReceiveRaises \/ ReleaseReceiver
         \/ Accept \/ Refuse \/ CancelHandle
         \/ Forwarder
         \/ \E kind \in FrameKinds : ClientFrame(kind)
         \/ UNCHANGED deliveryVars
<1> USE DEF deliveryVars
<1>1. ASSUME NEW kind \in SendKinds, Send(kind)
      PROVE  UNCHANGED deliveryVars
  BY <1>1 DEF Send
<1>2. ASSUME NEW outcome \in {"returned", "raised"}, Finish(outcome)
      PROVE  UNCHANGED deliveryVars
  BY <1>2 DEF Finish
<1>3. CASE CancelSend \/ CompleteFuture \/ ReleaseSender
  BY <1>3 DEF CancelSend, CompleteFuture, ReleaseSender
<1>4. CASE TakeFrame \/ AckAccept \/ WriteFrame \/ WriteFails
  BY <1>4 DEF TakeFrame, AckAccept, WriteFrame, WriteFails
<1>5. CASE WriteClose \/ CloseFails \/ QueueClosed \/ FutureFinished
  BY <1>5 DEF WriteClose, CloseFails, QueueClosed, FutureFinished
<1>6. CASE ClientEnd \/ ClientRead \/ ClientLeaves
  BY <1>6 DEF ClientEnd, ClientRead, ClientLeaves
<1>7. CASE UNCHANGED vars
  BY <1>7 DEF vars
<1>8. QED
  BY <1>1, <1>2, <1>3, <1>4, <1>5, <1>6, <1>7
  DEF Next, Application, ReceiveCompletes, Handshake, ForwardingTask, Client

(* Most of the steps on that side neither queue, take, acknowledge nor write *)
(* a message.                                                                *)
Quiet ==
    /\ UNCHANGED <<log, taken, stream, acked>>
    /\ awaiting' \in {0, awaiting}
    /\ consumed' = consumed \/ (consumed' = consumed + 1 /\ consumed < Len(stream))
    /\ loop' = loop \/ (loop' = "done" /\ awaiting' = 0)

LEMMA QuietSteps ==
  ASSUME [Next]_vars
  PROVE  \/ \E kind \in SendKinds : Send(kind)
         \/ Accept \/ TakeFrame \/ AckAccept \/ WriteFrame \/ WriteClose
         \/ Quiet
<1> USE DEF Quiet
<1>1. ASSUME NEW outcome \in {"returned", "raised"}, Finish(outcome)
      PROVE  Quiet
  BY <1>1 DEF Finish
<1>2. CASE CancelSend
  BY <1>2 DEF CancelSend
<1>3. CASE CompleteFuture
  BY <1>3 DEF CompleteFuture
<1>4. CASE ReleaseSender
  BY <1>4 DEF ReleaseSender
<1>5. CASE Refuse
  BY <1>5 DEF Refuse, GiveUp
<1>6. CASE CancelHandle
  BY <1>6 DEF CancelHandle, GiveUp
<1>7. CASE WriteFails
  BY <1>7 DEF WriteFails, Exit
<1>8. CASE CloseFails
  BY <1>8 DEF CloseFails, Exit
<1>9. CASE QueueClosed
  BY <1>9 DEF QueueClosed, Exit
<1>10. CASE FutureFinished
  BY <1>10 DEF FutureFinished, Exit
<1>11. CASE ClientRead
  BY <1>11 DEF ClientRead
<1>12. CASE ClientLeaves
  BY <1>12 DEF ClientLeaves
<1>13. CASE UNCHANGED sendingVars
  BY <1>13 DEF sendingVars
<1>14. QED
  BY <1>1, <1>2, <1>3, <1>4, <1>5, <1>6, <1>7, <1>8, <1>9, <1>10, <1>11,
     <1>12, <1>13, SendingSide
  DEF ForwardingTask

(* Taking the next message. *)
LEMMA TakeEffects ==
  ASSUME TakeFrame \/ AckAccept
  PROVE  /\ UNCHANGED <<log, stream, consumed, closed>>
         /\ loop = "select" /\ taken < Len(log) /\ taken' = taken + 1
         /\ \/ /\ TakeFrame
               /\ log[taken + 1] \in {"send", "close"}
               /\ loop' = IF log[taken + 1] = "send" THEN "write" ELSE "close"
               /\ UNCHANGED <<awaiting, acked>>
            \/ /\ log[taken + 1] = "accept"
               /\ loop' = "select" /\ awaiting = taken + 1
               /\ awaiting' = 0 /\ acked' = acked \cup {taken + 1}
            \/ /\ log[taken + 1] = "accept"
               /\ loop' = "done" /\ awaiting # taken + 1
               /\ awaiting' = 0 /\ acked' = acked
<1>1. CASE TakeFrame
  BY <1>1 DEF TakeFrame, Receives
<1>2. CASE AckAccept
  BY <1>2 DEF AckAccept, Receives, Acked, Exit
<1>3. QED
  BY <1>1, <1>2

(* Writing the frame of the message in hand. *)
LEMMA WriteEffects ==
  ASSUME WriteFrame \/ WriteClose
  PROVE  /\ UNCHANGED <<log, taken, consumed>>
         /\ stream' = Append(stream, taken)
         /\ loop \in {"write", "close"}
         /\ awaiting' = 0
         /\ \/ loop' = "select" /\ loop = "write" /\ awaiting = taken
               /\ acked' = acked \cup {taken}
            \/ loop' = "done" /\ acked' = acked
<1>1. CASE WriteFrame
  BY <1>1 DEF WriteFrame, Acked, Exit
<1>2. CASE WriteClose
  BY <1>2 DEF WriteClose, Exit
<1>3. QED
  BY <1>1, <1>2

-----------------------------------------------------------------------------
(* Types. *)

LEMMA FlagsStep ==
  ASSUME FlagsOK, [Next]_vars
  PROVE  FlagsOK'
<1> USE DEF FlagsOK
<1>1. ASSUME NEW kind \in SendKinds, Send(kind)
      PROVE  FlagsOK'
  BY <1>1, Zenon DEF Send
<1>2. ASSUME NEW outcome \in {"returned", "raised"}, Finish(outcome)
      PROVE  FlagsOK'
  BY <1>2, Zenon DEF Finish
<1>3. CASE CancelSend \/ CompleteFuture \/ ReleaseSender
  BY <1>3, Zenon DEF CancelSend, CompleteFuture, ReleaseSender
<1>4. CASE CallReceive \/ ReceiveMessage \/ ReceiveRaises \/ ReleaseReceiver
  BY <1>4, Zenon DEF CallReceive, ReceiveMessage, ReceiveRaises, ReleaseReceiver
<1>5. CASE Accept \/ Refuse \/ CancelHandle
  BY <1>5, Zenon DEF Accept, Refuse, CancelHandle, GiveUp
<1>6. CASE ForwardingTask
  BY <1>6, Zenon
  DEF ForwardingTask, TakeFrame, AckAccept, WriteFrame, WriteFails, WriteClose,
      CloseFails, QueueClosed, FutureFinished
<1>7. CASE Forwarder
  BY <1>7, Zenon DEF Forwarder, ForwardFrame, SkipFrame, ForwardClose, ForwardEnd
<1>8. ASSUME NEW kind \in FrameKinds, ClientFrame(kind)
      PROVE  FlagsOK'
  BY <1>8, Zenon DEF ClientFrame
<1>9. CASE ClientEnd \/ ClientRead \/ ClientLeaves
  BY <1>9, Zenon DEF ClientEnd, ClientRead, ClientLeaves
<1>10. CASE UNCHANGED vars
  BY <1>10, Zenon DEF vars
<1>11. QED
  BY <1>1, <1>2, <1>3, <1>4, <1>5, <1>6, <1>7, <1>8, <1>9, <1>10, Zenon
  DEF Next, Application, ReceiveCompletes, Handshake, Client

LEMMA StatesStep ==
  ASSUME StatesOK, [Next]_vars
  PROVE  StatesOK'
<1> USE DEF StatesOK
<1>1. ASSUME NEW kind \in SendKinds, Send(kind)
      PROVE  StatesOK'
  BY <1>1 DEF Send
<1>2. ASSUME NEW outcome \in {"returned", "raised"}, Finish(outcome)
      PROVE  StatesOK'
  BY <1>2 DEF Finish
<1>3. CASE CancelSend \/ CompleteFuture \/ ReleaseSender
  BY <1>3 DEF CancelSend, CompleteFuture, ReleaseSender
<1>4. CASE CallReceive \/ ReceiveMessage \/ ReceiveRaises \/ ReleaseReceiver
  BY <1>4 DEF CallReceive, ReceiveMessage, ReceiveRaises, ReleaseReceiver
<1>5. CASE Accept \/ Refuse \/ CancelHandle
  BY <1>5 DEF Accept, Refuse, CancelHandle, GiveUp
<1>6. CASE TakeFrame \/ AckAccept \/ WriteFrame \/ WriteFails
  BY <1>6 DEF TakeFrame, AckAccept, WriteFrame, WriteFails, Exit
<1>7. CASE WriteClose \/ CloseFails \/ QueueClosed \/ FutureFinished
  BY <1>7 DEF WriteClose, CloseFails, QueueClosed, FutureFinished, Exit
<1>8. CASE Forwarder
  BY <1>8 DEF Forwarder, ForwardFrame, SkipFrame, ForwardClose, ForwardEnd
<1>9. ASSUME NEW kind \in FrameKinds, ClientFrame(kind)
      PROVE  StatesOK'
  BY <1>9 DEF ClientFrame
<1>10. CASE ClientEnd \/ ClientRead \/ ClientLeaves
  BY <1>10 DEF ClientEnd, ClientRead, ClientLeaves
<1>11. CASE UNCHANGED vars
  BY <1>11 DEF vars
<1>12. QED
  BY <1>1, <1>2, <1>3, <1>4, <1>5, <1>6, <1>7, <1>8, <1>9, <1>10, <1>11
  DEF Next, Application, ReceiveCompletes, Handshake, ForwardingTask, Client

(* Positions stay within the log and the stream. *)
LEMMA MessagesStep ==
  ASSUME MessagesOK, MessageInHand, [Next]_vars
  PROVE  MessagesOK'
<1> USE DEF MessagesOK
<1>1. ASSUME NEW kind \in SendKinds, Send(kind)
      PROVE  MessagesOK'
  <2>1. /\ log' \in Seq(SendKinds)
        /\ Len(log') = Len(log) + 1
    BY <1>1 DEF Send
  <2>2. stream' \in Seq(1..Len(log'))
    BY <1>1, <2>1 DEF Send
  <2>3. QED
    BY <1>1, <2>1, <2>2 DEF Send
<1>2. CASE Accept
  BY <1>2 DEF Accept
<1>3. CASE TakeFrame \/ AckAccept
  <2>1. /\ UNCHANGED <<log, stream, consumed>>
        /\ taken' \in 0..Len(log)
        /\ awaiting' \in {0, awaiting}
        /\ acked' \subseteq acked \cup {taken + 1}
        /\ taken + 1 \in 1..Len(log)
    BY <1>3, TakeEffects
  <2>2. QED
    BY <2>1
<1>4. CASE WriteFrame \/ WriteClose
  <2>1. taken \in 1..Len(log)
    BY <1>4, WriteEffects DEF MessageInHand
  <2>2. /\ stream' \in Seq(1..Len(log))
        /\ Len(stream') = Len(stream) + 1
    BY <1>4, <2>1, WriteEffects
  <2>3. /\ UNCHANGED <<log, taken, consumed>>
        /\ awaiting' = 0
        /\ acked' \subseteq acked \cup {taken}
    BY <1>4, WriteEffects
  <2>4. QED
    BY <2>1, <2>2, <2>3
<1>5. CASE Quiet
  BY <1>5 DEF Quiet
<1>6. QED
  BY <1>1, <1>2, <1>3, <1>4, <1>5, QuietSteps

(* What the forwarder puts on the channel is a message. *)
LEMMA DeliverType ==
  ASSUME inbox \in Seq(ReceiveMessages), NEW msg, Deliver(msg),
         \/ \E i \in Nat : msg = Receive(i)
         \/ \E code \in {"client", "normal", "abnormal"} : msg = Disconnect(code)
  PROVE  msg \in ReceiveMessages /\ inbox' \in Seq(ReceiveMessages)
<1>1. msg \in ReceiveMessages
  BY DEF Receive, Disconnect, ReceiveMessages
<1>2. QED
  BY <1>1, AppendProperties DEF Deliver

LEMMA FramesStep ==
  ASSUME FramesOK, [Next]_vars
  PROVE  FramesOK'
<1> USE DEF FramesOK
<1>1. CASE CallReceive \/ ReceiveRaises \/ ReleaseReceiver
  <2>1. UNCHANGED <<received, frames, read>> /\ inbox' \in {inbox, <<>>}
    BY <1>1 DEF CallReceive, ReceiveRaises, ReleaseReceiver
  <2>2. QED
    BY <2>1, EmptySeq
<1>2. CASE ReceiveMessage
  BY <1>2 DEF ReceiveMessage
<1>3. CASE Accept \/ Refuse \/ CancelHandle
  BY <1>3 DEF Accept, Refuse, CancelHandle, GiveUp
<1>4. CASE ForwardFrame \/ SkipFrame \/ ForwardClose
  <2>1. read' \in 0..Len(frames) /\ read + 1 \in Nat
    BY <1>4 DEF ForwardFrame, SkipFrame, ForwardClose, NextFrame
  <2>2. inbox' \in Seq(ReceiveMessages)
    BY <1>4, <2>1, DeliverType DEF ForwardFrame, SkipFrame, ForwardClose
  <2>3. QED
    BY <1>4, <2>1, <2>2 DEF ForwardFrame, SkipFrame, ForwardClose
<1>5. CASE ForwardEnd
  <2>1. inbox' \in Seq(ReceiveMessages)
    BY <1>5, DeliverType DEF ForwardEnd
  <2>2. QED
    BY <1>5, <2>1 DEF ForwardEnd
<1>6. ASSUME NEW kind \in FrameKinds, ClientFrame(kind)
      PROVE  FramesOK'
  <2>1. frames' \in Seq(FrameKinds) /\ Len(frames') = Len(frames) + 1
    BY <1>6 DEF ClientFrame
  <2>2. QED
    BY <1>6, <2>1 DEF ClientFrame
<1>7. CASE UNCHANGED deliveryVars
  BY <1>7 DEF deliveryVars
<1>8. QED
  BY <1>1, <1>2, <1>3, <1>4, <1>5, <1>6, <1>7, DeliverySide DEF Forwarder

-----------------------------------------------------------------------------
(* The side of the application's messages. *)

(* What send() appends leaves the messages before it where they were. *)
LEMMA SendKeepsLog ==
  ASSUME MessagesOK, NEW kind \in SendKinds, Send(kind)
  PROVE  /\ Len(log) \in Nat
         /\ Len(log') = Len(log) + 1
         /\ log'[Len(log) + 1] = kind
         /\ \A i \in 1..Len(log) : log'[i] = log[i]
         /\ loop # "done" /\ awaiting = 0 /\ awaiting' = Len(log) + 1
         /\ UNCHANGED <<taken, loop, stream, acked, handle, closed, clientGone,
                        compliant>>
  BY DEF MessagesOK, Send

LEMMA AwaitingStep ==
  ASSUME MessagesOK, AwaitingIsQueued, [Next]_vars
  PROVE  AwaitingIsQueued'
<1> USE DEF AwaitingIsQueued, MessagesOK
<1>1. ASSUME NEW kind \in SendKinds, Send(kind)
      PROVE  AwaitingIsQueued'
  BY <1>1, SendKeepsLog
<1>2. CASE Accept
  BY <1>2 DEF Accept
<1>3. CASE TakeFrame \/ AckAccept
  BY <1>3, TakeEffects
<1>4. CASE WriteFrame \/ WriteClose
  BY <1>4, WriteEffects
<1>5. CASE Quiet
  BY <1>5 DEF Quiet
<1>6. QED
  BY <1>1, <1>2, <1>3, <1>4, <1>5, QuietSteps

(* The handshake is the only thing that happens to handle(), and the tasks   *)
(* it spawns run only after it.                                              *)
HandshakeKept ==
    /\ handle' = handle
    /\ loop' = loop \/ (loop \notin {"none", "done"} /\ loop' # "none")
    /\ forwarder' = forwarder \/ (forwarder = "reading" /\ forwarder' # "none")
    /\ \/ UNCHANGED <<taken, stream>>
       \/ loop \notin {"none", "done"} /\ taken' \in {taken, taken + 1}
    /\ read' = read \/ forwarder = "reading"
    /\ acked \subseteq acked'
    /\ log' = log \/ \E kind \in SendKinds : log' = Append(log, kind)

LEMMA HandshakeSteps ==
  ASSUME [Next]_vars
  PROVE  Accept \/ Refuse \/ CancelHandle \/ HandshakeKept
<1> USE DEF HandshakeKept
<1>1. ASSUME NEW kind \in SendKinds, Send(kind)
      PROVE  HandshakeKept
  BY <1>1 DEF Send
<1>2. ASSUME NEW outcome \in {"returned", "raised"}, Finish(outcome)
      PROVE  HandshakeKept
  BY <1>2 DEF Finish
<1>3. CASE CancelSend
  BY <1>3 DEF CancelSend
<1>4. CASE CompleteFuture
  BY <1>4 DEF CompleteFuture
<1>5. CASE ReleaseSender
  BY <1>5 DEF ReleaseSender
<1>6. CASE CallReceive
  BY <1>6 DEF CallReceive
<1>7. CASE ReceiveMessage \/ ReceiveRaises
  BY <1>7 DEF ReceiveMessage, ReceiveRaises
<1>8. CASE ReleaseReceiver
  BY <1>8 DEF ReleaseReceiver
<1>9. CASE TakeFrame
  BY <1>9 DEF TakeFrame, Receives
<1>10. CASE AckAccept
  BY <1>10 DEF AckAccept, Receives, Acked, Exit
<1>11. CASE WriteFrame
  BY <1>11 DEF WriteFrame, Acked, Exit
<1>12. CASE WriteClose
  BY <1>12 DEF WriteClose, Exit
<1>13. CASE WriteFails \/ CloseFails
  BY <1>13 DEF WriteFails, CloseFails, Exit
<1>14. CASE QueueClosed \/ FutureFinished
  BY <1>14 DEF QueueClosed, FutureFinished, Exit
<1>15. CASE ForwardFrame
  BY <1>15 DEF ForwardFrame, NextFrame
<1>16. CASE SkipFrame
  BY <1>16 DEF SkipFrame, NextFrame
<1>17. CASE ForwardClose \/ ForwardEnd
  BY <1>17 DEF ForwardClose, ForwardEnd, NextFrame
<1>18. ASSUME NEW kind \in FrameKinds, ClientFrame(kind)
       PROVE  HandshakeKept
  BY <1>18 DEF ClientFrame
<1>19. CASE ClientEnd \/ ClientRead \/ ClientLeaves
  BY <1>19 DEF ClientEnd, ClientRead, ClientLeaves
<1>20. CASE UNCHANGED vars
  BY <1>20 DEF vars
<1>21. QED
  BY <1>1, <1>2, <1>3, <1>4, <1>5, <1>6, <1>7, <1>8, <1>9, <1>10, <1>11,
     <1>12, <1>13, <1>14, <1>15, <1>16, <1>17, <1>18, <1>19, <1>20
  DEF Next, Application, ReceiveCompletes, Handshake, ForwardingTask,
      Forwarder, Client

LEMMA HandshakeStep ==
  ASSUME MessagesOK, StatesOK, HandshakeDecides, [Next]_vars
  PROVE  HandshakeDecides'
<1> USE DEF HandshakeDecides, StatesOK
<1>1. CASE Accept
  BY <1>1 DEF Accept
<1>2. CASE Refuse \/ CancelHandle
  BY <1>2 DEF Refuse, CancelHandle, GiveUp
<1>3. CASE HandshakeKept
  <2>1. taken > 0 => Len(log) > 0
    BY DEF MessagesOK
  <2>2. Len(log) > 0 => log'[1] = log[1]
    BY <1>3 DEF HandshakeKept, MessagesOK
  <2>3. taken > 0 => taken' > 0
    BY <1>3 DEF HandshakeKept, MessagesOK
  <2>4. QED
    BY <1>3, <2>1, <2>2, <2>3 DEF HandshakeKept
<1>4. QED
  BY <1>1, <1>2, <1>3, HandshakeSteps

(* The facts about the stream and the message in hand belong together. *)
Delivery ==
    MessagesOK /\ HandshakeDecides /\ MessageInHand /\ StreamIsPrefix /\ AckedWereWritten

LEMMA SendKeepsDelivery ==
  ASSUME Delivery, NEW kind \in SendKinds, Send(kind)
  PROVE  MessageInHand' /\ StreamIsPrefix' /\ AckedWereWritten'
<1>1. /\ UNCHANGED <<taken, loop, stream, acked>>
      /\ \A i \in 1..taken : log'[i] = log[i]
      /\ \A i : IsWritten(i)' = IsWritten(i)
      /\ taken \in Nat
  BY SendKeepsLog DEF Delivery, MessagesOK, IsWritten
<1>2. MessageInHand'
  BY <1>1 DEF Delivery, MessageInHand
<1>3. StreamIsPrefix'
  BY <1>1 DEF Delivery, StreamIsPrefix
<1>4. \A i \in acked : i \in 1..taken
  BY DEF Delivery, AckedWereWritten, MessagesOK
<1>5. AckedWereWritten'
  BY <1>1, <1>4 DEF Delivery, AckedWereWritten
<1>6. QED
  BY <1>2, <1>3, <1>5

LEMMA AcceptKeepsDelivery ==
  ASSUME Delivery, Accept
  PROVE  MessageInHand' /\ StreamIsPrefix' /\ AckedWereWritten'
<1>1. /\ taken = 0 /\ stream = <<>>
      /\ taken' = 1 /\ loop' = "select" /\ acked' = acked \cup {1}
      /\ log[1] = "accept"
      /\ UNCHANGED <<log, stream>>
  BY DEF Delivery, HandshakeDecides, Accept
<1>2. \A i \in acked : FALSE
  BY <1>1 DEF Delivery, AckedWereWritten, MessagesOK
<1>3. QED
  BY <1>1, <1>2 DEF MessageInHand, StreamIsPrefix, AckedWereWritten

LEMMA TakeKeepsDelivery ==
  ASSUME Delivery, TakeFrame \/ AckAccept
  PROVE  MessageInHand' /\ StreamIsPrefix' /\ AckedWereWritten'
<1>1. /\ UNCHANGED <<log, stream>>
      /\ loop = "select" /\ taken' = taken + 1
      /\ taken \in Nat /\ Len(stream) \in Nat
      /\ \/ /\ loop' = IF log[taken + 1] = "send" THEN "write" ELSE "close"
            /\ log[taken + 1] \in {"send", "close"}
            /\ acked' = acked
         \/ /\ log[taken + 1] = "accept"
            /\ loop' \in {"select", "done"}
            /\ acked' \subseteq acked \cup {taken + 1}
  BY TakeEffects DEF Delivery, MessagesOK
<1>2. \A i : IsWritten(i)' = IsWritten(i)
  BY <1>1 DEF IsWritten
<1>3. /\ \A i \in 1..taken : log[i] = "send" => IsWritten(i)
      /\ \A k \in 1..Len(stream) :
            /\ stream[k] \in 1..taken
            /\ \A j \in 1..(k-1) : stream[j] < stream[k]
      /\ \A i \in acked : i \in 1..taken
  BY <1>1 DEF Delivery, MessagesOK, StreamIsPrefix, AckedWereWritten
<1>4. MessageInHand'
  BY <1>1, <1>3 DEF MessageInHand
<1>5. StreamIsPrefix'
  BY <1>1, <1>2, <1>3 DEF StreamIsPrefix
<1>6. AckedWereWritten'
  BY <1>1, <1>2, <1>3 DEF AckedWereWritten
<1>7. QED
  BY <1>4, <1>5, <1>6

LEMMA WriteKeepsDelivery ==
  ASSUME Delivery, WriteFrame \/ WriteClose
  PROVE  MessageInHand' /\ StreamIsPrefix' /\ AckedWereWritten'
<1>1. /\ UNCHANGED <<log, taken>>
      /\ stream' = Append(stream, taken)
      /\ taken \in 1..Len(log)
      /\ loop' \in {"select", "done"}
      /\ acked' \subseteq acked \cup {taken}
      /\ \A k \in 1..Len(stream) : stream[k] < taken
  BY WriteEffects DEF Delivery, MessagesOK, MessageInHand
<1>2. /\ Len(stream) \in Nat
      /\ Len(stream') = Len(stream) + 1
      /\ stream'[Len(stream) + 1] = taken
      /\ \A k \in 1..Len(stream) : stream'[k] = stream[k]
  BY <1>1 DEF Delivery, MessagesOK
<1>3. IsWritten(taken)' /\ \A i : IsWritten(i) => IsWritten(i)'
  BY <1>1, <1>2 DEF IsWritten
<1>4. \A i \in 1..taken : log[i] = "send" => IsWritten(i)'
  BY <1>1, <1>3 DEF Delivery, StreamIsPrefix
<1>5. MessageInHand'
  BY <1>1 DEF MessageInHand
<1>6. StreamIsPrefix'
  <2>1. ASSUME NEW k \in 1..Len(stream')
        PROVE  /\ stream'[k] <= taken
               /\ \A j \in 1..(k-1) : stream'[j] < stream'[k]
    <3>1. CASE k \in 1..Len(stream)
      BY <1>1, <1>2, <3>1 DEF Delivery, MessagesOK, StreamIsPrefix
    <3>2. CASE k = Len(stream) + 1
      BY <1>1, <1>2, <3>2
    <3>3. QED
      BY <1>2, <2>1, <3>1, <3>2
  <2>2. QED
    BY <1>1, <1>4, <2>1 DEF StreamIsPrefix
<1>7. AckedWereWritten'
  BY <1>1, <1>3 DEF Delivery, AckedWereWritten, MessagesOK
<1>8. QED
  BY <1>5, <1>6, <1>7

LEMMA QuietKeepsDelivery ==
  ASSUME Delivery, Quiet
  PROVE  MessageInHand' /\ StreamIsPrefix' /\ AckedWereWritten'
<1>1. /\ UNCHANGED <<log, taken, stream, acked>>
      /\ loop' \in {loop, "done"}
  BY DEF Quiet
<1>2. \A i : IsWritten(i)' = IsWritten(i)
  BY <1>1 DEF IsWritten
<1>3. MessageInHand'
  BY <1>1 DEF Delivery, MessageInHand
<1>4. StreamIsPrefix'
  BY <1>1, <1>2 DEF Delivery, StreamIsPrefix
<1>5. AckedWereWritten'
  BY <1>1, <1>2 DEF Delivery, AckedWereWritten
<1>6. QED
  BY <1>3, <1>4, <1>5

LEMMA DeliveryStep ==
  ASSUME Delivery, [Next]_vars
  PROVE  MessageInHand' /\ StreamIsPrefix' /\ AckedWereWritten'
  BY SendKeepsDelivery, AcceptKeepsDelivery, TakeKeepsDelivery,
     WriteKeepsDelivery, QuietKeepsDelivery, QuietSteps

(* The stream is closed in the last step of the task. *)
LEMMA ClosingSteps ==
  ASSUME [Next]_vars
  PROVE  WriteClose \/ FutureFinished \/ closed' = closed
<1>1. ASSUME NEW kind \in SendKinds, Send(kind)
      PROVE  closed' = closed
  BY <1>1 DEF Send
<1>2. ASSUME NEW outcome \in {"returned", "raised"}, Finish(outcome)
      PROVE  closed' = closed
  BY <1>2 DEF Finish
<1>3. CASE CancelSend \/ CompleteFuture \/ ReleaseSender
  BY <1>3 DEF CancelSend, CompleteFuture, ReleaseSender
<1>4. CASE Accept \/ Refuse \/ CancelHandle
  BY <1>4 DEF Accept, Refuse, CancelHandle, GiveUp
<1>5. CASE TakeFrame \/ AckAccept \/ WriteFrame
  BY <1>5 DEF TakeFrame, AckAccept, WriteFrame
<1>6. CASE WriteFails \/ CloseFails \/ QueueClosed
  BY <1>6 DEF WriteFails, CloseFails, QueueClosed
<1>7. CASE ClientRead \/ ClientLeaves
  BY <1>7 DEF ClientRead, ClientLeaves
<1>8. CASE UNCHANGED sendingVars
  BY <1>8 DEF sendingVars
<1>9. QED
  BY <1>1, <1>2, <1>3, <1>4, <1>5, <1>6, <1>7, <1>8, SendingSide
  DEF ForwardingTask

(* Once the task is done, it is done. *)
LEMMA DoneSteps ==
  ASSUME HandshakeDecides, loop = "done", [Next]_vars
  PROVE  UNCHANGED <<loop, stream, closed>>
<1>1. ~Accept /\ ~Refuse /\ ~CancelHandle
  BY DEF HandshakeDecides, Accept, Refuse, CancelHandle
<1>2. ~WriteClose /\ ~FutureFinished
  BY DEF WriteClose, FutureFinished
<1>3. UNCHANGED <<loop, stream>>
  BY <1>1, HandshakeSteps DEF HandshakeKept
<1>4. QED
  BY <1>2, <1>3, ClosingSteps

LEMMA ClosedStep ==
  ASSUME HandshakeDecides, ClosedIsDone, [Next]_vars
  PROVE  ClosedIsDone'
<1>1. CASE WriteClose \/ FutureFinished
  BY <1>1 DEF WriteClose, FutureFinished, Exit, ClosedIsDone
<1>2. CASE closed' = closed
  BY <1>2, DoneSteps DEF ClosedIsDone
<1>3. QED
  BY <1>1, <1>2, ClosingSteps

-----------------------------------------------------------------------------
(* Applications that keep to the protocol. *)

(* Whether it does is settled from the start, and who has left stays away.   *)
LEMMA LastingFacts ==
  ASSUME [Next]_vars
  PROVE  /\ compliant' = compliant
         /\ clientGone => clientGone'
         /\ app # "running" => app' = app
         /\ \/ \E kind \in SendKinds : Send(kind)
            \/ log' = log
<1>1. ASSUME NEW kind \in SendKinds, Send(kind)
      PROVE  UNCHANGED <<compliant, clientGone, app>>
  BY <1>1 DEF Send
<1>2. ASSUME NEW outcome \in {"returned", "raised"}, Finish(outcome)
      PROVE  UNCHANGED <<compliant, clientGone, log>> /\ app = "running"
  BY <1>2 DEF Finish
<1>3. CASE CancelSend \/ CompleteFuture \/ ReleaseSender
  BY <1>3 DEF CancelSend, CompleteFuture, ReleaseSender
<1>4. CASE Accept \/ Refuse \/ CancelHandle
  BY <1>4 DEF Accept, Refuse, CancelHandle, GiveUp
<1>5. CASE TakeFrame \/ AckAccept \/ WriteFrame \/ WriteFails
  BY <1>5 DEF TakeFrame, AckAccept, WriteFrame, WriteFails
<1>6. CASE WriteClose \/ CloseFails \/ QueueClosed \/ FutureFinished
  BY <1>6 DEF WriteClose, CloseFails, QueueClosed, FutureFinished
<1>7. CASE ClientRead \/ ClientLeaves
  BY <1>7 DEF ClientRead, ClientLeaves
<1>8. CASE UNCHANGED sendingVars
  BY <1>8 DEF sendingVars
<1>9. QED
  BY <1>1, <1>2, <1>3, <1>4, <1>5, <1>6, <1>7, <1>8, SendingSide
  DEF ForwardingTask

(* Conforming messages keep the log in the order of the protocol. *)
LEMMA ProtocolStep ==
  ASSUME MessagesOK, ProtocolInLog, [Next]_vars
  PROVE  ProtocolInLog'
<1>1. ASSUME NEW kind \in SendKinds, Send(kind), compliant
      PROVE  ProtocolInLog'
  <2>1. /\ Len(log) \in Nat
        /\ Len(log') = Len(log) + 1
        /\ log'[Len(log) + 1] = kind
        /\ \A i \in 1..Len(log) : log'[i] = log[i]
    BY <1>1, SendKeepsLog
  <2>2. Len(log) > 0 => kind # "accept" /\ log[Len(log)] # "close"
    BY <1>1 DEF Send, Conforms, MessagesOK
  <2>3. \A i \in 1..Len(log) : /\ log[i] = "accept" => i = 1
                               /\ log[i] = "close" => i = Len(log)
    BY <1>1 DEF ProtocolInLog
  <2>4. QED
    BY <2>1, <2>2, <2>3 DEF ProtocolInLog
<1>2. CASE log' = log
  BY <1>2, LastingFacts DEF ProtocolInLog
<1>3. CASE ~compliant
  BY <1>3, LastingFacts DEF ProtocolInLog
<1>4. QED
  BY <1>1, <1>2, <1>3, LastingFacts

(* A finished application has no call out. *)
LEMMA AppFollowsStep ==
  ASSUME MessagesOK, AppFollowsProtocol, [Next]_vars
  PROVE  AppFollowsProtocol'
<1> USE DEF AppFollowsProtocol
<1>1. ASSUME NEW kind \in SendKinds, Send(kind)
      PROVE  AppFollowsProtocol'
  BY <1>1 DEF Send
<1>2. ASSUME NEW outcome \in {"returned", "raised"}, Finish(outcome)
      PROVE  AppFollowsProtocol'
  BY <1>2 DEF Finish
<1>3. CASE CancelSend \/ CompleteFuture \/ ReleaseSender
  BY <1>3 DEF CancelSend, CompleteFuture, ReleaseSender
<1>4. CASE Accept \/ Refuse \/ CancelHandle
  BY <1>4 DEF Accept, Refuse, CancelHandle, GiveUp
<1>5. ASSUME UNCHANGED <<compliant, app, futureDone>>, awaiting' \in {0, awaiting}
      PROVE  AppFollowsProtocol'
  BY <1>5
<1>6. CASE TakeFrame \/ AckAccept
  BY <1>5, <1>6 DEF TakeFrame, AckAccept, Acked, Exit
<1>7. CASE WriteFrame \/ WriteFails
  BY <1>5, <1>7 DEF WriteFrame, WriteFails, Acked, Exit
<1>8. CASE WriteClose \/ CloseFails \/ QueueClosed \/ FutureFinished
  BY <1>5, <1>8 DEF WriteClose, CloseFails, QueueClosed, FutureFinished, Exit
<1>9. CASE ClientRead \/ ClientLeaves
  BY <1>9 DEF ClientRead, ClientLeaves
<1>10. CASE UNCHANGED sendingVars
  BY <1>10 DEF sendingVars
<1>11. QED
  BY <1>1, <1>2, <1>3, <1>4, <1>6, <1>7, <1>8, <1>9, <1>10, SendingSide
  DEF ForwardingTask

(* A call that is out stays out, is answered, or is dropped by a step that   *)
(* ends the task.                                                            *)
AnswerDropped ==
    \/ AckAccept /\ awaiting # taken + 1
    \/ WriteFrame /\ awaiting # taken
    \/ WriteFails \/ WriteClose \/ CloseFails \/ QueueClosed \/ FutureFinished

LEMMA AnswerSteps ==
  ASSUME MessagesOK, [Next]_vars
  PROVE  \/ \E kind \in SendKinds : Send(kind)
         \/ UNCHANGED <<log, handle, awaiting, acked>>
         \/ Accept
         \/ UNCHANGED <<log, handle>> /\ acked' = acked \cup {awaiting}
         \/ UNCHANGED <<log, handle, acked>> /\ (AnswerDropped \/ ~compliant)
         \/ handle' # "accepted"
<1> USE DEF AnswerDropped
<1>1. ASSUME NEW outcome \in {"returned", "raised"}, Finish(outcome)
      PROVE  UNCHANGED <<log, handle, awaiting, acked>>
  BY <1>1 DEF Finish
<1>2. CASE CancelSend
  BY <1>2 DEF CancelSend
<1>3. CASE CompleteFuture \/ ReleaseSender
  BY <1>3 DEF CompleteFuture, ReleaseSender
<1>4. CASE Refuse \/ CancelHandle
  BY <1>4 DEF Refuse, CancelHandle, GiveUp
<1>5. CASE TakeFrame
  BY <1>5 DEF TakeFrame
<1>6. CASE AckAccept
  BY <1>6 DEF AckAccept, Acked, Exit
<1>7. CASE WriteFrame
  BY <1>7 DEF WriteFrame, Acked, Exit
<1>8. CASE WriteFails \/ WriteClose \/ CloseFails
  BY <1>8 DEF WriteFails, WriteClose, CloseFails, Exit
<1>9. CASE QueueClosed \/ FutureFinished
  BY <1>9 DEF QueueClosed, FutureFinished, Exit
<1>10. CASE ClientRead \/ ClientLeaves
  BY <1>10 DEF ClientRead, ClientLeaves
<1>11. CASE UNCHANGED sendingVars
  BY <1>11 DEF sendingVars
<1>12. QED
  BY <1>1, <1>2, <1>3, <1>4, <1>5, <1>6, <1>7, <1>8, <1>9, <1>10, <1>11,
     SendingSide
  DEF ForwardingTask

(* Whoever's call is dropped had sent its close, or lost its client. *)
LEMMA DroppedByCloseOnly ==
  ASSUME Delivery, AwaitingIsQueued, ProtocolInLog, AppFollowsProtocol,
         SendsAreAcked, compliant, handle = "accepted", awaiting # 0,
         AnswerDropped
  PROVE  log[awaiting] = "close" \/ clientGone
<1>0. /\ MessagesOK /\ HandshakeDecides /\ MessageInHand
      /\ AckedWereWritten
  BY DEF Delivery
<1>1. awaiting = Len(log) /\ awaiting \in 1..Len(log)
  BY <1>0 DEF AwaitingIsQueued, MessagesOK
<1>2. CASE AckAccept
  <2>1. taken + 1 \in 1..Len(log) /\ log[taken + 1] = "accept" /\ taken > 0
    BY <1>0, <1>2 DEF AckAccept, Receives, HandshakeDecides, MessagesOK
  <2>2. QED
    BY <1>0, <2>1 DEF ProtocolInLog, MessagesOK
<1>3. CASE WriteFrame /\ awaiting # taken
  <2>1. /\ taken \in 1..Len(log) /\ taken \notin acked
        /\ log[taken] = "send" /\ ~clientGone
    BY <1>0, <1>3 DEF WriteFrame, MessageInHand, MessagesOK
  <2>2. QED
    BY <1>3, <2>1 DEF SendsAreAcked
<1>4. CASE WriteFails \/ CloseFails
  BY <1>4 DEF WriteFails, CloseFails
<1>5. CASE WriteClose
  <2>1. taken \in 1..Len(log) /\ log[taken] = "close"
    BY <1>0, <1>5 DEF WriteClose, MessageInHand, MessagesOK
  <2>2. taken = Len(log)
    BY <2>1 DEF ProtocolInLog
  <2>3. QED
    BY <1>1, <2>1, <2>2
<1>6. CASE QueueClosed
  BY <1>0, <1>1, <1>6 DEF QueueClosed, AwaitingIsQueued, MessagesOK
<1>7. CASE FutureFinished
  BY <1>7 DEF FutureFinished, AppFollowsProtocol
<1>8. QED
  BY <1>2, <1>3, <1>4, <1>5, <1>6, <1>7 DEF AnswerDropped

LEMMA SendsAreAckedStep ==
  ASSUME Delivery, AwaitingIsQueued, ProtocolInLog, AppFollowsProtocol,
         SendsAreAcked, [Next]_vars
  PROVE  SendsAreAcked'
<1>0. MessagesOK
  BY DEF Delivery
<1> SUFFICES ASSUME compliant, handle' = "accepted", ~clientGone',
                    NEW i \in 1..Len(log')
             PROVE  i \in acked' \/ i = awaiting' \/ log'[i] = "close"
  BY LastingFacts DEF SendsAreAcked
<1>1. ~clientGone
  BY LastingFacts
<1>2. handle = "accepted" /\ i \in 1..Len(log) =>
        i \in acked \/ i = awaiting \/ log[i] = "close"
  BY <1>1 DEF SendsAreAcked
<1>3. ASSUME NEW kind \in SendKinds, Send(kind)
      PROVE  i \in acked' \/ i = awaiting' \/ log'[i] = "close"
  <2>1. /\ Len(log) \in Nat /\ Len(log') = Len(log) + 1
        /\ awaiting' = Len(log) + 1
    BY <1>0, <1>3, SendKeepsLog
  <2>2. i \in 1..Len(log) \/ i = awaiting'
    BY <2>1
  <2>3. /\ awaiting = 0 /\ UNCHANGED <<acked, handle>>
        /\ \A j \in 1..Len(log) : log'[j] = log[j]
    BY <1>0, <1>3, SendKeepsLog
  <2>4. QED
    BY <1>2, <2>1, <2>2, <2>3
<1>4. CASE Accept
  <2>1. Len(log) = 1 /\ log' = log /\ 1 \in acked'
    BY <1>4 DEF Accept, AwaitingIsQueued
  <2>2. QED
    BY <2>1
<1>5. CASE UNCHANGED <<log, handle, awaiting, acked>>
  BY <1>2, <1>5
<1>6. CASE UNCHANGED <<log, handle>> /\ acked' = acked \cup {awaiting}
  BY <1>2, <1>6
<1>7. CASE UNCHANGED <<log, handle, acked>> /\ AnswerDropped
  <2>1. awaiting # 0 => log[awaiting] = "close"
    BY <1>1, <1>7, DroppedByCloseOnly
  <2>2. QED
    BY <1>0, <1>2, <1>7, <2>1 DEF MessagesOK
<1>8. QED
  BY <1>0, <1>3, <1>4, <1>5, <1>6, <1>7, LastingFacts, AnswerSteps

-----------------------------------------------------------------------------
(* Lemmas on sequences of messages. *)

\* A message put on the channel comes at the end of what is delivered.
LEMMA DeliverAppends ==
    ASSUME NEW M, NEW r \in Seq(M), NEW q \in Seq(M), NEW m \in M
    PROVE  r \o Append(q, m) = Append(r \o q, m)
  <1> DEFINE left == r \o Append(q, m)
             right == Append(r \o q, m)
  <1>1. Append(q, m) \in Seq(M) /\ Len(Append(q, m)) = Len(q) + 1
    BY AppendProperties
  <1>2. left \in Seq(M) /\ Len(left) = Len(r) + Len(q) + 1
    BY <1>1, ConcatProperties, LenProperties
  <1>3. r \o q \in Seq(M) /\ Len(r \o q) = Len(r) + Len(q)
    BY ConcatProperties
  <1>4. right \in Seq(M) /\ Len(right) = Len(r) + Len(q) + 1
    BY <1>3, AppendProperties
  <1>5. \A i \in 1..Len(left) : left[i] = right[i]
    <2> TAKE i \in 1..Len(left)
    <2>1. i \in Nat /\ i >= 1 /\ i <= Len(r) + Len(q) + 1
          /\ Len(r) \in Nat /\ Len(q) \in Nat
      BY <1>2, LenProperties
    <2>2. left[i] = IF i <= Len(r) THEN r[i] ELSE Append(q, m)[i - Len(r)]
      BY <1>1, <1>2, <2>1, ConcatProperties
    <2>3. CASE i = Len(r) + Len(q) + 1
      BY <1>3, <2>1, <2>2, <2>3, AppendProperties
    <2>4. CASE i <= Len(r)
      <3>1. right[i] = (r \o q)[i]
        BY <1>3, <2>1, <2>4, AppendProperties
      <3>2. (r \o q)[i] = r[i]
        BY <2>1, <2>4, <1>3, ConcatProperties
      <3>3. QED
        BY <2>2, <2>4, <3>1, <3>2
    <2>5. CASE i > Len(r) /\ i <= Len(r) + Len(q)
      <3>1. i - Len(r) \in 1..Len(q)
        BY <2>1, <2>5
      <3>2. Append(q, m)[i - Len(r)] = q[i - Len(r)]
        BY <3>1, AppendProperties
      <3>3. right[i] = (r \o q)[i]
        BY <1>3, <2>1, <2>5, AppendProperties
      <3>4. (r \o q)[i] = q[i - Len(r)]
        BY <1>3, <2>1, <2>5, ConcatProperties
      <3>5. QED
        BY <2>1, <2>2, <2>5, <3>2, <3>3, <3>4
    <2>6. QED
      BY <2>1, <2>3, <2>4, <2>5
  <1>6. QED
    BY <1>2, <1>4, <1>5, SeqEqual

\* Taking a message off the channel delivers nothing new.
LEMMA ReceiveKeepsDelivered ==
    ASSUME NEW M, NEW r \in Seq(M), NEW q \in Seq(M), q # <<>>
    PROVE  Append(r, Head(q)) \o Tail(q) = r \o q
  <1> DEFINE left == Append(r, Head(q)) \o Tail(q)
  <1>1. /\ Head(q) \in M /\ Head(q) = q[1] /\ Tail(q) \in Seq(M)
        /\ Len(Tail(q)) = Len(q) - 1
        /\ \A j \in 1..Len(Tail(q)) : Tail(q)[j] = q[j + 1]
    BY HeadTailProperties
  <1>2. Len(q) \in Nat /\ Len(q) >= 1 /\ Len(r) \in Nat
    BY EmptySeq, LenProperties
  <1>3. /\ Append(r, Head(q)) \in Seq(M)
        /\ Len(Append(r, Head(q))) = Len(r) + 1
        /\ Append(r, Head(q))[Len(r) + 1] = q[1]
        /\ \A j \in 1..Len(r) : Append(r, Head(q))[j] = r[j]
    BY <1>1, AppendProperties
  <1>4. left \in Seq(M) /\ Len(left) = Len(r) + Len(q)
    BY <1>1, <1>2, <1>3, ConcatProperties
  <1>5. r \o q \in Seq(M) /\ Len(r \o q) = Len(r) + Len(q)
    BY ConcatProperties
  <1>6. \A i \in 1..Len(left) : left[i] = (r \o q)[i]
    <2> TAKE i \in 1..Len(left)
    <2>1. i \in Nat /\ i >= 1 /\ i <= Len(r) + Len(q)
      BY <1>2, <1>4
    <2>2. left[i] = IF i <= Len(r) + 1 THEN Append(r, Head(q))[i]
                                      ELSE Tail(q)[i - (Len(r) + 1)]
      BY <1>1, <1>3, <1>4, <2>1, ConcatProperties
    <2>3. (r \o q)[i] = IF i <= Len(r) THEN r[i] ELSE q[i - Len(r)]
      BY <1>5, <2>1, <1>2, ConcatProperties
    <2>4. CASE i <= Len(r)
      BY <1>2, <1>3, <2>1, <2>2, <2>3, <2>4
    <2>5. CASE i = Len(r) + 1
      BY <1>2, <1>3, <2>1, <2>2, <2>3, <2>5
    <2>6. CASE i > Len(r) + 1
      <3>1. i - (Len(r) + 1) \in 1..Len(Tail(q))
        BY <1>1, <1>2, <2>1, <2>6
      <3>2. Tail(q)[i - (Len(r) + 1)] = q[(i - (Len(r) + 1)) + 1]
        BY <1>1, <3>1
      <3>3. (i - (Len(r) + 1)) + 1 = i - Len(r)
        BY <1>2, <2>1
      <3>4. QED
        BY <1>2, <2>1, <2>2, <2>3, <2>6, <3>2, <3>3
    <2>7. QED
      BY <1>2, <2>1, <2>4, <2>5, <2>6
  <1>7. QED
    BY <1>4, <1>5, <1>6, SeqEqual

\* What was received is a prefix of what is delivered.
LEMMA ReceivedIsPrefix ==
    ASSUME NEW M, NEW r \in Seq(M), NEW q \in Seq(M)
    PROVE  /\ r \o <<>> = r
           /\ Len(r) \in Nat /\ Len(r \o q) \in Nat /\ Len(r) <= Len(r \o q)
           /\ \A i \in 1..Len(r) : (r \o q)[i] = r[i]
  <1>1. Len(r) \in Nat /\ Len(q) \in Nat /\ Len(r \o q) = Len(r) + Len(q)
    BY ConcatProperties, LenProperties
  <1>2. \A i \in 1..Len(r) : (r \o q)[i] = r[i]
    BY <1>1, ConcatProperties
  <1>3. r \o <<>> = r
    BY ConcatEmptySeq
  <1>4. QED
    BY <1>1, <1>2, <1>3

-----------------------------------------------------------------------------
(* The side of the client's frames. *)

LEMMA DeliveredType ==
  ASSUME FramesOK
  PROVE  /\ Delivered \in Seq(ReceiveMessages)
         /\ Len(Delivered) \in Nat
         /\ \A i \in 1..Len(Delivered) : Delivered[i] \in ReceiveMessages
<1>1. Delivered \in Seq(ReceiveMessages)
  BY ConcatProperties DEF FramesOK, Delivered
<1>2. QED
  BY <1>1

(* What a step does to the messages handed to the application: nothing; ... *)
DeliveredKept ==
    /\ Delivered' = Delivered
    /\ UNCHANGED <<receiverOpen, read, forwarder, handle>>
    /\ \A f \in 1..Len(frames) : frames'[f] = frames[f]

\* ... with the Receiver, those that were not received are lost; ...
DeliveredReleased ==
    /\ Delivered' = received
    /\ receiverOpen' = FALSE
    /\ UNCHANGED <<read, forwarder, handle, frames>>

\* ... the handshake ends, one way or the other; ...
DeliveredDecided ==
    /\ Delivered' = Delivered
    /\ UNCHANGED <<receiverOpen, read, frames>>
    /\ handle = "waiting"
    /\ IF handle' = "accepted" THEN forwarder' = "reading" ELSE forwarder' = "done"

\* ... a frame is passed over, or found to have no receiver; ...
FramePassed ==
    /\ Delivered' = Delivered
    /\ UNCHANGED <<receiverOpen, handle, frames>>
    /\ forwarder = "reading"
    /\ read' \in {read, read + 1}
    /\ receiverOpen => forwarder' = "reading" /\ frames[read + 1] = "ignored"

\* ... a frame is delivered; ...
FrameDelivered ==
    /\ Delivered' = Append(Delivered, Receive(read + 1))
    /\ receiverOpen
    /\ UNCHANGED <<receiverOpen, handle, frames, forwarder>>
    /\ forwarder = "reading"
    /\ read' = read + 1

\* ... or the end is.
EndDelivered ==
    /\ \E code \in {"client", "normal", "abnormal"} :
          Delivered' = Append(Delivered, Disconnect(code))
    /\ receiverOpen
    /\ UNCHANGED <<receiverOpen, handle, frames>>
    /\ forwarder = "reading"
    /\ forwarder' = "done"
    /\ read' = read \/ (read' = read + 1 /\ frames[read + 1] = "close")

(* Putting a message on the channel. *)
LEMMA DeliverEffect ==
  ASSUME FramesOK, NEW msg, Deliver(msg), received' = received,
         \/ \E i \in Nat : msg = Receive(i)
         \/ \E code \in {"client", "normal", "abnormal"} : msg = Disconnect(code)
  PROVE  Delivered' = IF receiverOpen THEN Append(Delivered, msg) ELSE Delivered
<1>1. msg \in ReceiveMessages /\ inbox' = IF receiverOpen THEN Append(inbox, msg) ELSE inbox
  BY DeliverType DEF FramesOK, Deliver
<1>2. CASE receiverOpen
  <2>1. Delivered' = received \o Append(inbox, msg)
    BY <1>1, <1>2 DEF Delivered
  <2>2. QED
    BY <1>1, <1>2, <2>1, DeliverAppends DEF FramesOK, Delivered
<1>3. CASE ~receiverOpen
  BY <1>1, <1>3 DEF Delivered
<1>4. QED
  BY <1>2, <1>3

LEMMA DeliveredSteps ==
  ASSUME FramesOK, [Next]_vars
  PROVE  \/ DeliveredKept \/ DeliveredReleased \/ DeliveredDecided
         \/ FramePassed \/ FrameDelivered \/ EndDelivered
<1>0. /\ read \in Nat /\ read <= Len(frames) /\ Len(frames) \in Nat
      /\ received \in Seq(ReceiveMessages) /\ inbox \in Seq(ReceiveMessages)
  BY DEF FramesOK
<1>1. CASE CallReceive \/ ReceiveRaises
  <2>1. UNCHANGED <<received, inbox, receiverOpen, read, forwarder, handle, frames>>
    BY <1>1 DEF CallReceive, ReceiveRaises
  <2>2. QED
    BY <2>1 DEF DeliveredKept, Delivered
<1>2. CASE ReceiveMessage
  <2>1. /\ UNCHANGED <<receiverOpen, read, forwarder, handle, frames>>
        /\ inbox # <<>>
        /\ received' \o inbox' = Append(received, Head(inbox)) \o Tail(inbox)
    BY <1>2 DEF ReceiveMessage
  <2>2. Delivered' = Delivered
    BY <1>0, <2>1, ReceiveKeepsDelivered DEF Delivered
  <2>3. QED
    BY <2>1, <2>2 DEF DeliveredKept
<1>3. CASE ReleaseReceiver
  <2>1. /\ UNCHANGED <<received, read, forwarder, handle, frames>>
        /\ inbox' = <<>>
        /\ receiverOpen' = FALSE
    BY <1>3 DEF ReleaseReceiver
  <2>2. Delivered' = received
    BY <1>0, <2>1, ReceivedIsPrefix DEF Delivered
  <2>3. QED
    BY <2>1, <2>2 DEF DeliveredReleased
<1>4. CASE Accept \/ Refuse \/ CancelHandle
  <2>1. UNCHANGED <<received, inbox, receiverOpen, read, frames>>
    BY <1>4 DEF Accept, Refuse, CancelHandle, GiveUp
  <2>2. /\ handle = "waiting"
        /\ IF handle' = "accepted" THEN forwarder' = "reading" ELSE forwarder' = "done"
    BY <1>4 DEF Accept, Refuse, CancelHandle, GiveUp
  <2>3. QED
    BY <2>1, <2>2 DEF DeliveredDecided, Delivered
<1>5. CASE ForwardFrame
  <2>1. /\ UNCHANGED <<received, receiverOpen, handle, frames>>
        /\ forwarder = "reading" /\ read' = read + 1
        /\ Deliver(Receive(read + 1))
        /\ forwarder' = IF receiverOpen THEN "reading" ELSE "done"
    BY <1>5 DEF ForwardFrame, NextFrame
  <2>2. Delivered' = IF receiverOpen THEN Append(Delivered, Receive(read + 1))
                                     ELSE Delivered
    BY <1>0, <2>1, DeliverEffect
  <2>3. QED
    BY <2>1, <2>2 DEF FramePassed, FrameDelivered
<1>6. CASE SkipFrame
  <2>1. /\ UNCHANGED <<received, inbox, receiverOpen, handle, frames, forwarder>>
        /\ forwarder = "reading" /\ read' = read + 1
        /\ frames[read + 1] = "ignored"
    BY <1>6 DEF SkipFrame, NextFrame
  <2>2. QED
    BY <2>1 DEF FramePassed, Delivered
<1>7. CASE ForwardClose \/ ForwardEnd
  <2>1. /\ UNCHANGED <<received, receiverOpen, handle, frames>>
        /\ forwarder = "reading" /\ forwarder' = "done"
        /\ read' = read \/ (read' = read + 1 /\ frames[read + 1] = "close")
    BY <1>7 DEF ForwardClose, ForwardEnd, NextFrame
  <2>2. PICK code \in {"client", "normal", "abnormal"} : Deliver(Disconnect(code))
    BY <1>7 DEF ForwardClose, ForwardEnd
  <2>3. Delivered' = IF receiverOpen THEN Append(Delivered, Disconnect(code))
                                     ELSE Delivered
    BY <2>1, <2>2, DeliverEffect
  <2>4. QED
    BY <2>1, <2>3 DEF FramePassed, EndDelivered
<1>8. ASSUME NEW kind \in FrameKinds, ClientFrame(kind)
      PROVE  DeliveredKept
  <2>1. /\ UNCHANGED <<received, inbox, receiverOpen, read, forwarder, handle>>
        /\ frames' = Append(frames, kind)
    BY <1>8 DEF ClientFrame
  <2>2. \A f \in 1..Len(frames) : frames'[f] = frames[f]
    BY <2>1 DEF FramesOK
  <2>3. QED
    BY <2>1, <2>2 DEF DeliveredKept, Delivered
<1>9. CASE UNCHANGED deliveryVars
  BY <1>9 DEF deliveryVars, DeliveredKept, Delivered
<1>10. QED
  BY <1>1, <1>2, <1>3, <1>4, <1>5, <1>6, <1>7, <1>8, <1>9, DeliverySide
  DEF Forwarder

(* A message added at the end leaves those before it. *)
LEMMA DeliveredGrows ==
  ASSUME FramesOK, FrameDelivered \/ EndDelivered
  PROVE  /\ Len(Delivered) \in Nat
         /\ Len(Delivered') = Len(Delivered) + 1
         /\ Delivered' # <<>>
         /\ \A i \in 1..Len(Delivered) : Delivered'[i] = Delivered[i]
         /\ FrameDelivered => Delivered'[Len(Delivered) + 1] = Receive(read + 1)
         /\ EndDelivered => /\ Delivered'[Len(Delivered) + 1].type = "disconnect"
                             /\ Delivered'[Len(Delivered) + 1].frame = 0
<1>1. Delivered \in Seq(ReceiveMessages)
  BY DeliveredType
<1>2. CASE FrameDelivered
  <2>1. Delivered' = Append(Delivered, Receive(read + 1)) /\ ~EndDelivered
    BY <1>2 DEF FrameDelivered, EndDelivered
  <2>2. QED
    BY <1>1, <2>1, AppendProperties
<1>3. CASE EndDelivered
  <2>1. PICK code : Delivered' = Append(Delivered, Disconnect(code))
    BY <1>3 DEF EndDelivered
  <2>2. ~FrameDelivered
    BY <1>3 DEF FrameDelivered, EndDelivered
  <2>3. /\ Len(Delivered) \in Nat
        /\ Len(Delivered') = Len(Delivered) + 1
        /\ Delivered' # <<>>
        /\ \A i \in 1..Len(Delivered) : Delivered'[i] = Delivered[i]
        /\ Delivered'[Len(Delivered) + 1] = Disconnect(code)
    BY <1>1, <2>1, AppendProperties
  <2>4. Disconnect(code).type = "disconnect" /\ Disconnect(code).frame = 0
    BY DEF Disconnect
  <2>5. QED
    BY <2>2, <2>3, <2>4
<1>4. QED
  BY <1>2, <1>3

(* What was received is a prefix of what is delivered. *)
LEMMA ReleaseShortens ==
  ASSUME FramesOK, DeliveredReleased
  PROVE  /\ Len(Delivered') \in Nat /\ Len(Delivered) \in Nat
         /\ Len(Delivered') <= Len(Delivered)
         /\ \A i \in 1..Len(Delivered') : i \in 1..Len(Delivered)
         /\ \A i \in 1..Len(Delivered') : Delivered'[i] = Delivered[i]
<1>1. /\ Len(Delivered') \in Nat /\ Len(Delivered) \in Nat
      /\ Len(Delivered') <= Len(Delivered)
      /\ \A i \in 1..Len(Delivered') : Delivered'[i] = Delivered[i]
  BY ReceivedIsPrefix DEF FramesOK, DeliveredReleased, Delivered
<1>2. QED
  BY <1>1

(* Only an accepted connection has a forwarding task. *)
LEMMA ReadingIsAccepted ==
  ASSUME StatesOK, HandshakeDecides, forwarder = "reading"
  PROVE  handle = "accepted"
  BY DEF StatesOK, HandshakeDecides

LEMMA ConnectStep ==
  ASSUME FramesOK, StatesOK, HandshakeDecides, ConnectComesFirst, [Next]_vars
  PROVE  ConnectComesFirst'
<1>1. CASE DeliveredKept \/ DeliveredDecided \/ FramePassed
  <2>1. /\ Delivered' = Delivered /\ receiverOpen' = receiverOpen
        /\ handle' # "accepted" => handle # "accepted"
    BY <1>1 DEF DeliveredKept, DeliveredDecided, FramePassed
  <2>2. QED
    BY <2>1 DEF ConnectComesFirst
<1>2. CASE DeliveredReleased
  <2>1. receiverOpen' = FALSE /\ handle' = handle
    BY <1>2 DEF DeliveredReleased
  <2>2. \A i \in 1..Len(Delivered') : Delivered'[i].type = "connect" <=> i = 1
    BY <1>2, ReleaseShortens DEF ConnectComesFirst
  <2>3. handle' # "accepted" => Len(Delivered') <= 1
    BY <1>2, <2>1, ReleaseShortens DEF ConnectComesFirst
  <2>4. QED
    BY <2>1, <2>2, <2>3 DEF ConnectComesFirst
<1>3. CASE FrameDelivered \/ EndDelivered
  <2>1. Len(Delivered) > 0
    BY <1>3, DeliveredType, EmptySeq DEF ConnectComesFirst, FrameDelivered, EndDelivered
  <2>2. Delivered'[Len(Delivered) + 1].type # "connect"
    <3>1. CASE FrameDelivered
      BY <3>1, DeliveredGrows DEF Receive
    <3>2. CASE EndDelivered
      BY <3>2, DeliveredGrows
    <3>3. QED
      BY <1>3, <3>1, <3>2
  <2>3. ASSUME NEW i \in 1..Len(Delivered')
        PROVE  Delivered'[i].type = "connect" <=> i = 1
    <3>1. i \in 1..Len(Delivered) \/ i = Len(Delivered) + 1
      BY <1>3, DeliveredGrows
    <3>2. CASE i \in 1..Len(Delivered)
      <4>1. Delivered'[i] = Delivered[i]
        BY <1>3, <3>2, DeliveredGrows
      <4>2. QED
        BY <3>2, <4>1 DEF ConnectComesFirst
    <3>3. CASE i = Len(Delivered) + 1
      BY <1>3, <2>1, <2>2, <3>3, DeliveredGrows
    <3>4. QED
      BY <3>1, <3>2, <3>3
  <2>4. handle' = "accepted"
    BY <1>3, ReadingIsAccepted DEF FrameDelivered, EndDelivered
  <2>5. QED
    BY <1>3, <2>3, <2>4, DeliveredGrows DEF ConnectComesFirst
<1>4. QED
  BY <1>1, <1>2, <1>3, DeliveredSteps

LEMMA DisconnectStep ==
  ASSUME FramesOK, StatesOK, HandshakeDecides, DisconnectComesLast, [Next]_vars
  PROVE  DisconnectComesLast'
<1>1. CASE DeliveredKept
  <2>1. /\ Delivered' = Delivered
        /\ UNCHANGED <<receiverOpen, forwarder, handle>>
    BY <1>1 DEF DeliveredKept
  <2>2. QED
    BY <2>1 DEF DisconnectComesLast
<1>2. CASE DeliveredReleased
  <2>1. receiverOpen' = FALSE /\ forwarder' = forwarder
    BY <1>2 DEF DeliveredReleased
  <2>2. ASSUME NEW i \in 1..Len(Delivered'), Delivered'[i].type = "disconnect"
        PROVE  i = Len(Delivered') /\ forwarder = "done"
    <3>1. i \in 1..Len(Delivered) /\ Delivered[i].type = "disconnect"
      BY <1>2, <2>2, ReleaseShortens
    <3>2. i = Len(Delivered) /\ forwarder = "done"
      BY <3>1 DEF DisconnectComesLast
    <3>3. QED
      BY <1>2, <3>2, ReleaseShortens
  <2>3. QED
    BY <2>1, <2>2 DEF DisconnectComesLast
<1>3. ASSUME forwarder # "done"
      PROVE  \A i \in 1..Len(Delivered) : Delivered[i].type # "disconnect"
  BY <1>3 DEF DisconnectComesLast
<1>4. CASE DeliveredDecided \/ FramePassed
  <2>1. forwarder # "done"
    BY <1>4 DEF DeliveredDecided, FramePassed, HandshakeDecides
  <2>2. /\ Delivered' = Delivered
        /\ ~(receiverOpen' /\ handle' = "accepted" /\ forwarder' = "done")
    BY <1>4 DEF DeliveredDecided, FramePassed
  <2>3. QED
    BY <1>3, <2>1, <2>2 DEF DisconnectComesLast
<1>5. CASE FrameDelivered
  <2>1. forwarder = "reading" /\ forwarder' = "reading"
    BY <1>5 DEF FrameDelivered
  <2>2. ASSUME NEW i \in 1..Len(Delivered')
        PROVE  Delivered'[i].type # "disconnect"
    <3>1. CASE i \in 1..Len(Delivered)
      BY <1>3, <1>5, <2>1, <3>1, DeliveredGrows
    <3>2. CASE i = Len(Delivered) + 1
      BY <1>5, <3>2, DeliveredGrows DEF Receive
    <3>3. QED
      BY <1>5, <3>1, <3>2, DeliveredGrows
  <2>3. QED
    BY <2>1, <2>2 DEF DisconnectComesLast
<1>6. CASE EndDelivered
  <2>1. forwarder = "reading" /\ forwarder' = "done"
    BY <1>6 DEF EndDelivered
  <2>2. ASSUME NEW i \in 1..Len(Delivered'), i # Len(Delivered')
        PROVE  Delivered'[i].type # "disconnect"
    <3>1. i \in 1..Len(Delivered)
      BY <1>6, <2>2, DeliveredGrows
    <3>2. Delivered'[i] = Delivered[i]
      BY <1>6, <3>1, DeliveredGrows
    <3>3. QED
      BY <1>3, <2>1, <3>1, <3>2
  <2>3. Delivered'[Len(Delivered')].type = "disconnect"
    BY <1>6, DeliveredGrows
  <2>4. QED
    BY <2>1, <2>2, <2>3 DEF DisconnectComesLast
<1>7. QED
  BY <1>1, <1>2, <1>4, <1>5, <1>6, DeliveredSteps

(* No message is of a frame that was not read. *)
LEMMA FramesReadStep ==
  ASSUME FramesOK, FramesInOrder, [Next]_vars
  PROVE  \A i \in 1..Len(Delivered') : Delivered'[i].frame <= read'
<1>0. /\ read \in Nat
      /\ \A i \in 1..Len(Delivered) : Delivered[i].frame \in Nat /\ Delivered[i].frame <= read
  BY DeliveredType DEF FramesOK, FramesInOrder, ReceiveMessages
<1>1. CASE DeliveredKept \/ DeliveredDecided \/ FramePassed
  <2>1. Delivered' = Delivered /\ read' \in {read, read + 1}
    BY <1>1 DEF DeliveredKept, DeliveredDecided, FramePassed
  <2>2. QED
    BY <1>0, <2>1
<1>2. CASE DeliveredReleased
  <2>1. read' = read
    BY <1>2 DEF DeliveredReleased
  <2>2. QED
    BY <1>0, <1>2, <2>1, ReleaseShortens
<1>3. CASE FrameDelivered \/ EndDelivered
  <2>1. read' \in {read, read + 1}
    BY <1>3 DEF FrameDelivered, EndDelivered
  <2>2. Delivered'[Len(Delivered) + 1].frame <= read'
    <3>1. CASE FrameDelivered
      <4>1. read' = read + 1
        BY <3>1 DEF FrameDelivered
      <4>2. QED
        BY <1>0, <3>1, <4>1, DeliveredGrows DEF Receive
    <3>2. CASE EndDelivered
      BY <1>0, <2>1, <3>2, DeliveredGrows
    <3>3. QED
      BY <1>3, <3>1, <3>2
  <2>3. ASSUME NEW i \in 1..Len(Delivered')
        PROVE  Delivered'[i].frame <= read'
    <3>1. CASE i \in 1..Len(Delivered)
      <4>1. Delivered'[i] = Delivered[i]
        BY <1>3, <3>1, DeliveredGrows
      <4>2. QED
        BY <1>0, <2>1, <3>1, <4>1
    <3>2. CASE i = Len(Delivered) + 1
      BY <2>2, <3>2
    <3>3. QED
      BY <1>3, <3>1, <3>2, DeliveredGrows
  <2>4. QED
    BY <2>3
<1>4. QED
  BY <1>1, <1>2, <1>3, DeliveredSteps

(* The frames handed over are in their order: a new one is the latest read. *)
LEMMA FramesGrowStep ==
  ASSUME FramesOK, FramesInOrder, [Next]_vars
  PROVE  \A i \in 1..Len(Delivered') : Delivered'[i].type = "receive" =>
            \A j \in 1..(i-1) : Delivered'[j].frame < Delivered'[i].frame
<1>0. /\ Len(Delivered) \in Nat /\ read \in Nat
      /\ \A i \in 1..Len(Delivered) : Delivered[i].frame \in Nat /\ Delivered[i].frame <= read
      /\ \A i \in 1..Len(Delivered) : Delivered[i].type = "receive" =>
            \A j \in 1..(i-1) : Delivered[j].frame < Delivered[i].frame
  BY DeliveredType DEF FramesOK, FramesInOrder, ReceiveMessages
<1>1. CASE DeliveredKept \/ DeliveredDecided \/ FramePassed
  <2>1. Delivered' = Delivered
    BY <1>1 DEF DeliveredKept, DeliveredDecided, FramePassed
  <2>2. QED
    BY <1>0, <2>1
<1>2. CASE DeliveredReleased
  <2> SUFFICES ASSUME NEW i \in 1..Len(Delivered'), Delivered'[i].type = "receive",
                      NEW j \in 1..(i-1)
               PROVE  Delivered'[j].frame < Delivered'[i].frame
    OBVIOUS
  <2>1. /\ i \in 1..Len(Delivered) /\ Delivered'[i] = Delivered[i]
        /\ j \in 1..Len(Delivered') /\ i \in Nat
    BY <1>2, ReleaseShortens
  <2>2. Delivered'[j] = Delivered[j]
    BY <1>2, <2>1, ReleaseShortens
  <2>3. QED
    BY <1>0, <2>1, <2>2
<1>3. CASE FrameDelivered \/ EndDelivered
  <2> SUFFICES ASSUME NEW i \in 1..Len(Delivered'), Delivered'[i].type = "receive",
                      NEW j \in 1..(i-1)
               PROVE  Delivered'[j].frame < Delivered'[i].frame
    OBVIOUS
  <2>1. j \in 1..Len(Delivered) /\ Delivered'[j] = Delivered[j]
    BY <1>0, <1>3, DeliveredGrows
  <2>2. CASE i \in 1..Len(Delivered)
    <3>1. Delivered'[i] = Delivered[i]
      BY <1>3, <2>2, DeliveredGrows
    <3>2. QED
      BY <1>0, <2>1, <2>2, <3>1
  <2>3. CASE i = Len(Delivered) + 1 /\ FrameDelivered
    <3>1. Delivered'[i].frame = read + 1
      BY <2>3, DeliveredGrows DEF Receive
    <3>2. Delivered[j].frame <= read /\ Delivered[j].frame \in Nat
      BY <1>0, <2>1
    <3>3. QED
      BY <1>0, <2>1, <3>1, <3>2
  <2>4. CASE i = Len(Delivered) + 1 /\ EndDelivered
    BY <2>4, DeliveredGrows
  <2>5. QED
    BY <1>3, <2>2, <2>3, <2>4, DeliveredGrows
<1>4. QED
  BY <1>1, <1>2, <1>3, DeliveredSteps

(* And none is left out, as long as there is a Receiver to hand them to. *)
LEMMA NoFrameLostStep ==
  ASSUME FramesOK, FramesInOrder, [Next]_vars, receiverOpen',
         NEW f \in 1..read', frames'[f] = "data"
  PROVE  \E i \in 1..Len(Delivered') : Delivered'[i] = Receive(f)
<1>0. /\ read \in Nat /\ read <= Len(frames) /\ Len(frames) \in Nat
      /\ Len(Delivered) \in Nat
  BY DeliveredType DEF FramesOK
<1>1. ASSUME receiverOpen, f \in 1..read, frames[f] = "data"
      PROVE  \E i \in 1..Len(Delivered) : Delivered[i] = Receive(f)
  BY <1>1 DEF FramesInOrder
<1>2. CASE DeliveredKept \/ DeliveredDecided \/ FramePassed
  <2>1. Delivered' = Delivered /\ receiverOpen
    BY <1>2 DEF DeliveredKept, DeliveredDecided, FramePassed
  <2>2. f \in 1..read /\ frames[f] = "data"
    <3>1. CASE DeliveredKept
      <4>1. f \in 1..read
        BY <3>1 DEF DeliveredKept
      <4>2. f \in 1..Len(frames)
        BY <1>0, <4>1
      <4>3. QED
        BY <3>1, <4>1, <4>2 DEF DeliveredKept
    <3>2. CASE DeliveredDecided
      BY <3>2 DEF DeliveredDecided
    <3>3. CASE FramePassed
      <4>1. frames[read + 1] = "ignored" /\ read' \in {read, read + 1} /\ frames' = frames
        BY <2>1, <3>3 DEF FramePassed
      <4>2. f # read + 1
        BY <4>1
      <4>3. QED
        BY <1>0, <4>1, <4>2
    <3>4. QED
      BY <1>2, <3>1, <3>2, <3>3
  <2>3. QED
    BY <1>1, <2>1, <2>2
<1>3. CASE DeliveredReleased
  BY <1>3 DEF DeliveredReleased
<1>4. CASE FrameDelivered
  <2>1. receiverOpen /\ frames' = frames /\ read' = read + 1
    BY <1>4 DEF FrameDelivered
  <2>2. CASE f = read + 1
    <3>1. Len(Delivered) + 1 \in 1..Len(Delivered')
      BY <1>4, DeliveredGrows
    <3>2. Delivered'[Len(Delivered) + 1] = Receive(f)
      BY <1>4, <2>2, DeliveredGrows
    <3>3. QED
      BY <3>1, <3>2
  <2>3. CASE f \in 1..read
    <3>1. PICK i \in 1..Len(Delivered) : Delivered[i] = Receive(f)
      BY <1>1, <2>1, <2>3
    <3>2. i \in 1..Len(Delivered') /\ Delivered'[i] = Delivered[i]
      BY <1>4, DeliveredGrows
    <3>3. QED
      BY <3>1, <3>2
  <2>4. QED
    BY <1>0, <2>1, <2>2, <2>3
<1>5. CASE EndDelivered
  <2>1. /\ receiverOpen /\ frames' = frames
        /\ read' = read \/ (read' = read + 1 /\ frames[read + 1] = "close")
    BY <1>5 DEF EndDelivered
  <2>2. f \in 1..read /\ frames[f] = "data"
    BY <1>0, <2>1
  <2>3. PICK i \in 1..Len(Delivered) : Delivered[i] = Receive(f)
    BY <1>1, <2>1, <2>2
  <2>4. i \in 1..Len(Delivered') /\ Delivered'[i] = Delivered[i]
    BY <1>5, DeliveredGrows
  <2>5. QED
    BY <2>3, <2>4
<1>6. QED
  BY <1>2, <1>3, <1>4, <1>5, DeliveredSteps

LEMMA FramesInOrderStep ==
  ASSUME FramesOK, FramesInOrder, [Next]_vars
  PROVE  FramesInOrder'
<1>1. \A i \in 1..Len(Delivered') : Delivered'[i].frame <= read'
  BY FramesReadStep
<1>2. \A i \in 1..Len(Delivered') : Delivered'[i].type = "receive" =>
         \A j \in 1..(i-1) : Delivered'[j].frame < Delivered'[i].frame
  BY FramesGrowStep
<1>3. receiverOpen' => \A f \in 1..read' : frames'[f] = "data" =>
         \E i \in 1..Len(Delivered') : Delivered'[i] = Receive(f)
  BY NoFrameLostStep
<1>4. QED
  BY <1>1, <1>2, <1>3 DEF FramesInOrder, Receive

(* A call that waits keeps the Receiver alive. *)
LEMMA CallStep ==
  ASSUME CallKeepsReceiver, [Next]_vars
  PROVE  CallKeepsReceiver'
<1> USE DEF CallKeepsReceiver
<1>1. CASE CallReceive \/ ReceiveMessage \/ ReceiveRaises \/ ReleaseReceiver
  BY <1>1 DEF CallReceive, ReceiveMessage, ReceiveRaises, ReleaseReceiver
<1>2. CASE Accept \/ Refuse \/ CancelHandle
  BY <1>2 DEF Accept, Refuse, CancelHandle, GiveUp
<1>3. CASE Forwarder
  BY <1>3 DEF Forwarder, ForwardFrame, SkipFrame, ForwardClose, ForwardEnd
<1>4. ASSUME NEW kind \in FrameKinds, ClientFrame(kind)
      PROVE  CallKeepsReceiver'
  BY <1>4 DEF ClientFrame
<1>5. CASE UNCHANGED deliveryVars
  BY <1>5 DEF deliveryVars
<1>6. QED
  BY <1>1, <1>2, <1>3, <1>4, <1>5, DeliverySide

(* A call raises when all was received, and that ends with the disconnect. *)
LEMMA RaisedStep ==
  ASSUME FramesOK, HandshakeDecides, ConnectComesFirst, DisconnectComesLast,
         CallKeepsReceiver, RaisedIsTold, [Next]_vars
  PROVE  RaisedIsTold'
<1>0. received \in Seq(ReceiveMessages) /\ inbox \in Seq(ReceiveMessages)
  BY DEF FramesOK
<1>1. CASE UNCHANGED <<raised, received, forwarder, handle>>
  BY <1>1 DEF RaisedIsTold
<1>2. CASE CallReceive \/ ReleaseReceiver
  BY <1>1, <1>2 DEF CallReceive, ReleaseReceiver
<1>3. CASE ReceiveMessage
  <2>1. /\ UNCHANGED <<raised, forwarder, handle>>
        /\ inbox # <<>>
    BY <1>3 DEF ReceiveMessage
  <2>2. ASSUME raised, handle = "accepted"
        PROVE  FALSE
    <3>1. received # <<>> /\ received[Len(received)].type = "disconnect"
      BY <2>2 DEF RaisedIsTold
    <3>2. Len(received) \in 1..Len(received)
      BY <1>0, <3>1, EmptySeq
    <3>3. /\ Len(Delivered) = Len(received) + Len(inbox)
          /\ Delivered[Len(received)] = received[Len(received)]
      BY <1>0, <3>2, ConcatProperties DEF Delivered
    <3>4. Len(inbox) \in Nat /\ Len(inbox) > 0
      BY <1>0, <2>1, EmptySeq
    <3>5. Len(received) \in 1..Len(Delivered) /\ Len(received) # Len(Delivered)
      BY <3>2, <3>3, <3>4
    <3>6. QED
      BY <3>1, <3>3, <3>5 DEF DisconnectComesLast
  <2>3. QED
    BY <2>1, <2>2 DEF RaisedIsTold
<1>4. CASE ReceiveRaises
  <2>1. /\ UNCHANGED <<received, forwarder, handle>>
        /\ receiving /\ inbox = <<>> /\ forwarder = "done"
    BY <1>4 DEF ReceiveRaises
  <2>2. Delivered = received /\ receiverOpen
    BY <1>0, <2>1, ReceivedIsPrefix DEF Delivered, CallKeepsReceiver
  <2>3. received # <<>>
    BY <2>2 DEF ConnectComesFirst
  <2>4. handle = "accepted" => received[Len(received)].type = "disconnect"
    BY <2>1, <2>2 DEF DisconnectComesLast
  <2>5. QED
    BY <2>1, <2>3, <2>4 DEF RaisedIsTold
<1>5. CASE Accept \/ Refuse \/ CancelHandle
  <2>1. UNCHANGED <<raised, received>> /\ handle = "waiting"
    BY <1>5 DEF Accept, Refuse, CancelHandle, GiveUp
  <2>2. ~raised
    BY <2>1 DEF RaisedIsTold, HandshakeDecides
  <2>3. QED
    BY <2>1, <2>2 DEF RaisedIsTold
<1>6. CASE Forwarder
  <2>1. UNCHANGED <<raised, received, handle>> /\ forwarder = "reading"
    BY <1>6 DEF Forwarder, ForwardFrame, SkipFrame, ForwardClose, ForwardEnd, NextFrame
  <2>2. ~raised
    BY <2>1 DEF RaisedIsTold
  <2>3. QED
    BY <2>1, <2>2 DEF RaisedIsTold
<1>7. ASSUME NEW kind \in FrameKinds, ClientFrame(kind)
      PROVE  RaisedIsTold'
  BY <1>1, <1>7 DEF ClientFrame
<1>8. CASE UNCHANGED deliveryVars
  BY <1>1, <1>8 DEF deliveryVars
<1>9. QED
  BY <1>2, <1>3, <1>4, <1>5, <1>6, <1>7, <1>8, DeliverySide

-----------------------------------------------------------------------------
(* The invariant, and what follows from it. *)

LEMMA InitInv ==
  ASSUME Init
  PROVE  WebSocketInv
<1> USE DEF Init
<1>1. TypeOK
  <2>1. <<Connect>> \in Seq(ReceiveMessages)
    BY DEF Connect, ReceiveMessages
  <2>2. FlagsOK /\ StatesOK
    BY DEF FlagsOK, StatesOK
  <2>3. MessagesOK
    BY EmptySeq DEF MessagesOK
  <2>4. FramesOK
    BY <2>1, EmptySeq DEF FramesOK
  <2>5. QED
    BY <2>2, <2>3, <2>4 DEF TypeOK
<1>2. SendingInv
  <2>1. AwaitingIsQueued /\ HandshakeDecides /\ MessageInHand /\ ClosedIsDone
    BY DEF AwaitingIsQueued, HandshakeDecides, MessageInHand, ClosedIsDone
  <2>2. StreamIsPrefix /\ AckedWereWritten
    BY DEF StreamIsPrefix, AckedWereWritten
  <2>3. QED
    BY <2>1, <2>2 DEF SendingInv
<1>3. ReceivingInv
  <2>1. /\ Delivered # <<>> /\ Len(Delivered) = 1
        /\ Delivered[1].type = "connect" /\ Delivered[1].frame = 0
    <3>1. Delivered = <<Connect>>
      BY DEF Delivered
    <3>2. QED
      BY <3>1 DEF Connect
  <2>2. ConnectComesFirst /\ DisconnectComesLast
    BY <2>1 DEF ConnectComesFirst, DisconnectComesLast
  <2>3. FramesInOrder
    BY <2>1 DEF FramesInOrder
  <2>4. CallKeepsReceiver /\ RaisedIsTold
    BY DEF CallKeepsReceiver, RaisedIsTold
  <2>5. QED
    BY <2>2, <2>3, <2>4 DEF ReceivingInv
<1>4. CompliantInv
  BY DEF CompliantInv, ProtocolInLog, AppFollowsProtocol, SendsAreAcked
<1>5. QED
  BY <1>1, <1>2, <1>3, <1>4 DEF WebSocketInv

LEMMA InvStep ==
  ASSUME WebSocketInv, [Next]_vars
  PROVE  WebSocketInv'
<1> USE DEF WebSocketInv, SendingInv
<1>1. FlagsOK /\ MessagesOK /\ FramesOK /\ StatesOK
  BY DEF TypeOK
<1>2. Delivery
  BY <1>1 DEF Delivery
<1>3. TypeOK'
  BY <1>1, FlagsStep, MessagesStep, FramesStep, StatesStep DEF TypeOK
<1>4. SendingInv'
  BY <1>1, <1>2, AwaitingStep, HandshakeStep, DeliveryStep, ClosedStep
<1>5. ReceivingInv'
  BY <1>1, ConnectStep, DisconnectStep, FramesInOrderStep, CallStep, RaisedStep
  DEF ReceivingInv
<1>6. CompliantInv'
  BY <1>1, <1>2, ProtocolStep, AppFollowsStep, SendsAreAckedStep DEF CompliantInv
<1>7. QED
  BY <1>3, <1>4, <1>5, <1>6

(* The conjunction of all parts is an invariant of the connection. *)
THEOREM InvariantHolds == Spec => []WebSocketInv
<1>1. Init => WebSocketInv
  BY InitInv
<1>2. WebSocketInv /\ [Next]_vars => WebSocketInv'
  BY InvStep
<1>3. QED
  BY <1>1, <1>2, PTL DEF Spec

(* Every variable keeps its type: the places the forwarding task works at are *)
(* places of messages that were queued, whatever the application does.       *)
THEOREM TypeCorrect == Spec => []TypeOK
<1>1. WebSocketInv => TypeOK
  BY DEF WebSocketInv
<1>2. QED
  BY <1>1, InvariantHolds, PTL

(* Asgi::handle lets nothing through, in either direction, before the first  *)
(* message of the application was an Accept that was acknowledged.           *)
THEOREM HandshakeIsFirst == Spec => []HandshakeComesFirst
<1>1. WebSocketInv => HandshakeComesFirst
  <2> SUFFICES ASSUME WebSocketInv PROVE HandshakeComesFirst
    OBVIOUS
  <2>1. HandshakeDecides /\ ConnectComesFirst /\ FramesOK
    BY DEF WebSocketInv, SendingInv, ReceivingInv, TypeOK
  <2>2. (\E i \in 1..Len(Delivered) : Delivered[i].type # "connect")
           => handle = "accepted"
    BY <2>1, DeliveredType DEF ConnectComesFirst
  <2>3. stream # <<>> => handle = "accepted"
    BY <2>1 DEF HandshakeDecides
  <2>4. QED
    BY <2>1, <2>2, <2>3 DEF HandshakeDecides, HandshakeComesFirst
<1>2. QED
  BY <1>1, InvariantHolds, PTL

(* forward_websocket_request hands over connect, the client's frames in their *)
(* order with none left out, and the disconnect last.                        *)
THEOREM DeliveryIsInOrder == Spec => []DeliveredInOrder
<1>1. WebSocketInv => DeliveredInOrder
  <2>1. WebSocketInv => ConnectComesFirst /\ DisconnectComesLast /\ FramesInOrder
    BY DEF WebSocketInv, ReceivingInv
  <2>2. QED
    BY <2>1 DEF ConnectComesFirst, DisconnectComesLast, FramesInOrder, DeliveredInOrder
<1>2. QED
  BY <1>1, InvariantHolds, PTL

(* A send() that returned has its frame in the response stream, which holds   *)
(* the frames in the order of the calls and without a gap.                   *)
THEOREM AckedFramesAreWritten == Spec => []AckedIsWritten
<1>1. WebSocketInv => AckedIsWritten
  <2> SUFFICES ASSUME WebSocketInv PROVE AckedIsWritten
    OBVIOUS
  <2>1. StreamIsPrefix /\ AckedWereWritten /\ MessagesOK
    BY DEF WebSocketInv, SendingInv, TypeOK
  <2>2. ASSUME NEW k \in 1..Len(stream), NEW i \in 1..(stream[k] - 1),
               log[i] = "send"
        PROVE  \E m \in 1..(k-1) : stream[m] = i
    <3>1. /\ stream[k] \in Nat /\ stream[k] <= taken /\ taken \in Nat
          /\ i \in Nat /\ i < stream[k] /\ i \in 1..taken /\ i # taken
          /\ Len(stream) \in Nat
      BY <2>1 DEF StreamIsPrefix, MessagesOK
    <3>2. PICK m \in 1..Len(stream) : stream[m] = i
      BY <2>1, <2>2, <3>1 DEF StreamIsPrefix, IsWritten
    <3>3. m # k
      BY <3>1, <3>2
    <3>4. ~(m > k)
      <4>1. SUFFICES ASSUME m > k PROVE FALSE
        OBVIOUS
      <4>2. k \in 1..(m-1)
        BY <4>1
      <4>3. stream[k] < stream[m]
        BY <2>1, <4>2 DEF StreamIsPrefix
      <4>4. QED
        BY <3>1, <3>2, <4>3
    <3>5. m \in 1..(k-1)
      BY <3>1, <3>3, <3>4
    <3>6. QED
      BY <3>2, <3>5
  <2>3. \A i \in acked : log[i] = "send" => IsWritten(i)
    BY <2>1 DEF AckedWereWritten
  <2>4. QED
    BY <2>2, <2>3 DEF AckedIsWritten
<1>2. QED
  BY <1>1, InvariantHolds, PTL

(* Receiver.__call__ raises only when the application has received the       *)
(* disconnect, or when there never was a connection.                         *)
THEOREM RaiseComesLast == Spec => []RaiseFollowsDisconnect
<1>1. WebSocketInv => RaiseFollowsDisconnect
  <2>1. WebSocketInv => RaisedIsTold /\ HandshakeDecides /\ StatesOK
    BY DEF WebSocketInv, ReceivingInv, SendingInv, TypeOK
  <2>2. QED
    BY <2>1 DEF RaisedIsTold, HandshakeDecides, StatesOK, RaiseFollowsDisconnect
<1>2. QED
  BY <1>1, InvariantHolds, PTL

(* A compliant application loses no send() of an accepted connection to the   *)
(* race of its future with the queue.                                        *)
THEOREM CompliantSendsAreAcked == Spec => []SendsAreAcked
<1>1. WebSocketInv => SendsAreAcked
  BY DEF WebSocketInv, CompliantInv
<1>2. QED
  BY <1>1, InvariantHolds, PTL

(* The task writes nothing behind the close of its stream, and closes it once. *)
THEOREM NothingFollowsClose == Spec => NothingAfterClose
<1>1. WebSocketInv /\ [Next]_vars
         => [closed # "open" => stream' = stream /\ closed' = closed]_vars
  <2> SUFFICES ASSUME WebSocketInv, [Next]_vars, closed # "open"
               PROVE  stream' = stream /\ closed' = closed
    OBVIOUS
  <2>1. HandshakeDecides /\ loop = "done"
    BY DEF WebSocketInv, SendingInv, ClosedIsDone
  <2>2. QED
    BY <2>1, DoneSteps
<1>2. QED
  BY <1>1, InvariantHolds, PTL DEF Spec, NothingAfterClose

=============================================================================
