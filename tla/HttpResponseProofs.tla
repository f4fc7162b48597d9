------------------------- MODULE HttpResponseProofs -------------------------
(***************************************************************************)
(* Proofs about HttpResponse, for every application, every capacity of the *)
(* stream and any number of messages.                                      *)
(***************************************************************************)
EXTENDS HttpResponse, FiniteSetTheorems, TLAPS

(* The tuples of variables are always expanded. *)
USE DEF appVars, ackVars, loopVars, streamVars, clientVars

(* What send() is called with is a message. *)
LEMMA SendMessagesAreMessages == \A msg \in SendMessages : msg \in Message
<1> SUFFICES ASSUME NEW msg \in SendMessages
             PROVE  msg \in Message
  OBVIOUS
<1>1. CASE msg = Start
  BY <1>1 DEF Start, Message
<1>2. ASSUME NEW d \in BOOLEAN, NEW m \in BOOLEAN, msg = Body(d, m)
      PROVE  msg \in Message
  BY <1>2 DEF Body, Message
<1>3. QED
  BY <1>1, <1>2 DEF SendMessages

(* Initially the inductive invariant holds. *)
LEMMA InitInv == ResponseInit => ResponseInv
<1> SUFFICES ASSUME ResponseInit
             PROVE  ResponseInv
  OBVIOUS
<1>1. ResponseTypeOK
  <2>1. FlagsOK
    BY Zenon DEF ResponseInit, FlagsOK
  <2>2. MessagesOK
    BY DEF ResponseInit, MessagesOK
  <2>3. StatesOK
    BY DEF ResponseInit, StatesOK
  <2>4. QED
    BY <2>1, <2>2, <2>3 DEF ResponseTypeOK
<1>2. AwaitingIsQueued /\ AckedWereTaken
  BY DEF ResponseInit, AwaitingIsQueued, AckedWereTaken
<1>3. StreamIsPrefix
  BY DEF ResponseInit, StreamIsPrefix
<1>4. MessageInHand /\ HeadFollowsLoop /\ EndFollowsLoop
  BY DEF ResponseInit, MessageInHand, HeadFollowsLoop, EndFollowsLoop
<1>5. AckedIsWritten /\ EndMeansComplete /\ ErrorIsReportedOnce
  BY DEF ResponseInit, AckedIsWritten, EndMeansComplete, ErrorIsReportedOnce
<1>6. QED
  BY <1>1, <1>2, <1>3, <1>4, <1>5 DEF ResponseInv

(* Flags stay flags. *)
LEMMA FlagsStep ==
  ASSUME FlagsOK, [ResponseNext]_responseVars
  PROVE  FlagsOK'
<1> USE DEF FlagsOK
<1>1. ASSUME NEW msg \in SendMessages, Send(msg)
      PROVE  FlagsOK'
  BY <1>1, Zenon DEF Send
<1>2. ASSUME NEW outcome \in {"returned", "raised"}, Finish(outcome)
      PROVE  FlagsOK'
  BY <1>2, Zenon DEF Finish
<1>3. CASE CancelSend \/ ReleaseSender \/ CompleteFuture
  BY <1>3, Zenon
  DEF CancelSend, ReleaseSender, CompleteFuture
<1>4. CASE ForwardingTask
  BY <1>4, Zenon
  DEF ForwardingTask, ForwardStart, StopAtStart, IgnoreStart, AcceptBody,
      StopAtBody, WriteBody, WriteFails, CloseStream, QueueClosed,
      FutureReturned, RaisedBeforeHead, RaisedAfterHead, CloseAfterRaise,
      ResponseTimeout
<1>5. CASE Expire \/ HandleReturns \/ CancelHandle
  BY <1>5, Zenon
  DEF Expire, HandleReturns, HandleResponse, HandleError, CancelHandle
<1>6. CASE ClientRead \/ ClientLeaves \/ BodyDropped
  BY <1>6, Zenon
  DEF ClientRead, ClientLeaves, BodyDropped, CloseClientEnd
<1>7. CASE UNCHANGED responseVars
  BY <1>7, Zenon DEF responseVars
<1>8. QED
  BY <1>1, <1>2, <1>3, <1>4, <1>5, <1>6, <1>7, Zenon DEF ResponseNext, Application

(* The control states stay in their sets. *)
LEMMA StatesStep ==
  ASSUME StatesOK, [ResponseNext]_responseVars
  PROVE  StatesOK'
<1> USE DEF StatesOK
<1>1. ASSUME NEW msg \in SendMessages, Send(msg)
      PROVE  StatesOK'
  BY <1>1 DEF Send
<1>2. ASSUME NEW outcome \in {"returned", "raised"}, Finish(outcome)
      PROVE  StatesOK'
  BY <1>2 DEF Finish
<1>3. CASE CancelSend \/ ReleaseSender \/ CompleteFuture
  BY <1>3 DEF CancelSend, ReleaseSender, CompleteFuture
<1>4. CASE \/ ForwardStart \/ StopAtStart \/ IgnoreStart \/ AcceptBody
           \/ StopAtBody \/ WriteBody \/ WriteFails \/ CloseStream
  BY <1>4
  DEF ForwardStart, StopAtStart, IgnoreStart, AcceptBody, StopAtBody,
      WriteBody, WriteFails, CloseStream, Exit, AfterAck, AfterWrite
<1>5. CASE \/ QueueClosed \/ FutureReturned \/ RaisedBeforeHead
           \/ RaisedAfterHead \/ CloseAfterRaise \/ ResponseTimeout \/ Expire
  BY <1>5
  DEF QueueClosed, FutureReturned, RaisedBeforeHead, RaisedAfterHead,
      CloseAfterRaise, ResponseTimeout, Expire, Exit
<1>6. CASE HandleReturns \/ CancelHandle
  BY <1>6
  DEF HandleReturns, HandleResponse, HandleError, CancelHandle
<1>7. CASE ClientRead \/ ClientLeaves \/ BodyDropped
  BY <1>7
  DEF ClientRead, ClientLeaves, BodyDropped, CloseClientEnd
<1>8. CASE UNCHANGED responseVars
  BY <1>8 DEF responseVars
<1>9. QED
  BY <1>1, <1>2, <1>3, <1>4, <1>5, <1>6, <1>7, <1>8
  DEF ResponseNext, Application, ForwardingTask

-----------------------------------------------------------------------------
(* Most steps neither queue, receive nor write a message.                    *)

Quiet ==
    /\ UNCHANGED <<log, taken, stream, acked>>
    /\ awaiting' \in {0, awaiting}
    /\ consumed' = consumed \/ (consumed' = consumed + 1 /\ consumed < Len(stream))
    /\ \/ loop' = loop
       \/ loop' = "done"
       \/ loop = "select" /\ loop' = "raise"
    /\ loop = "write" /\ loop' # "write" => clientGone
    /\ clientGone => clientGone'
    /\ head = "ok" => head' = "ok"

LEMMA QuietSteps ==
  ASSUME [ResponseNext]_responseVars
  PROVE  \/ \E msg \in SendMessages : Send(msg)
         \/ ForwardStart \/ StopAtStart \/ IgnoreStart
         \/ AcceptBody \/ StopAtBody \/ WriteBody
         \/ Quiet
<1> USE DEF Quiet
<1>1. ASSUME NEW outcome \in {"returned", "raised"}, Finish(outcome)
      PROVE  Quiet
  BY <1>1 DEF Finish
<1>2. CASE CancelSend
  BY <1>2 DEF CancelSend
<1>3. CASE ReleaseSender
  BY <1>3 DEF ReleaseSender
<1>4. CASE CompleteFuture
  BY <1>4 DEF CompleteFuture
<1>5. CASE WriteFails
  BY <1>5 DEF WriteFails, Exit
<1>6. CASE CloseStream
  BY <1>6 DEF CloseStream, Exit
<1>7. CASE QueueClosed
  BY <1>7 DEF QueueClosed, Exit
<1>8. CASE FutureReturned
  BY <1>8 DEF FutureReturned, Exit
<1>9. CASE RaisedBeforeHead
  BY <1>9 DEF RaisedBeforeHead, Exit
<1>10. CASE RaisedAfterHead
  BY <1>10 DEF RaisedAfterHead
<1>11. CASE CloseAfterRaise
  BY <1>11 DEF CloseAfterRaise, Exit
<1>12. CASE ResponseTimeout
  BY <1>12 DEF ResponseTimeout, Exit
<1>13. CASE Expire
  BY <1>13 DEF Expire
<1>14. CASE HandleReturns
  BY <1>14 DEF HandleReturns, HandleResponse, HandleError
<1>15. CASE CancelHandle
  BY <1>15 DEF CancelHandle
<1>16. CASE ClientRead
  BY <1>16 DEF ClientRead
<1>17. CASE ClientLeaves \/ BodyDropped
  BY <1>17 DEF ClientLeaves, BodyDropped, CloseClientEnd
<1>18. CASE UNCHANGED responseVars
  BY <1>18 DEF responseVars
<1>19. QED
  BY <1>1, <1>2, <1>3, <1>4, <1>5, <1>6, <1>7, <1>8, <1>9, <1>10, <1>11,
     <1>12, <1>13, <1>14, <1>15, <1>16, <1>17, <1>18
  DEF ResponseNext, Application, ForwardingTask

(* Positions stay within the log and the stream: the loop never has a        *)
(* message in hand that was not queued, the client never reads ahead.        *)
LEMMA MessagesStep ==
  ASSUME MessagesOK, MessageInHand, [ResponseNext]_responseVars
  PROVE  MessagesOK'
<1> USE DEF MessagesOK
<1>1. ASSUME NEW msg \in SendMessages, Send(msg)
      PROVE  MessagesOK'
  <2>1. /\ log' = Append(log, msg)
        /\ log' \in Seq(Message)
        /\ Len(log') = Len(log) + 1
    BY <1>1, SendMessagesAreMessages DEF Send
  <2>2. stream' \in Seq(1..Len(log'))
    BY <1>1, <2>1 DEF Send
  <2>3. QED
    BY <1>1, <2>1, <2>2 DEF Send
<1>2. CASE ForwardStart
  BY <1>2 DEF ForwardStart, Receives, Acked
<1>3. CASE StopAtStart
  BY <1>3 DEF StopAtStart, Receives, Exit
<1>4. CASE IgnoreStart
  BY <1>4 DEF IgnoreStart, Receives, AckDropped
<1>5. CASE AcceptBody
  BY <1>5 DEF AcceptBody, Receives, Acked
<1>6. CASE StopAtBody
  BY <1>6 DEF StopAtBody, Receives, Exit
<1>7. CASE WriteBody
  <2>1. taken \in 1..Len(log)
    BY <1>7 DEF WriteBody, MessageInHand
  <2>2. /\ stream' \in Seq(1..Len(log))
        /\ Len(stream') = Len(stream) + 1
    BY <1>7, <2>1 DEF WriteBody
  <2>3. QED
    BY <1>7, <2>2 DEF WriteBody
<1>8. CASE Quiet
  BY <1>8 DEF Quiet
<1>9. QED
  BY <1>1, <1>2, <1>3, <1>4, <1>5, <1>6, <1>7, <1>8, QuietSteps

(* What send() appends leaves the messages before it where they were. *)
LEMMA SendKeepsLog ==
  ASSUME MessagesOK, NEW msg \in SendMessages, Send(msg)
  PROVE  /\ Len(log') = Len(log) + 1
         /\ \A i \in 1..Len(log) : log'[i] = log[i]
         /\ UNCHANGED <<taken, loop, stream, acked, head, ended, exception, app, clientGone>>
  BY DEF MessagesOK, Send

(* The pending call's message stays the last in the queue. *)
LEMMA AwaitingStep ==
  ASSUME MessagesOK, AwaitingIsQueued, [ResponseNext]_responseVars
  PROVE  AwaitingIsQueued'
<1> USE DEF AwaitingIsQueued, MessagesOK
<1>1. ASSUME NEW msg \in SendMessages, Send(msg)
      PROVE  AwaitingIsQueued'
  BY <1>1, SendKeepsLog DEF Send
<1>2. CASE ForwardStart
  BY <1>2 DEF ForwardStart, Receives, Acked
<1>3. CASE StopAtStart
  BY <1>3 DEF StopAtStart, Receives, Exit
<1>4. CASE IgnoreStart
  BY <1>4 DEF IgnoreStart, Receives, AckDropped
<1>5. CASE AcceptBody
  BY <1>5 DEF AcceptBody, Receives, Acked
<1>6. CASE StopAtBody
  BY <1>6 DEF StopAtBody, Receives, Exit
<1>7. CASE WriteBody
  BY <1>7 DEF WriteBody
<1>8. CASE Quiet
  BY <1>8 DEF Quiet
<1>9. QED
  BY <1>1, <1>2, <1>3, <1>4, <1>5, <1>6, <1>7, <1>8, QuietSteps

(* A message is acknowledged when it is taken, a response.start only with    *)
(* the head.                                                                 *)
LEMMA AckedStep ==
  ASSUME MessagesOK, AckedWereTaken, [ResponseNext]_responseVars
  PROVE  AckedWereTaken'
<1> USE DEF AckedWereTaken, MessagesOK, IsStart
<1>1. ASSUME NEW msg \in SendMessages, Send(msg)
      PROVE  AckedWereTaken'
  BY <1>1, SendKeepsLog
<1>2. CASE ForwardStart
  BY <1>2 DEF ForwardStart, Receives, Acked
<1>3. CASE StopAtStart
  BY <1>3 DEF StopAtStart, Receives, Exit
<1>4. CASE IgnoreStart
  BY <1>4 DEF IgnoreStart, Receives, AckDropped
<1>5. CASE AcceptBody
  BY <1>5 DEF AcceptBody, Receives, Acked
<1>6. CASE StopAtBody
  BY <1>6 DEF StopAtBody, Receives, Exit
<1>7. CASE WriteBody
  BY <1>7 DEF WriteBody
<1>8. CASE Quiet
  BY <1>8 DEF Quiet
<1>9. QED
  BY <1>1, <1>2, <1>3, <1>4, <1>5, <1>6, <1>7, <1>8, QuietSteps

(* The three facts about the stream and the message in hand belong together. *)
Delivery == MessagesOK /\ StreamIsPrefix /\ MessageInHand

(* Queueing another message changes nothing in what was delivered. *)
LEMMA SendKeepsDelivery ==
  ASSUME Delivery, NEW msg \in SendMessages, Send(msg)
  PROVE  StreamIsPrefix' /\ MessageInHand'
<1>1. /\ UNCHANGED <<taken, loop, stream>>
      /\ \A i \in 1..taken : HasData(i)' = HasData(i) /\ IsFinal(i)' = IsFinal(i)
      /\ \A i \in 1..taken : IsWritten(i)' = IsWritten(i)
  <2>1. MessagesOK
    BY DEF Delivery
  <2>2. /\ UNCHANGED <<taken, loop, stream>>
        /\ \A i \in 1..Len(log) : log'[i] = log[i]
    BY <2>1, SendKeepsLog
  <2>3. \A i \in 1..taken : i \in 1..Len(log)
    BY <2>1 DEF MessagesOK
  <2>4. QED
    BY <2>2, <2>3 DEF HasData, IsFinal, IsWritten
<1>2. /\ taken \in Nat
      /\ Len(stream) \in Nat
      /\ \A k \in 1..Len(stream) : stream[k] \in 1..taken
  BY DEF Delivery, MessagesOK, StreamIsPrefix
<1>3. StreamIsPrefix'
  BY <1>1, <1>2 DEF Delivery, StreamIsPrefix
<1>4. MessageInHand'
  BY <1>1, <1>2 DEF Delivery, MessageInHand
<1>5. QED
  BY <1>3, <1>4

(* Taking the next message, with everything before it in the stream. *)
LEMMA ReceiveKeepsDelivery ==
  ASSUME Delivery, NEW kind, Receives(kind), UNCHANGED <<log, stream>>,
         \/ loop' = "done"
         \/ kind = "start" /\ loop' = "select"
         \/ kind = "body" /\ loop' = AfterAck(taken + 1)
  PROVE  StreamIsPrefix' /\ MessageInHand'
<1>1. /\ loop = "select"
      /\ taken \in Nat
      /\ taken' = taken + 1
      /\ log[taken + 1].kind = kind
      /\ Len(stream) \in Nat
  BY DEF Receives, Delivery, MessagesOK
<1>2. \A i : /\ HasData(i)' = HasData(i)
             /\ IsFinal(i)' = IsFinal(i)
             /\ IsWritten(i)' = IsWritten(i)
  BY DEF HasData, IsFinal, IsWritten
<1>3. /\ \A i \in 1..taken : ~IsFinal(i)
      /\ \A i \in 1..taken : HasData(i) => IsWritten(i)
      /\ \A k \in 1..Len(stream) :
            /\ stream[k] \in 1..taken
            /\ HasData(stream[k])
            /\ \A j \in 1..(k-1) : stream[j] < stream[k]
  BY <1>1 DEF Delivery, MessagesOK, StreamIsPrefix, MessageInHand
<1>4. kind = "start" => ~HasData(taken + 1) /\ ~IsFinal(taken + 1)
  BY <1>1 DEF HasData, IsFinal
<1>5. \/ loop' = "done"
      \/ loop' = "write" /\ HasData(taken + 1)
      \/ loop' = "close" /\ IsFinal(taken + 1) /\ ~HasData(taken + 1)
      \/ loop' = "select" /\ ~IsFinal(taken + 1) /\ ~HasData(taken + 1)
  BY <1>4 DEF AfterAck
<1>6. StreamIsPrefix'
  BY <1>1, <1>2, <1>3, <1>5 DEF StreamIsPrefix
<1>7. MessageInHand'
  BY <1>1, <1>2, <1>3, <1>5 DEF MessageInHand
<1>8. QED
  BY <1>6, <1>7

(* Writing the message in hand. *)
LEMMA WriteKeepsDelivery ==
  ASSUME Delivery, WriteBody
  PROVE  StreamIsPrefix' /\ MessageInHand'
<1>1. /\ taken \in 1..Len(log)
      /\ loop = "write"
      /\ HasData(taken)
      /\ stream' = Append(stream, taken)
      /\ loop' = AfterWrite(taken)
      /\ UNCHANGED <<log, taken>>
  BY DEF Delivery, MessagesOK, MessageInHand, WriteBody
<1>2. /\ Len(stream) \in Nat
      /\ Len(stream') = Len(stream) + 1
      /\ stream'[Len(stream) + 1] = taken
      /\ \A k \in 1..Len(stream) : stream'[k] = stream[k]
  BY <1>1 DEF Delivery, MessagesOK
<1>3. \A k \in 1..Len(stream) :
         /\ stream[k] < taken
         /\ HasData(stream[k])
         /\ \A j \in 1..(k-1) : stream[j] < stream[k]
  BY <1>1 DEF Delivery, StreamIsPrefix, MessageInHand
<1>4. \A i : HasData(i)' = HasData(i) /\ IsFinal(i)' = IsFinal(i)
  BY <1>1 DEF HasData, IsFinal
<1>5. IsWritten(taken)' /\ \A i : IsWritten(i) => IsWritten(i)'
  BY <1>1, <1>2 DEF IsWritten
<1>6. \A i \in 1..taken : HasData(i) => IsWritten(i)'
  BY <1>1, <1>5 DEF Delivery, StreamIsPrefix
<1>7. StreamIsPrefix'
  <2>1. ASSUME NEW k \in 1..Len(stream')
        PROVE  /\ stream'[k] <= taken'
               /\ HasData(stream'[k])
               /\ \A j \in 1..(k-1) : stream'[j] < stream'[k]
    <3>1. CASE k \in 1..Len(stream)
      BY <1>1, <1>2, <1>3, <3>1 DEF Delivery, MessagesOK
    <3>2. CASE k = Len(stream) + 1
      BY <1>1, <1>2, <1>3, <3>2 DEF Delivery, MessagesOK
    <3>3. QED
      BY <1>2, <2>1, <3>1, <3>2
  <2>2. QED
    BY <1>1, <1>4, <1>6, <2>1 DEF StreamIsPrefix
<1>8. MessageInHand'
  <2>1. /\ loop' \in {"close", "select"}
        /\ loop' = "close" <=> IsFinal(taken)
    BY <1>1 DEF AfterWrite
  <2>2. \A i \in 1..taken : IsFinal(i) => i = taken
    BY <1>1 DEF Delivery, MessageInHand
  <2>3. QED
    BY <1>1, <1>4, <1>5, <2>1, <2>2 DEF MessageInHand
<1>9. QED
  BY <1>7, <1>8

(* A quiet step leaves the stream alone, and the loop stays or ends. *)
LEMMA QuietKeepsDelivery ==
  ASSUME Delivery, Quiet
  PROVE  StreamIsPrefix' /\ MessageInHand'
<1>1. UNCHANGED <<log, taken, stream>>
  BY DEF Quiet
<1>2. \A i : /\ HasData(i)' = HasData(i)
             /\ IsFinal(i)' = IsFinal(i)
             /\ IsWritten(i)' = IsWritten(i)
  BY <1>1 DEF HasData, IsFinal, IsWritten
<1>3. StreamIsPrefix'
  BY <1>1, <1>2 DEF Delivery, StreamIsPrefix, Quiet
<1>4. MessageInHand'
  BY <1>1, <1>2 DEF Delivery, MessageInHand, Quiet
<1>5. QED
  BY <1>3, <1>4

LEMMA DeliveryStep ==
  ASSUME Delivery, [ResponseNext]_responseVars
  PROVE  StreamIsPrefix' /\ MessageInHand'
<1>1. CASE \E msg \in SendMessages : Send(msg)
  BY <1>1, SendKeepsDelivery
<1>2. CASE ForwardStart \/ StopAtStart \/ IgnoreStart
  <2>1. /\ Receives("start")
        /\ UNCHANGED <<log, stream>>
        /\ loop' \in {"select", "done"}
    BY <1>2 DEF ForwardStart, StopAtStart, IgnoreStart, Receives, Exit
  <2>2. QED
    BY <2>1, ReceiveKeepsDelivery
<1>3. CASE AcceptBody \/ StopAtBody
  <2>1. /\ Receives("body")
        /\ UNCHANGED <<log, stream>>
        /\ loop' = "done" \/ loop' = AfterAck(taken + 1)
    BY <1>3 DEF AcceptBody, StopAtBody, Exit
  <2>2. QED
    BY <2>1, ReceiveKeepsDelivery
<1>4. CASE WriteBody
  BY <1>4, WriteKeepsDelivery
<1>5. CASE Quiet
  BY <1>5, QuietKeepsDelivery
<1>6. QED
  BY <1>1, <1>2, <1>3, <1>4, <1>5, QuietSteps

(* The oneshot is decided when the loop ends, and decides handle(). *)
LEMMA HeadStep ==
  ASSUME StatesOK, HeadFollowsLoop, EndFollowsLoop, ErrorIsReportedOnce, [ResponseNext]_responseVars
  PROVE  HeadFollowsLoop'
<1> USE DEF StatesOK, HeadFollowsLoop, EndFollowsLoop, ErrorIsReportedOnce
<1>1. ASSUME NEW msg \in SendMessages, Send(msg)
      PROVE  HeadFollowsLoop'
  BY <1>1, SendKeepsLog DEF Send
<1>2. ASSUME NEW outcome \in {"returned", "raised"}, Finish(outcome)
      PROVE  HeadFollowsLoop'
  BY <1>2 DEF Finish
<1>3. CASE CancelSend
  BY <1>3 DEF CancelSend
<1>4. CASE ReleaseSender
  BY <1>4 DEF ReleaseSender
<1>5. CASE CompleteFuture
  BY <1>5 DEF CompleteFuture
<1>6. CASE ForwardStart
  BY <1>6 DEF ForwardStart, Receives, Acked
<1>7. CASE StopAtStart
  BY <1>7 DEF StopAtStart, Receives, Exit
<1>8. CASE IgnoreStart
  BY <1>8 DEF IgnoreStart, Receives, AckDropped
<1>9. CASE AcceptBody
  BY <1>9 DEF AcceptBody, Receives, Acked, AfterAck
<1>10. CASE StopAtBody
  BY <1>10 DEF StopAtBody, Receives, Exit
<1>11. CASE WriteBody
  BY <1>11 DEF WriteBody, AfterWrite
<1>12. CASE WriteFails
  BY <1>12 DEF WriteFails, Exit
<1>13. CASE CloseStream
  BY <1>13 DEF CloseStream, Exit
<1>14. CASE QueueClosed
  BY <1>14 DEF QueueClosed, Exit
<1>15. CASE FutureReturned
  BY <1>15 DEF FutureReturned, Exit
<1>16. CASE RaisedBeforeHead
  BY <1>16 DEF RaisedBeforeHead, Exit
<1>17. CASE RaisedAfterHead
  BY <1>17 DEF RaisedAfterHead
<1>18. CASE CloseAfterRaise
  BY <1>18 DEF CloseAfterRaise, Exit
<1>19. CASE ResponseTimeout
  BY <1>19 DEF ResponseTimeout, Exit
<1>20. CASE Expire
  BY <1>20 DEF Expire
<1>21. CASE HandleReturns
  BY <1>21 DEF HandleReturns, HandleResponse, HandleError
<1>22. CASE CancelHandle
  BY <1>22 DEF CancelHandle
<1>23. CASE ClientRead
  BY <1>23 DEF ClientRead
<1>24. CASE ClientLeaves \/ BodyDropped
  BY <1>24 DEF ClientLeaves, BodyDropped, CloseClientEnd
<1>25. CASE UNCHANGED responseVars
  BY <1>25 DEF responseVars
<1>26. QED
  BY <1>1, <1>2, <1>3, <1>4, <1>5, <1>6, <1>7, <1>8, <1>9, <1>10, <1>11,
     <1>12, <1>13, <1>14, <1>15, <1>16, <1>17, <1>18, <1>19, <1>20,
     <1>21, <1>22, <1>23, <1>24, <1>25
  DEF ResponseNext, Application, ForwardingTask

(* The error is stored, and the stream shut down, as the loop ends. *)
LEMMA EndStep ==
  ASSUME EndFollowsLoop, [ResponseNext]_responseVars
  PROVE  EndFollowsLoop'
<1> USE DEF EndFollowsLoop
<1>1. ASSUME NEW msg \in SendMessages, Send(msg)
      PROVE  EndFollowsLoop'
  BY <1>1, SendKeepsLog DEF Send
<1>2. ASSUME NEW outcome \in {"returned", "raised"}, Finish(outcome)
      PROVE  EndFollowsLoop'
  BY <1>2 DEF Finish
<1>3. CASE CancelSend
  BY <1>3 DEF CancelSend
<1>4. CASE ReleaseSender
  BY <1>4 DEF ReleaseSender
<1>5. CASE CompleteFuture
  BY <1>5 DEF CompleteFuture
<1>6. CASE ForwardStart
  BY <1>6 DEF ForwardStart, Receives, Acked
<1>7. CASE StopAtStart
  BY <1>7 DEF StopAtStart, Receives, Exit
<1>8. CASE IgnoreStart
  BY <1>8 DEF IgnoreStart, Receives, AckDropped
<1>9. CASE AcceptBody
  BY <1>9 DEF AcceptBody, Receives, Acked, AfterAck
<1>10. CASE StopAtBody
  BY <1>10 DEF StopAtBody, Receives, Exit
<1>11. CASE WriteBody
  BY <1>11 DEF WriteBody, AfterWrite
<1>12. CASE WriteFails
  BY <1>12 DEF WriteFails, Exit
<1>13. CASE CloseStream
  BY <1>13 DEF CloseStream, Exit
<1>14. CASE QueueClosed
  BY <1>14 DEF QueueClosed, Exit
<1>15. CASE FutureReturned
  BY <1>15 DEF FutureReturned, Exit
<1>16. CASE RaisedBeforeHead
  BY <1>16 DEF RaisedBeforeHead, Exit
<1>17. CASE RaisedAfterHead
  BY <1>17 DEF RaisedAfterHead
<1>18. CASE CloseAfterRaise
  BY <1>18 DEF CloseAfterRaise, Exit
<1>19. CASE ResponseTimeout
  BY <1>19 DEF ResponseTimeout, Exit
<1>20. CASE Expire
  BY <1>20 DEF Expire
<1>21. CASE HandleReturns
  BY <1>21 DEF HandleReturns, HandleResponse, HandleError
<1>22. CASE CancelHandle
  BY <1>22 DEF CancelHandle
<1>23. CASE ClientRead
  BY <1>23 DEF ClientRead
<1>24. CASE ClientLeaves \/ BodyDropped
  BY <1>24 DEF ClientLeaves, BodyDropped, CloseClientEnd
<1>25. CASE UNCHANGED responseVars
  BY <1>25 DEF responseVars
<1>26. QED
  BY <1>1, <1>2, <1>3, <1>4, <1>5, <1>6, <1>7, <1>8, <1>9, <1>10, <1>11,
     <1>12, <1>13, <1>14, <1>15, <1>16, <1>17, <1>18, <1>19, <1>20,
     <1>21, <1>22, <1>23, <1>24, <1>25
  DEF ResponseNext, Application, ForwardingTask

(* Acknowledged data is written, in hand, or given up with the client. *)
LEMMA AckedIsWrittenStep ==
  ASSUME ResponseInv, [ResponseNext]_responseVars
  PROVE  AckedIsWritten'
<1>0. /\ MessagesOK /\ AckedWereTaken /\ StreamIsPrefix /\ MessageInHand
      /\ AckedIsWritten
      /\ acked \subseteq 1..taken
      /\ taken \in Nat
  BY DEF ResponseInv, ResponseTypeOK, MessagesOK, AckedWereTaken
<1>1. ASSUME NEW msg \in SendMessages, Send(msg)
      PROVE  AckedIsWritten'
  <2>1. /\ UNCHANGED <<taken, loop, stream, acked, clientGone>>
        /\ \A i \in acked : log'[i] = log[i]
    BY <1>0, <1>1, SendKeepsLog DEF MessagesOK
  <2>2. QED
    BY <1>0, <2>1 DEF AckedIsWritten, HasData, IsWritten
<1>2. CASE ForwardStart \/ StopAtStart \/ IgnoreStart
  <2>1. /\ loop = "select"
        /\ log[taken + 1].kind = "start"
        /\ UNCHANGED <<log, stream>>
        /\ acked' \subseteq acked \cup {taken + 1}
    BY <1>2 DEF ForwardStart, StopAtStart, IgnoreStart, Receives, Acked, AckDropped
  <2>2. \A i \in acked : HasData(i) => IsWritten(i)
    BY <1>0, <2>1 DEF StreamIsPrefix
  <2>3. QED
    BY <2>1, <2>2 DEF AckedIsWritten, HasData, IsWritten
<1>3. CASE AcceptBody \/ StopAtBody
  <2>1. /\ loop = "select"
        /\ taken' = taken + 1
        /\ UNCHANGED <<log, stream>>
        /\ acked' = acked \/ (acked' = acked \cup {taken + 1} /\ loop' = AfterAck(taken + 1))
    BY <1>3 DEF AcceptBody, StopAtBody, Receives, Acked
  <2>2. \A i \in acked : HasData(i) => IsWritten(i)
    BY <1>0, <2>1 DEF StreamIsPrefix
  <2>3. QED
    BY <2>1, <2>2 DEF AckedIsWritten, AfterAck, HasData, IsWritten
<1>4. CASE WriteBody
  <2>1. /\ UNCHANGED <<log, taken, acked>>
        /\ stream' = Append(stream, taken)
    BY <1>4 DEF WriteBody
  <2>2. IsWritten(taken)' /\ \A i : IsWritten(i) => IsWritten(i)'
    BY <1>0, <1>4, <2>1 DEF IsWritten, MessagesOK, MessageInHand, WriteBody
  <2>3. \A i \in acked : HasData(i) => IsWritten(i) \/ i = taken
    BY <1>0 DEF AckedIsWritten
  <2>4. QED
    BY <2>1, <2>2, <2>3 DEF AckedIsWritten, HasData
<1>5. CASE Quiet
  BY <1>0, <1>5 DEF Quiet, AckedIsWritten, HasData, IsWritten
<1>6. QED
  BY <1>1, <1>2, <1>3, <1>4, <1>5, QuietSteps

(* Only the two closing steps end the stream, and both may. *)
LEMMA EndingSteps ==
  ASSUME ~ended, [ResponseNext]_responseVars, ended'
  PROVE  CloseStream \/ CloseAfterRaise
<1>1. ASSUME NEW msg \in SendMessages, Send(msg)
      PROVE  FALSE
  BY <1>1, Zenon DEF Send
<1>2. ASSUME NEW outcome \in {"returned", "raised"}, Finish(outcome)
      PROVE  FALSE
  BY <1>2, Zenon DEF Finish
<1>3. ASSUME CancelSend
      PROVE  FALSE
  BY <1>3, Zenon
  DEF CancelSend
<1>4. ASSUME ReleaseSender
      PROVE  FALSE
  BY <1>4, Zenon
  DEF ReleaseSender
<1>5. ASSUME CompleteFuture
      PROVE  FALSE
  BY <1>5, Zenon
  DEF CompleteFuture
<1>6. ASSUME ForwardStart \/ StopAtStart \/ IgnoreStart
      PROVE  FALSE
  BY <1>6, Zenon
  DEF ForwardStart, StopAtStart, IgnoreStart
<1>7. ASSUME AcceptBody \/ StopAtBody
      PROVE  FALSE
  BY <1>7, Zenon
  DEF AcceptBody, StopAtBody
<1>8. ASSUME WriteBody \/ WriteFails
      PROVE  FALSE
  BY <1>8, Zenon
  DEF WriteBody, WriteFails
<1>9. ASSUME QueueClosed \/ FutureReturned \/ ResponseTimeout
      PROVE  FALSE
  BY <1>9, Zenon
  DEF QueueClosed, FutureReturned, ResponseTimeout
<1>10. ASSUME RaisedBeforeHead \/ RaisedAfterHead
      PROVE  FALSE
  BY <1>10, Zenon
  DEF RaisedBeforeHead, RaisedAfterHead
<1>11. ASSUME Expire \/ HandleReturns \/ CancelHandle
      PROVE  FALSE
  BY <1>11, Zenon
  DEF Expire, HandleReturns, HandleResponse, HandleError, CancelHandle
<1>12. ASSUME ClientRead \/ ClientLeaves \/ BodyDropped
      PROVE  FALSE
  BY <1>12, Zenon
  DEF ClientRead, ClientLeaves, BodyDropped, CloseClientEnd
<1>13. ASSUME UNCHANGED responseVars
      PROVE  FALSE
  BY <1>13, Zenon
  DEF responseVars
<1>14. QED
  BY <1>1, <1>2, <1>3, <1>4, <1>5, <1>6, <1>7, <1>8, <1>9, <1>10, <1>11, <1>12, <1>13, Zenon
  DEF ResponseNext, Application, ForwardingTask

(* Once the loop is done, it is done. *)
LEMMA DoneSteps ==
  ASSUME loop = "done", [ResponseNext]_responseVars
  PROVE  UNCHANGED <<log, taken, loop, stream, ended, exception, acked, head>>
<1>1. ASSUME NEW msg \in SendMessages, Send(msg)
      PROVE  FALSE
  BY <1>1 DEF Send
<1>2. ASSUME NEW outcome \in {"returned", "raised"}, Finish(outcome)
      PROVE  UNCHANGED <<log, taken, loop, stream, ended, exception, acked, head>>
  BY <1>2 DEF Finish
<1>3. ASSUME ForwardingTask
      PROVE  FALSE
  BY <1>3
  DEF ForwardingTask, Receives, ForwardStart, StopAtStart, IgnoreStart, AcceptBody,
      StopAtBody, WriteBody, WriteFails, CloseStream, QueueClosed,
      FutureReturned, RaisedBeforeHead, RaisedAfterHead, CloseAfterRaise,
      ResponseTimeout
<1>4. CASE CancelSend
  BY <1>4 DEF CancelSend
<1>5. CASE ReleaseSender
  BY <1>5 DEF ReleaseSender
<1>6. CASE CompleteFuture
  BY <1>6 DEF CompleteFuture
<1>7. CASE Expire
  BY <1>7 DEF Expire
<1>8. CASE HandleReturns \/ CancelHandle
  BY <1>8 DEF HandleReturns, HandleResponse, HandleError, CancelHandle
<1>9. CASE ClientRead \/ ClientLeaves \/ BodyDropped
  BY <1>9 DEF ClientRead, ClientLeaves, BodyDropped, CloseClientEnd
<1>10. CASE UNCHANGED responseVars
  BY <1>10 DEF responseVars
<1>11. QED
  BY <1>1, <1>2, <1>3, <1>4, <1>5, <1>6, <1>7, <1>8, <1>9, <1>10
  DEF ResponseNext, Application

(* The end of the stream stays honest. *)
LEMMA EndMeansCompleteStep ==
  ASSUME ResponseInv, [ResponseNext]_responseVars
  PROVE  EndMeansComplete'
<1>0. /\ MessagesOK /\ StreamIsPrefix /\ MessageInHand /\ EndFollowsLoop
      /\ EndMeansComplete
  BY DEF ResponseInv, ResponseTypeOK
<1>1. CASE ended
  <2>1. UNCHANGED <<log, taken, stream, exception>>
    BY <1>0, <1>1, DoneSteps DEF EndFollowsLoop
  <2>2. QED
    BY <1>0, <1>1, <2>1 DEF EndMeansComplete, IsFinal, HasData, IsWritten
<1>2. CASE CloseStream
  <2>1. UNCHANGED <<log, taken, stream>>
    BY <1>2 DEF CloseStream
  <2>2. /\ taken > 0 /\ IsFinal(taken)
        /\ \A i \in 1..taken : HasData(i) => IsWritten(i)
    BY <1>0, <1>2 DEF CloseStream, MessageInHand, StreamIsPrefix
  <2>3. QED
    BY <2>1, <2>2 DEF EndMeansComplete, IsFinal, HasData, IsWritten
<1>3. CASE CloseAfterRaise
  <2>1. exception'
    BY <1>0, <1>3 DEF CloseAfterRaise, EndFollowsLoop
  <2>2. QED
    BY <2>1 DEF EndMeansComplete
<1>4. CASE ~ended'
  BY <1>4 DEF EndMeansComplete
<1>5. QED
  BY <1>1, <1>2, <1>3, <1>4, EndingSteps

(* Only two steps report an error. *)
LEMMA ErrorSteps ==
  ASSUME [ResponseNext]_responseVars, ~exception, head \in {"open", "ok"},
         ~RaisedAfterHead, ~RaisedBeforeHead
  PROVE  ~exception' /\ head' # "pyerror"
<1>1. ASSUME NEW msg \in SendMessages, Send(msg)
      PROVE  ~exception' /\ head' # "pyerror"
  BY <1>1 DEF Send
<1>2. ASSUME NEW outcome \in {"returned", "raised"}, Finish(outcome)
      PROVE  ~exception' /\ head' # "pyerror"
  BY <1>2 DEF Finish
<1>3. CASE CancelSend
  BY <1>3 DEF CancelSend
<1>4. CASE ReleaseSender
  BY <1>4 DEF ReleaseSender
<1>5. CASE CompleteFuture
  BY <1>5 DEF CompleteFuture
<1>6. CASE ForwardStart \/ StopAtStart \/ IgnoreStart
  BY <1>6 DEF ForwardStart, StopAtStart, IgnoreStart, Exit
<1>7. CASE AcceptBody \/ StopAtBody
  BY <1>7 DEF AcceptBody, StopAtBody, Exit
<1>8. CASE WriteBody \/ WriteFails
  BY <1>8 DEF WriteBody, WriteFails, Exit
<1>9. CASE CloseStream \/ CloseAfterRaise
  BY <1>9 DEF CloseStream, CloseAfterRaise, Exit
<1>10. CASE QueueClosed \/ FutureReturned \/ ResponseTimeout
  BY <1>10 DEF QueueClosed, FutureReturned, ResponseTimeout, Exit
<1>11. CASE Expire
  BY <1>11 DEF Expire
<1>12. CASE HandleReturns \/ CancelHandle
  BY <1>12 DEF HandleReturns, HandleResponse, HandleError, CancelHandle
<1>13. CASE ClientRead \/ ClientLeaves \/ BodyDropped
  BY <1>13 DEF ClientRead, ClientLeaves, BodyDropped, CloseClientEnd
<1>14. CASE UNCHANGED responseVars
  BY <1>14 DEF responseVars
<1>15. QED
  BY <1>1, <1>2, <1>3, <1>4, <1>5, <1>6, <1>7, <1>8, <1>9, <1>10, <1>11, <1>12, <1>13, <1>14
  DEF ResponseNext, Application, ForwardingTask

(* A coroutine that has raised has finished. *)
LEMMA RaisedStays ==
  ASSUME [ResponseNext]_responseVars, app = "raised"
  PROVE  app' = "raised"
<1>1. ASSUME NEW msg \in SendMessages, Send(msg)
      PROVE  app' = "raised"
  BY <1>1 DEF Send
<1>2. ASSUME NEW outcome \in {"returned", "raised"}, Finish(outcome)
      PROVE  FALSE
  BY <1>2 DEF Finish
<1>3. CASE CancelSend \/ ReleaseSender \/ CompleteFuture
  BY <1>3
  DEF CancelSend, ReleaseSender, CompleteFuture
<1>4. CASE ForwardingTask
  BY <1>4
  DEF ForwardingTask, ForwardStart, StopAtStart, IgnoreStart, AcceptBody,
      StopAtBody, WriteBody, WriteFails, CloseStream, QueueClosed,
      FutureReturned, RaisedBeforeHead, RaisedAfterHead, CloseAfterRaise,
      ResponseTimeout
<1>5. CASE Expire \/ HandleReturns \/ CancelHandle
  BY <1>5
  DEF Expire, HandleReturns, HandleResponse, HandleError, CancelHandle
<1>6. CASE ClientRead \/ ClientLeaves \/ BodyDropped
  BY <1>6
  DEF ClientRead, ClientLeaves, BodyDropped, CloseClientEnd
<1>7. CASE UNCHANGED responseVars
  BY <1>7
  DEF responseVars
<1>8. QED
  BY <1>1, <1>2, <1>3, <1>4, <1>5, <1>6, <1>7
  DEF ResponseNext, Application

(* After storing the error, all the loop does is close the stream. *)
LEMMA RaiseSteps ==
  ASSUME [ResponseNext]_responseVars, loop = "raise", app = "raised", head = "ok"
  PROVE  UNCHANGED <<log, exception, acked, head>>
<1>1. ASSUME NEW msg \in SendMessages, Send(msg)
      PROVE  FALSE
  BY <1>1 DEF Send
<1>2. ASSUME NEW outcome \in {"returned", "raised"}, Finish(outcome)
      PROVE  FALSE
  BY <1>2 DEF Finish
<1>3. ASSUME ForwardingTask, ~CloseAfterRaise
      PROVE  FALSE
  BY <1>3
  DEF ForwardingTask, Receives, ForwardStart, StopAtStart, IgnoreStart, AcceptBody,
      StopAtBody, WriteBody, WriteFails, CloseStream, QueueClosed,
      FutureReturned, RaisedBeforeHead, RaisedAfterHead, ResponseTimeout
<1>4. CASE CancelSend \/ ReleaseSender \/ CompleteFuture
  BY <1>4
  DEF CancelSend, ReleaseSender, CompleteFuture
<1>5. CASE CloseAfterRaise
  BY <1>5
  DEF CloseAfterRaise, Exit
<1>6. CASE Expire
  BY <1>6
  DEF Expire
<1>7. CASE HandleReturns \/ CancelHandle
  BY <1>7
  DEF HandleReturns, HandleResponse, HandleError, CancelHandle
<1>8. CASE ClientRead \/ ClientLeaves \/ BodyDropped
  BY <1>8
  DEF ClientRead, ClientLeaves, BodyDropped, CloseClientEnd
<1>9. CASE UNCHANGED responseVars
  BY <1>9
  DEF responseVars
<1>10. QED
  BY <1>1, <1>2, <1>3, <1>4, <1>5, <1>6, <1>7, <1>8, <1>9
  DEF ResponseNext, Application

(* An error stays in the one place it was reported in. *)
LEMMA ErrorStep ==
  ASSUME ResponseInv, [ResponseNext]_responseVars
  PROVE  ErrorIsReportedOnce'
<1> DEFINE NoFinal == \A i \in acked : ~IsFinal(i)
           NoStart == \A i \in acked : ~IsStart(i)
<1>0. /\ ErrorIsReportedOnce /\ EndFollowsLoop /\ HeadFollowsLoop
      /\ AckedWereTaken /\ MessagesOK /\ MessageInHand
      /\ StatesOK
  BY DEF ResponseInv, ResponseTypeOK
<1>1. CASE loop = "done"
  <2>1. UNCHANGED <<log, exception, acked, head>>
    BY <1>1, DoneSteps
  <2>2. exception \/ head = "pyerror" => app = "raised" /\ app' = "raised"
    BY <1>0, RaisedStays DEF ErrorIsReportedOnce
  <2>3. QED
    BY <1>0, <2>1, <2>2 DEF ErrorIsReportedOnce, IsFinal, IsStart
<1>2. CASE loop = "raise"
  <2>0. exception /\ head = "ok" /\ app = "raised"
    BY <1>0, <1>2 DEF ErrorIsReportedOnce, EndFollowsLoop
  <2>1. UNCHANGED <<log, exception, acked, head>> /\ app' = "raised"
    BY <1>2, <2>0, RaiseSteps, RaisedStays
  <2>2. QED
    BY <1>0, <2>1 DEF ErrorIsReportedOnce, IsFinal, IsStart
<1>3. CASE RaisedAfterHead
  <2>1. /\ UNCHANGED <<log, acked, app, head>>
        /\ loop = "select" /\ app = "raised" /\ head = "ok"
    BY <1>0, <1>3 DEF RaisedAfterHead, HeadFollowsLoop
  <2>2. NoFinal
    BY <1>0, <2>1 DEF AckedWereTaken, MessageInHand, MessagesOK
  <2>3. QED
    BY <2>1, <2>2 DEF ErrorIsReportedOnce, IsFinal
<1>4. CASE RaisedBeforeHead
  <2>1. /\ UNCHANGED <<log, acked, app, exception>>
        /\ head = "open" /\ app = "raised" /\ head' = "pyerror"
    BY <1>4 DEF RaisedBeforeHead, Exit
  <2>2. NoStart /\ ~exception
    BY <1>0, <2>1 DEF AckedWereTaken, ErrorIsReportedOnce
  <2>3. QED
    BY <2>1, <2>2 DEF ErrorIsReportedOnce, IsStart
<1>5. CASE /\ loop \notin {"done", "raise"}
           /\ ~RaisedAfterHead /\ ~RaisedBeforeHead
  <2>1. ~exception /\ head \in {"open", "ok"}
    BY <1>0, <1>5 DEF EndFollowsLoop, HeadFollowsLoop, StatesOK
  <2>2. ~exception' /\ head' # "pyerror"
    BY <1>5, <2>1, ErrorSteps
  <2>3. QED
    BY <2>2 DEF ErrorIsReportedOnce
<1>6. QED
  BY <1>1, <1>2, <1>3, <1>4, <1>5

-----------------------------------------------------------------------------
(* The theorems. *)

LEMMA ResponseInvStep == ResponseInv /\ [ResponseNext]_responseVars => ResponseInv'
<1> SUFFICES ASSUME ResponseInv, [ResponseNext]_responseVars
             PROVE  ResponseInv'
  OBVIOUS
<1>1. ResponseTypeOK'
  BY FlagsStep, MessagesStep, StatesStep DEF ResponseInv, ResponseTypeOK
<1>2. AwaitingIsQueued' /\ AckedWereTaken'
  BY AwaitingStep, AckedStep DEF ResponseInv, ResponseTypeOK
<1>3. StreamIsPrefix' /\ MessageInHand'
  BY DeliveryStep DEF Delivery, ResponseInv, ResponseTypeOK
<1>4. HeadFollowsLoop' /\ EndFollowsLoop'
  BY HeadStep, EndStep DEF ResponseInv, ResponseTypeOK
<1>5. AckedIsWritten' /\ EndMeansComplete' /\ ErrorIsReportedOnce'
  BY AckedIsWrittenStep, EndMeansCompleteStep, ErrorStep
<1>6. QED
  BY <1>1, <1>2, <1>3, <1>4, <1>5 DEF ResponseInv

(* The inductive invariant holds of every behaviour of the response path. *)
THEOREM InvariantHolds == ResponseSpec => []ResponseInv
  BY InitInv, ResponseInvStep, PTL DEF ResponseSpec

(* Type correctness: in particular the loop never has a message in hand that *)
(* was not queued, and the client never reads what was not written.          *)
THEOREM TypeCorrect == ResponseSpec => []ResponseTypeOK
<1>1. ResponseInv => ResponseTypeOK
  BY DEF ResponseInv
<1>2. QED
  BY <1>1, InvariantHolds, PTL

(* Body data reaches the stream in the order of the send() calls, no gaps. *)
THEOREM OrderedDelivery == ResponseSpec => []DeliveredInOrder
<1>1. ResponseInv => DeliveredInOrder
  <2> SUFFICES ASSUME ResponseInv
               PROVE  DeliveredInOrder
    OBVIOUS
  <2>1. MessagesOK /\ StreamIsPrefix
    BY DEF ResponseInv, ResponseTypeOK
  <2>2. ASSUME NEW k \in 1..Len(stream), NEW i \in 1..(stream[k]-1), HasData(i)
        PROVE  IsWritten(i)
    <3>1. /\ stream[k] \in 1..taken
          /\ taken \in Nat
      BY <2>1 DEF MessagesOK, StreamIsPrefix
    <3>2. i \in 1..taken /\ i # taken
      BY <3>1
    <3>3. QED
      BY <2>1, <2>2, <3>2 DEF StreamIsPrefix
  <2>3. QED
    BY <2>1, <2>2 DEF DeliveredInOrder, StreamIsPrefix
<1>2. QED
  BY <1>1, InvariantHolds, PTL

(* Body data whose send() returned is written, in hand, or given up with the *)
(* client: a select! branch that wins over the queue loses none of it.       *)
THEOREM AckedDataIsWritten == ResponseSpec => []AckedIsWritten
<1>1. ResponseInv => AckedIsWritten
  BY DEF ResponseInv
<1>2. QED
  BY <1>1, InvariantHolds, PTL

(* The reader of a stream that has ended finds an error or a whole response. *)
THEOREM HonestEnd == ResponseSpec => []EndMeansComplete
<1>1. ResponseInv => EndMeansComplete
  BY DEF ResponseInv
<1>2. QED
  BY <1>1, InvariantHolds, PTL

(* An exception is reported in one place, and in the right one. *)
THEOREM OneErrorReport == ResponseSpec => []ErrorIsReportedOnce
<1>1. ResponseInv => ErrorIsReportedOnce
  BY DEF ResponseInv
<1>2. QED
  BY <1>1, InvariantHolds, PTL

(* When handle() fails, no response.start had been acknowledged. *)
THEOREM FailuresAreNotStarted == ResponseSpec => []FailureMeansNotStarted
<1>1. ResponseInv => FailureMeansNotStarted
  BY DEF ResponseInv, FailureMeansNotStarted, HeadFollowsLoop, AckedWereTaken
<1>2. QED
  BY <1>1, InvariantHolds, PTL

(* After the end of the stream nothing is written, and the error holder that *)
(* the reader looks at then does not change any more.                        *)
THEOREM EndIsFinal == ResponseSpec => NothingAfterEnd
<1>1. ResponseInv /\ [ResponseNext]_responseVars
        => [ended => stream' = stream /\ exception' = exception]_responseVars
  BY DoneSteps DEF ResponseInv, EndFollowsLoop
<1>2. QED
  BY <1>1, InvariantHolds, PTL DEF ResponseSpec, NothingAfterEnd

-----------------------------------------------------------------------------
(* Applications that keep to the protocol.                                   *)

LEMMA InitCompliance == ResponseInit => ComplianceInv
<1> SUFFICES ASSUME ResponseInit
             PROVE  ComplianceInv
  OBVIOUS
<1>1. ProtocolInLog /\ AppFollowsProtocol
  BY DEF ResponseInit, ProtocolInLog, AppFollowsProtocol
<1>2. FirstSendsHead /\ SendsAreAcked /\ EndIsAccounted
  BY DEF ResponseInit, FirstSendsHead, SendsAreAcked, EndIsAccounted
<1>3. ChunkInHand
  <2>1. AcceptedData = {} /\ Len(stream) = 0 /\ loop = "select"
    BY DEF ResponseInit, AcceptedData
  <2>2. QED
    BY <2>1, FS_EmptySet DEF ChunkInHand
<1>4. QED
  BY <1>1, <1>2, <1>3 DEF ComplianceInv

(* An application is compliant or not from the start, and what was given up  *)
(* stays given up.                                                           *)
LEMMA LastingFacts ==
  ASSUME ResponseInv, [ResponseNext]_responseVars
  PROVE  /\ compliant' = compliant
         /\ GivenUp => GivenUp'
         /\ app # "running" => app' = app
<1> USE DEF GivenUp
<1>0. head = "timeout" => loop = "done"
  BY DEF ResponseInv, HeadFollowsLoop
<1>1. ASSUME NEW msg \in SendMessages, Send(msg)
      PROVE  UNCHANGED <<compliant, clientGone, handle, head, app>>
  BY <1>1 DEF Send
<1>2. ASSUME NEW outcome \in {"returned", "raised"}, Finish(outcome)
      PROVE  UNCHANGED <<compliant, clientGone, handle, head>> /\ app = "running"
  BY <1>2 DEF Finish
<1>3. CASE CancelSend \/ ReleaseSender \/ CompleteFuture
  BY <1>3 DEF CancelSend, ReleaseSender, CompleteFuture
<1>4. CASE ForwardingTask
  BY <1>0, <1>4
  DEF ForwardingTask, Receives, ForwardStart, StopAtStart, IgnoreStart, AcceptBody,
      StopAtBody, WriteBody, WriteFails, CloseStream, QueueClosed,
      FutureReturned, RaisedBeforeHead, RaisedAfterHead, CloseAfterRaise,
      ResponseTimeout
<1>5. CASE Expire \/ HandleReturns \/ CancelHandle
  BY <1>5 DEF Expire, HandleReturns, HandleResponse, HandleError, CancelHandle
<1>6. CASE ClientRead \/ ClientLeaves \/ BodyDropped
  BY <1>6 DEF ClientRead, ClientLeaves, BodyDropped, CloseClientEnd
<1>7. CASE UNCHANGED responseVars
  BY <1>7 DEF responseVars
<1>8. QED
  BY <1>1, <1>2, <1>3, <1>4, <1>5, <1>6, <1>7 DEF ResponseNext, Application

(* Only send() changes the log. *)
LEMMA LogSteps ==
  ASSUME [ResponseNext]_responseVars
  PROVE  \/ \E msg \in SendMessages : Send(msg)
         \/ log' = log
<1>1. CASE ForwardStart \/ StopAtStart \/ IgnoreStart
  BY <1>1 DEF ForwardStart, StopAtStart, IgnoreStart
<1>2. CASE AcceptBody \/ StopAtBody \/ WriteBody
  BY <1>2 DEF AcceptBody, StopAtBody, WriteBody
<1>3. CASE Quiet
  BY <1>3 DEF Quiet
<1>4. QED
  BY <1>1, <1>2, <1>3, QuietSteps

(* Conforming messages keep the log in the order of the protocol. *)
LEMMA ProtocolStep ==
  ASSUME ResponseInv, ProtocolInLog, [ResponseNext]_responseVars
  PROVE  ProtocolInLog'
<1>0. MessagesOK /\ compliant' = compliant
  BY LastingFacts DEF ResponseInv, ResponseTypeOK
<1>1. ASSUME NEW msg \in SendMessages, Send(msg), compliant
      PROVE  ProtocolInLog'
  <2>1. /\ Len(log) \in Nat
        /\ Len(log') = Len(log) + 1
        /\ log'[Len(log) + 1] = msg
        /\ \A i \in 1..Len(log) : log'[i] = log[i]
    BY <1>0, <1>1 DEF MessagesOK, Send
  <2>2. (msg.kind = "start") <=> (Len(log) = 0)
    BY <1>0, <1>1 DEF Send, Conforms, MessagesOK
  <2>3. \A i \in 1..Len(log) : ~IsFinal(i)
    BY <1>1 DEF Send, Conforms
  <2>4. \A i \in 1..Len(log) : IsStart(i) <=> i = 1
    BY <1>1 DEF ProtocolInLog
  <2>5. QED
    BY <2>1, <2>2, <2>3, <2>4 DEF ProtocolInLog, IsStart, IsFinal
<1>2. CASE log' = log
  BY <1>0, <1>2 DEF ProtocolInLog, IsStart, IsFinal
<1>3. CASE ~compliant
  BY <1>0, <1>3 DEF ProtocolInLog
<1>4. QED
  BY <1>1, <1>2, <1>3, LogSteps

(* A finished application has no call out. *)
LEMMA AppFollowsStep ==
  ASSUME ResponseInv, AppFollowsProtocol, [ResponseNext]_responseVars
  PROVE  AppFollowsProtocol'
<1> USE DEF AppFollowsProtocol
<1>0. StatesOK /\ MessagesOK
  BY DEF ResponseInv, ResponseTypeOK
<1>1. ASSUME NEW msg \in SendMessages, Send(msg)
      PROVE  AppFollowsProtocol'
  BY <1>1 DEF Send
<1>2. ASSUME NEW outcome \in {"returned", "raised"}, Finish(outcome)
      PROVE  AppFollowsProtocol'
  BY <1>2 DEF Finish
<1>3. CASE CancelSend
  BY <1>3 DEF CancelSend
<1>4. CASE ReleaseSender
  BY <1>4 DEF ReleaseSender
<1>5. CASE CompleteFuture
  BY <1>5 DEF CompleteFuture
<1>6. CASE ForwardStart \/ StopAtStart \/ IgnoreStart
  BY <1>6
  DEF ForwardStart, StopAtStart, IgnoreStart, Acked, AckDropped, Exit
<1>7. CASE AcceptBody \/ StopAtBody \/ WriteBody \/ WriteFails \/ CloseStream
  BY <1>7
  DEF AcceptBody, StopAtBody, WriteBody, WriteFails, CloseStream, Acked, Exit
<1>8. CASE QueueClosed \/ FutureReturned \/ ResponseTimeout
  BY <1>8 DEF QueueClosed, FutureReturned, ResponseTimeout, Exit
<1>9. CASE RaisedBeforeHead \/ RaisedAfterHead \/ CloseAfterRaise
  BY <1>9 DEF RaisedBeforeHead, RaisedAfterHead, CloseAfterRaise, Exit
<1>10. CASE Expire \/ HandleReturns \/ CancelHandle
  BY <1>10 DEF Expire, HandleReturns, HandleResponse, HandleError, CancelHandle
<1>11. CASE ClientRead \/ ClientLeaves \/ BodyDropped
  BY <1>11 DEF ClientRead, ClientLeaves, BodyDropped, CloseClientEnd
<1>12. CASE UNCHANGED responseVars
  BY <1>12 DEF responseVars
<1>13. QED
  BY <1>1, <1>2, <1>3, <1>4, <1>5, <1>6, <1>7, <1>8, <1>9, <1>10, <1>11, <1>12
  DEF ResponseNext, Application, ForwardingTask

(* The first message taken from such an application sends the head. *)
LEMMA FirstSendsHeadStep ==
  ASSUME ResponseInv, ProtocolInLog, FirstSendsHead, [ResponseNext]_responseVars
  PROVE  FirstSendsHead'
<1>0. /\ MessagesOK /\ StatesOK /\ MessageInHand /\ HeadFollowsLoop
      /\ compliant' = compliant
  BY LastingFacts DEF ResponseInv, ResponseTypeOK
<1> SUFFICES ASSUME compliant
             PROVE  /\ taken' > 0 => head' # "open"
                    /\ head' = "ok" => taken' > 0
  BY <1>0 DEF FirstSendsHead
<1> USE DEF MessagesOK, StatesOK
<1>1. ASSUME NEW msg \in SendMessages, Send(msg)
      PROVE  UNCHANGED <<taken, head>>
  BY <1>1 DEF Send
<1>2. ASSUME NEW outcome \in {"returned", "raised"}, Finish(outcome)
      PROVE  UNCHANGED <<taken, head>>
  BY <1>2 DEF Finish
<1>3. CASE CancelSend \/ ReleaseSender \/ CompleteFuture
  BY <1>3 DEF FirstSendsHead, CancelSend, ReleaseSender, CompleteFuture
<1>4. CASE ForwardStart \/ StopAtStart \/ IgnoreStart
  BY <1>0, <1>4
  DEF FirstSendsHead, ForwardStart, StopAtStart, IgnoreStart, Receives, Exit
<1>5. CASE AcceptBody \/ StopAtBody
  <2>1. /\ taken' = taken + 1
        /\ taken + 1 \in 1..Len(log)
        /\ ~IsStart(taken + 1)
        /\ head' \in {head, "dropped"}
    BY <1>0, <1>5 DEF AcceptBody, StopAtBody, Receives, Exit, IsStart
  <2>2. taken > 0
    BY <1>0, <2>1 DEF ProtocolInLog
  <2>3. QED
    BY <2>1, <2>2 DEF FirstSendsHead
<1>6. CASE WriteBody \/ WriteFails \/ CloseStream
  BY <1>0, <1>6 DEF FirstSendsHead, WriteBody, WriteFails, CloseStream, Exit
<1>7. CASE QueueClosed \/ FutureReturned \/ ResponseTimeout
  BY <1>0, <1>7 DEF FirstSendsHead, QueueClosed, FutureReturned, ResponseTimeout, Exit
<1>8. CASE RaisedBeforeHead \/ RaisedAfterHead \/ CloseAfterRaise
  BY <1>0, <1>8
  DEF FirstSendsHead, RaisedBeforeHead, RaisedAfterHead, CloseAfterRaise, Exit
<1>9. CASE Expire \/ HandleReturns \/ CancelHandle
  BY <1>9
  DEF FirstSendsHead, Expire, HandleReturns, HandleResponse, HandleError, CancelHandle
<1>10. CASE ClientRead \/ ClientLeaves \/ BodyDropped
  BY <1>10 DEF FirstSendsHead, ClientRead, ClientLeaves, BodyDropped, CloseClientEnd
<1>11. CASE UNCHANGED responseVars
  BY <1>11 DEF FirstSendsHead, responseVars
<1>12. QED
  BY <1>1, <1>2, <1>3, <1>4, <1>5, <1>6, <1>7, <1>8, <1>9, <1>10, <1>11
  DEF FirstSendsHead, ResponseNext, Application, ForwardingTask

(* What the steps of the exchange do to a call that is out: nothing, or they *)
(* acknowledge it, or they are one of these.                                 *)
AnswerDropped ==
    \/ IgnoreStart \/ StopAtStart \/ StopAtBody \/ WriteFails \/ CloseStream
    \/ QueueClosed \/ FutureReturned \/ RaisedBeforeHead \/ CloseAfterRaise
    \/ ResponseTimeout

(* The task stops at a message only if that had been given up before.        *)
LEMMA StopMeansGivenUp ==
  ASSUME ResponseInv, SendsAreAcked, compliant, StopAtStart \/ StopAtBody
  PROVE  GivenUp
<1>0. MessagesOK /\ AckedWereTaken /\ HeadFollowsLoop
  BY DEF ResponseInv, ResponseTypeOK
<1>1. /\ loop = "select"
      /\ taken < Len(log)
      /\ handle = "cancelled" \/ awaiting # taken + 1
  BY DEF StopAtStart, StopAtBody, Receives
<1>2. taken + 1 \in 1..Len(log) /\ taken + 1 \notin acked
  BY <1>0, <1>1 DEF MessagesOK, AckedWereTaken
<1>3. QED
  BY <1>1, <1>2 DEF SendsAreAcked, GivenUp

(* None of them leaves the call of a compliant application unanswered,       *)
(* unless the response was given up.                                         *)
LEMMA DroppedOnlyIfGivenUp ==
  ASSUME ResponseInv, ComplianceInv, compliant, awaiting # 0, AnswerDropped,
         [ResponseNext]_responseVars
  PROVE  GivenUp'
<1>0. /\ MessagesOK /\ StatesOK /\ AwaitingIsQueued /\ MessageInHand
      /\ HeadFollowsLoop /\ EndFollowsLoop /\ ErrorIsReportedOnce
      /\ ProtocolInLog /\ AppFollowsProtocol /\ FirstSendsHead
      /\ SendsAreAcked
  BY DEF ResponseInv, ResponseTypeOK, ComplianceInv
<1>1. app = "running"
  BY <1>0 DEF AppFollowsProtocol
<1>2. CASE IgnoreStart
  <2>1. /\ taken + 1 \in 1..Len(log)
        /\ IsStart(taken + 1)
        /\ head # "open" /\ loop = "select"
        /\ taken \in Nat
    BY <1>0, <1>2 DEF IgnoreStart, Receives, IsStart, MessagesOK
  <2>2. head = "ok"
    BY <1>0, <2>1 DEF HeadFollowsLoop
  <2>3. QED
    BY <1>0, <2>1, <2>2 DEF ProtocolInLog, FirstSendsHead
<1>3. CASE StopAtStart \/ StopAtBody
  BY <1>0, <1>3, StopMeansGivenUp, LastingFacts
<1>4. CASE WriteFails
  BY <1>4 DEF WriteFails, GivenUp
<1>5. CASE CloseStream
  <2>1. taken \in 1..Len(log) /\ IsFinal(taken)
    BY <1>0, <1>5 DEF CloseStream, MessageInHand, MessagesOK
  <2>2. taken = Len(log)
    BY <1>0, <2>1 DEF ProtocolInLog
  <2>3. QED
    BY <1>0, <2>2 DEF AwaitingIsQueued, MessagesOK
<1>6. CASE QueueClosed
  BY <1>0, <1>1, <1>6 DEF QueueClosed, AppFollowsProtocol
<1>7. CASE FutureReturned \/ RaisedBeforeHead
  BY <1>1, <1>7 DEF FutureReturned, RaisedBeforeHead
<1>8. CASE CloseAfterRaise
  BY <1>0, <1>1, <1>8 DEF CloseAfterRaise, EndFollowsLoop, ErrorIsReportedOnce
<1>9. CASE ResponseTimeout
  BY <1>9 DEF ResponseTimeout, Exit, GivenUp
<1>10. QED
  BY <1>2, <1>3, <1>4, <1>5, <1>6, <1>7, <1>8, <1>9 DEF AnswerDropped

(* What every other step does to the calls.                                  *)
LEMMA AnswerSteps ==
  ASSUME MessagesOK, [ResponseNext]_responseVars
  PROVE  \/ \E msg \in SendMessages : Send(msg)
         \/ UNCHANGED <<log, awaiting, acked>>
         \/ UNCHANGED log /\ acked' = acked \cup {awaiting}
         \/ UNCHANGED <<log, acked>> /\ (AnswerDropped \/ ~compliant)
<1> USE DEF AnswerDropped
<1>1. ASSUME NEW outcome \in {"returned", "raised"}, Finish(outcome)
      PROVE  UNCHANGED <<log, awaiting, acked>>
  BY <1>1 DEF Finish
<1>2. CASE CancelSend
  BY <1>2 DEF CancelSend
<1>3. CASE ReleaseSender \/ CompleteFuture
  BY <1>3 DEF ReleaseSender, CompleteFuture
<1>4. CASE ForwardStart \/ AcceptBody
  BY <1>4 DEF ForwardStart, AcceptBody, Acked
<1>5. CASE IgnoreStart \/ StopAtStart \/ StopAtBody
  BY <1>5 DEF IgnoreStart, StopAtStart, StopAtBody, AckDropped
<1>6. CASE WriteBody \/ RaisedAfterHead
  BY <1>6 DEF WriteBody, RaisedAfterHead
<1>7. CASE WriteFails \/ CloseStream \/ QueueClosed
  BY <1>7 DEF WriteFails, CloseStream, QueueClosed
<1>8. CASE FutureReturned \/ RaisedBeforeHead \/ CloseAfterRaise \/ ResponseTimeout
  BY <1>8 DEF FutureReturned, RaisedBeforeHead, CloseAfterRaise, ResponseTimeout
<1>9. CASE Expire \/ HandleReturns \/ CancelHandle
  BY <1>9 DEF Expire, HandleReturns, HandleResponse, HandleError, CancelHandle
<1>10. CASE ClientRead \/ ClientLeaves \/ BodyDropped
  BY <1>10 DEF ClientRead, ClientLeaves, BodyDropped, CloseClientEnd
<1>11. CASE UNCHANGED responseVars
  BY <1>11 DEF responseVars
<1>12. QED
  BY <1>1, <1>2, <1>3, <1>4, <1>5, <1>6, <1>7, <1>8, <1>9, <1>10, <1>11
  DEF ResponseNext, Application, ForwardingTask

LEMMA SendsAreAckedStep ==
  ASSUME ResponseInv, ComplianceInv, [ResponseNext]_responseVars
  PROVE  SendsAreAcked'
<1>0. /\ MessagesOK /\ SendsAreAcked
      /\ compliant' = compliant
      /\ GivenUp => GivenUp'
  BY LastingFacts DEF ResponseInv, ResponseTypeOK, ComplianceInv
<1> SUFFICES ASSUME compliant, NEW i \in 1..Len(log'), ~GivenUp'
             PROVE  i \in acked' \/ i = awaiting'
  BY <1>0 DEF SendsAreAcked
<1>1. i \in 1..Len(log) => i \in acked \/ i = awaiting
  BY <1>0 DEF SendsAreAcked
<1>2. ASSUME NEW msg \in SendMessages, Send(msg)
      PROVE  i \in acked' \/ i = awaiting'
  BY <1>0, <1>1, <1>2 DEF Send, MessagesOK
<1>3. CASE UNCHANGED <<log, awaiting, acked>>
  BY <1>1, <1>3
<1>4. CASE UNCHANGED log /\ acked' = acked \cup {awaiting}
  BY <1>1, <1>4
<1>5. CASE UNCHANGED <<log, acked>> /\ AnswerDropped
  <2>1. awaiting = 0
    BY <1>5, DroppedOnlyIfGivenUp
  <2>2. QED
    BY <1>0, <1>1, <1>5, <2>1 DEF MessagesOK
<1>6. QED
  BY <1>0, <1>2, <1>3, <1>4, <1>5, AnswerSteps

(* How the task of such an application ends.                                 *)
LEMMA EndIsAccountedStep ==
  ASSUME ResponseInv, ComplianceInv, [ResponseNext]_responseVars
  PROVE  EndIsAccounted'
<1>0. /\ EndIsAccounted /\ AppFollowsProtocol /\ SendsAreAcked
      /\ compliant' = compliant
      /\ GivenUp => GivenUp'
      /\ app # "running" => app' = app
  BY LastingFacts DEF ComplianceInv
<1> SUFFICES ASSUME compliant, loop' = "done", app' # "returned"
             PROVE  exception' \/ head' = "pyerror" \/ ended' \/ GivenUp'
  BY <1>0 DEF EndIsAccounted
<1>1. CASE loop = "done"
  <2>1. UNCHANGED <<ended, exception, head>> /\ app # "returned"
    BY <1>0, <1>1, DoneSteps
  <2>2. QED
    BY <1>0, <1>1, <2>1 DEF EndIsAccounted
<1>2. ASSUME loop # "done"
      PROVE  \/ AnswerDropped
             \/ loop' # "done"
  <2>1. ASSUME NEW msg \in SendMessages, Send(msg)
        PROVE  loop' # "done"
    BY <1>2, <2>1 DEF Send
  <2>2. CASE ForwardStart \/ AcceptBody
    BY <1>2, <2>2 DEF ForwardStart, AcceptBody, Receives, AfterAck
  <2>3. CASE WriteBody \/ RaisedAfterHead
    BY <1>2, <2>3 DEF WriteBody, AfterWrite, RaisedAfterHead
  <2>4. CASE CancelSend \/ ReleaseSender \/ CompleteFuture
    BY <1>2, <2>4 DEF CancelSend, ReleaseSender, CompleteFuture
  <2>5. ASSUME NEW outcome \in {"returned", "raised"}, Finish(outcome)
        PROVE  loop' # "done"
    BY <1>2, <2>5 DEF Finish
  <2>6. CASE Expire \/ HandleReturns \/ CancelHandle
    BY <1>2, <2>6 DEF Expire, HandleReturns, HandleResponse, HandleError, CancelHandle
  <2>7. CASE ClientRead \/ ClientLeaves \/ BodyDropped
    BY <1>2, <2>7 DEF ClientRead, ClientLeaves, BodyDropped, CloseClientEnd
  <2>8. CASE UNCHANGED responseVars
    BY <1>2, <2>8 DEF responseVars
  <2>9. QED
    BY <2>1, <2>2, <2>3, <2>4, <2>5, <2>6, <2>7, <2>8
    DEF AnswerDropped, ResponseNext, Application, ForwardingTask
<1>3. CASE IgnoreStart
  BY <1>1, <1>3 DEF IgnoreStart
<1>4. CASE StopAtStart \/ StopAtBody
  BY <1>0, <1>4, StopMeansGivenUp
<1>5. CASE WriteFails
  BY <1>5 DEF WriteFails, GivenUp
<1>6. CASE CloseStream \/ CloseAfterRaise
  BY <1>6, Zenon DEF CloseStream, CloseAfterRaise
<1>7. CASE QueueClosed
  BY <1>0, <1>7 DEF QueueClosed, AppFollowsProtocol
<1>8. CASE FutureReturned
  BY <1>8 DEF FutureReturned
<1>9. CASE RaisedBeforeHead \/ ResponseTimeout
  BY <1>9 DEF RaisedBeforeHead, ResponseTimeout, Exit, GivenUp
<1>10. QED
  BY <1>1, <1>2, <1>3, <1>4, <1>5, <1>6, <1>7, <1>8, <1>9 DEF AnswerDropped

-----------------------------------------------------------------------------
(* The chunk in hand, for every application.                                 *)

LEMMA AcceptedIsFinite ==
  ASSUME MessagesOK
  PROVE  IsFiniteSet(AcceptedData) /\ Cardinality(AcceptedData) \in Nat
<1>1. IsFiniteSet(1..Len(log))
  BY FS_Interval DEF MessagesOK
<1>2. AcceptedData \in SUBSET (1..Len(log))
  BY DEF MessagesOK, AcceptedData
<1>3. QED
  BY <1>1, <1>2, FS_Subset, FS_CardinalityType

(* A body message with data counts when it is acknowledged; nothing else     *)
(* changes the count.                                                        *)
LEMMA AcceptingSteps ==
  ASSUME ResponseInv, [ResponseNext]_responseVars
  PROVE  IF AcceptBody /\ HasData(taken + 1)
         THEN Cardinality(AcceptedData') = Cardinality(AcceptedData) + 1
         ELSE AcceptedData' = AcceptedData
<1>0. MessagesOK /\ AckedWereTaken
  BY DEF ResponseInv, ResponseTypeOK
<1>1. ASSUME NEW msg \in SendMessages, Send(msg)
      PROVE  AcceptedData' = AcceptedData /\ ~AcceptBody
  <2>1. /\ acked' = acked
        /\ \A i \in acked : log'[i] = log[i]
    BY <1>0, <1>1, SendKeepsLog DEF MessagesOK
  <2>2. ~AcceptBody
    BY <1>0, <1>1 DEF Send, AcceptBody, MessagesOK
  <2>3. QED
    BY <2>1, <2>2 DEF AcceptedData, HasData
<1>2. CASE AcceptBody
  <2>1. /\ acked' = acked \cup {taken + 1}
        /\ log' = log
    BY <1>2 DEF AcceptBody, Acked
  <2>2. taken + 1 \notin acked
    BY <1>0 DEF MessagesOK, AckedWereTaken
  <2>3. CASE HasData(taken + 1)
    <3>1. AcceptedData' = AcceptedData \cup {taken + 1}
      BY <2>1, <2>3 DEF AcceptedData, HasData
    <3>2. taken + 1 \notin AcceptedData
      BY <2>2 DEF AcceptedData
    <3>3. Cardinality(AcceptedData \cup {taken + 1}) = Cardinality(AcceptedData) + 1
      BY <1>0, <3>2, AcceptedIsFinite, FS_AddElement
    <3>4. QED
      BY <1>2, <2>3, <3>1, <3>3
  <2>4. CASE ~HasData(taken + 1)
    <3>1. AcceptedData' = AcceptedData
      BY <2>1, <2>4 DEF AcceptedData, HasData
    <3>2. QED
      BY <2>4, <3>1
  <2>5. QED
    BY <2>3, <2>4
<1>3. CASE ForwardStart \/ StopAtStart \/ IgnoreStart
  <2>1. /\ acked' \in {acked, acked \cup {taken + 1}}
        /\ log' = log
        /\ ~HasData(taken + 1)
    BY <1>3
    DEF ForwardStart, StopAtStart, IgnoreStart, Receives, Acked, AckDropped, HasData
  <2>2. QED
    BY <2>1 DEF AcceptedData, HasData
<1>4. ASSUME ~AcceptBody, UNCHANGED <<log, acked>>
      PROVE  AcceptedData' = AcceptedData
  BY <1>4 DEF AcceptedData, HasData
<1>5. CASE StopAtBody \/ WriteBody
  <2>1. UNCHANGED <<log, acked>>
    BY <1>5 DEF StopAtBody, WriteBody
  <2>2. QED
    BY <1>2, <1>4, <2>1
<1>6. CASE Quiet
  BY <1>2, <1>4, <1>6 DEF Quiet
<1>7. QED
  BY <1>1, <1>2, <1>3, <1>5, <1>6, QuietSteps

LEMMA ChunkInHandStep ==
  ASSUME ResponseInv, ChunkInHand, [ResponseNext]_responseVars
  PROVE  ChunkInHand'
<1> DEFINE count == Cardinality(AcceptedData)
<1>0. /\ MessagesOK /\ StatesOK
      /\ count \in Nat /\ Len(stream) \in Nat
  BY AcceptedIsFinite DEF ResponseInv, ResponseTypeOK, MessagesOK
<1>1. CASE AcceptBody /\ HasData(taken + 1)
  <2>1. count' = count + 1
    BY <1>1, AcceptingSteps
  <2>2. /\ loop = "select" /\ loop' = "write"
        /\ Len(stream') = Len(stream)
    BY <1>1 DEF AcceptBody, Receives, AfterAck
  <2>3. QED
    BY <1>0, <2>1, <2>2 DEF ChunkInHand
<1>2. ASSUME ~(AcceptBody /\ HasData(taken + 1))
      PROVE  count' = count
  BY <1>2, AcceptingSteps
<1>3. CASE AcceptBody /\ ~HasData(taken + 1)
  <2>1. /\ loop = "select" /\ loop' \in {"select", "close"}
        /\ Len(stream') = Len(stream)
    BY <1>3 DEF AcceptBody, Receives, AfterAck
  <2>2. QED
    BY <1>0, <1>2, <1>3, <2>1 DEF ChunkInHand
<1>4. CASE WriteBody
  <2>1. /\ loop = "write" /\ loop' \in {"select", "close"}
        /\ Len(stream') = Len(stream) + 1
        /\ ~AcceptBody
    BY <1>0, <1>4 DEF WriteBody, AfterWrite, MessagesOK, AcceptBody, Receives
  <2>2. QED
    BY <1>0, <1>2, <2>1 DEF ChunkInHand
<1>5. ASSUME ~AcceptBody, UNCHANGED stream,
             \/ loop' = loop
             \/ loop' = "done"
             \/ loop = "select" /\ loop' = "raise"
      PROVE  ChunkInHand'
  BY <1>0, <1>2, <1>5 DEF ChunkInHand, StatesOK
<1>6. CASE \E msg \in SendMessages : Send(msg)
  BY <1>0, <1>1, <1>3, <1>5, <1>6 DEF Send
<1>7. CASE ForwardStart \/ StopAtStart \/ IgnoreStart \/ StopAtBody
  BY <1>1, <1>3, <1>5, <1>7
  DEF ForwardStart, StopAtStart, IgnoreStart, StopAtBody, Exit
<1>8. CASE Quiet
  BY <1>1, <1>3, <1>5, <1>8 DEF Quiet
<1>9. QED
  BY <1>1, <1>3, <1>4, <1>6, <1>7, <1>8, QuietSteps

LEMMA ComplianceStep ==
  ResponseInv /\ ComplianceInv /\ [ResponseNext]_responseVars => ComplianceInv'
<1> SUFFICES ASSUME ResponseInv, ComplianceInv, [ResponseNext]_responseVars
             PROVE  ComplianceInv'
  OBVIOUS
<1>1. ProtocolInLog' /\ AppFollowsProtocol' /\ FirstSendsHead'
  BY ProtocolStep, AppFollowsStep, FirstSendsHeadStep DEF ComplianceInv
<1>2. SendsAreAcked' /\ EndIsAccounted'
  BY SendsAreAckedStep, EndIsAccountedStep
<1>3. ChunkInHand'
  BY ChunkInHandStep DEF ComplianceInv
<1>4. QED
  BY <1>1, <1>2, <1>3 DEF ComplianceInv

(* What an application that keeps to the protocol can rely on: where its      *)
(* messages are, how the task ends, and that one chunk at most is in hand.   *)
THEOREM ComplianceHolds == ResponseSpec => []ComplianceInv
  BY InitCompliance, ComplianceStep, InvariantHolds, PTL DEF ResponseSpec

(* A compliant application loses no message to the race of its future with   *)
(* the queue or to the arm for a second response.start: a send() of its that *)
(* raises means that the response had been given up.                         *)
THEOREM EverySendIsAcked == ResponseSpec => []SendsAreAcked
<1>1. ComplianceInv => SendsAreAcked
  BY DEF ComplianceInv
<1>2. QED
  BY <1>1, ComplianceHolds, PTL

(* The exception of a compliant application is not swallowed when the task   *)
(* ends, whichever branch of its select! comes first.                        *)
THEOREM EveryRaiseIsReported == ResponseSpec => []RaiseIsReported
<1>1. ComplianceInv => RaiseIsReported
  BY DEF ComplianceInv, EndIsAccounted, RaiseIsReported
<1>2. QED
  BY <1>1, ComplianceHolds, PTL

-----------------------------------------------------------------------------
(* The response path implements its contract.                                *)

(* The steps that leave everything the contract speaks of as it is. *)
LEMMA ContractStutters ==
  ASSUME UNCHANGED <<compliant, head, stream, ended>>,
         AcceptedData' = AcceptedData,
         ended => exception' = exception
  PROVE  UNCHANGED Contract!contractVars
  BY DEF Contract!contractVars, Outcome, Ending

(* The task ends without touching the stream: what was pending is decided.   *)
LEMMA ExitDecides ==
  ASSUME NEW result, Exit(result), head' # "open",
         result # head => head = "open",
         UNCHANGED <<compliant, stream, ended, exception>>,
         AcceptedData' = AcceptedData
  PROVE  [Contract!Next]_(Contract!contractVars)
<1>1. CASE head = "open"
  <2>1. Outcome = "pending" /\ Outcome' \in {"response", "failure"}
    BY <1>1 DEF Outcome
  <2>2. Contract!Decide
    BY <2>1 DEF Contract!Decide, Ending
  <2>3. QED
    BY <2>2 DEF Contract!Next
<1>2. CASE head # "open"
  <2>1. head' = head
    BY <1>2 DEF Exit
  <2>2. QED
    BY <2>1, ContractStutters
<1>3. QED
  BY <1>1, <1>2

(* The stream is shut down with everything accepted in it.                   *)
LEMMA ClosingFinishes ==
  ASSUME ResponseInv, ComplianceInv, CloseStream \/ CloseAfterRaise
  PROVE  Contract!Finish
<1>0. /\ StatesOK /\ MessagesOK /\ MessageInHand /\ HeadFollowsLoop
      /\ EndFollowsLoop /\ ErrorIsReportedOnce
      /\ FirstSendsHead /\ ChunkInHand
      /\ Len(stream) \in Nat /\ Cardinality(AcceptedData) \in Nat
  BY AcceptedIsFinite DEF ResponseInv, ResponseTypeOK, ComplianceInv, MessagesOK
<1>1. /\ loop \in {"close", "raise"}
      /\ UNCHANGED <<compliant, log, acked, stream, exception>>
      /\ ended' = TRUE
      /\ head' = IF head = "open" THEN "dropped" ELSE head
  BY Zenon DEF CloseStream, CloseAfterRaise, Exit
<1>2. /\ head \in {"open", "ok"}
      /\ ~ended
  BY <1>0, <1>1 DEF HeadFollowsLoop, EndFollowsLoop
<1>3. compliant => head = "ok"
  <2>1. CASE loop = "close"
    BY <1>0, <1>2, <2>1 DEF MessageInHand, FirstSendsHead
  <2>2. CASE loop = "raise"
    BY <1>0, <2>2 DEF EndFollowsLoop, ErrorIsReportedOnce
  <2>3. QED
    BY <1>1, <2>1, <2>2
<1>4. Contract!Streaming
  BY <1>2, <1>3 DEF Contract!Streaming, Outcome, Ending
<1>5. Cardinality(AcceptedData) = Len(stream)
  BY <1>0, <1>1 DEF ChunkInHand
<1>6. AcceptedData' = AcceptedData
  BY <1>1 DEF AcceptedData, HasData
<1>7. Ending' \in {"complete", "broken"}
  BY <1>1 DEF Ending
<1>8. Outcome' = IF Outcome = "pending" THEN "failure" ELSE Outcome
  BY <1>1, <1>2 DEF Outcome
<1>9. QED
  BY <1>1, <1>4, <1>5, <1>6, <1>7, <1>8 DEF Contract!Finish

(* A chunk is accepted only when the one before it is in the stream.         *)
LEMMA AcceptingAccepts ==
  ASSUME ResponseInv, ComplianceInv, AcceptBody, HasData(taken + 1),
         [ResponseNext]_responseVars
  PROVE  Contract!Accept
<1>0. /\ MessagesOK /\ HeadFollowsLoop /\ EndFollowsLoop
      /\ ProtocolInLog /\ FirstSendsHead /\ ChunkInHand
      /\ Len(stream) \in Nat /\ Cardinality(AcceptedData) \in Nat
  BY AcceptedIsFinite DEF ResponseInv, ResponseTypeOK, ComplianceInv, MessagesOK
<1>1. /\ loop = "select"
      /\ taken + 1 \in 1..Len(log)
      /\ ~IsStart(taken + 1)
      /\ taken \in Nat
      /\ UNCHANGED <<compliant, head, stream, ended, exception>>
  BY <1>0 DEF AcceptBody, Receives, MessagesOK, IsStart
<1>2. head \in {"open", "ok"} /\ ~ended
  BY <1>0, <1>1 DEF HeadFollowsLoop, EndFollowsLoop
<1>3. compliant => head = "ok"
  BY <1>0, <1>1, <1>2 DEF ProtocolInLog, FirstSendsHead
<1>4. Contract!Streaming
  BY <1>2, <1>3 DEF Contract!Streaming, Outcome, Ending
<1>5. Cardinality(AcceptedData) = Len(stream)
  BY <1>0, <1>1 DEF ChunkInHand
<1>6. Cardinality(AcceptedData') = Cardinality(AcceptedData) + 1
  BY AcceptingSteps
<1>7. QED
  BY <1>1, <1>4, <1>5, <1>6 DEF Contract!Accept, Outcome, Ending

(* Writing delivers the chunk that was accepted.                             *)
LEMMA WritingDelivers ==
  ASSUME ResponseInv, ComplianceInv, WriteBody
  PROVE  Contract!Deliver
<1>0. /\ MessagesOK /\ MessageInHand /\ HeadFollowsLoop /\ EndFollowsLoop
      /\ FirstSendsHead /\ ChunkInHand
      /\ Len(stream) \in Nat /\ Cardinality(AcceptedData) \in Nat
  BY AcceptedIsFinite DEF ResponseInv, ResponseTypeOK, ComplianceInv, MessagesOK
<1>1. /\ loop = "write"
      /\ Len(stream') = Len(stream) + 1
      /\ UNCHANGED <<compliant, log, acked, head, ended, exception>>
  BY <1>0 DEF WriteBody, MessagesOK
<1>2. head \in {"open", "ok"} /\ ~ended /\ taken > 0
  BY <1>0, <1>1 DEF HeadFollowsLoop, EndFollowsLoop, MessageInHand
<1>3. compliant => head = "ok"
  BY <1>0, <1>2 DEF FirstSendsHead
<1>4. Contract!Streaming
  BY <1>2, <1>3 DEF Contract!Streaming, Outcome, Ending
<1>5. Cardinality(AcceptedData) = Len(stream) + 1
  BY <1>0, <1>1 DEF ChunkInHand
<1>6. AcceptedData' = AcceptedData
  BY <1>1 DEF AcceptedData, HasData
<1>7. QED
  BY <1>0, <1>1, <1>4, <1>5, <1>6 DEF Contract!Deliver, Outcome, Ending

(* Every step is a step of the contract or changes nothing in it.            *)
LEMMA ContractStep ==
  ASSUME ResponseInv, ComplianceInv, [ResponseNext]_responseVars
  PROVE  [Contract!Next]_(Contract!contractVars)
<1>0. /\ HeadFollowsLoop' /\ EndFollowsLoop /\ StatesOK
      /\ ResponseInv'
  BY ResponseInvStep DEF ResponseInv, ResponseTypeOK
<1>1. ASSUME ~(AcceptBody /\ HasData(taken + 1))
      PROVE  AcceptedData' = AcceptedData
  BY <1>1, AcceptingSteps
<1>2. CASE AcceptBody /\ HasData(taken + 1)
  BY <1>2, AcceptingAccepts DEF Contract!Next
<1>3. CASE WriteBody
  BY <1>3, WritingDelivers DEF Contract!Next
<1>4. CASE CloseStream \/ CloseAfterRaise
  BY <1>4, ClosingFinishes DEF Contract!Next
<1>5. CASE ForwardStart
  <2>1. /\ head = "open" /\ head' = "ok"
        /\ UNCHANGED <<compliant, stream, ended, exception>>
        /\ ~(AcceptBody /\ HasData(taken + 1))
    BY <1>5 DEF ForwardStart, Receives, HasData
  <2>2. Contract!Decide
    BY <1>1, <2>1 DEF Contract!Decide, Outcome, Ending
  <2>3. QED
    BY <2>2 DEF Contract!Next
<1>6. ASSUME NEW result, Exit(result),
             result # head => head = "open",
             UNCHANGED <<compliant, stream, ended, exception>>,
             ~(AcceptBody /\ HasData(taken + 1))
      PROVE  [Contract!Next]_(Contract!contractVars)
  <2>1. head' # "open"
    BY <1>0, <1>6 DEF Exit, HeadFollowsLoop
  <2>2. QED
    BY <1>1, <1>6, <2>1, ExitDecides
<1>7. CASE StopAtStart
  BY <1>6, <1>7 DEF StopAtStart, Receives, HasData
<1>8. CASE StopAtBody
  BY <1>6, <1>8 DEF StopAtBody, AcceptBody, Acked
<1>9. ASSUME \/ WriteFails \/ QueueClosed \/ FutureReturned
      PROVE  [Contract!Next]_(Contract!contractVars)
  <2>1. /\ Exit(head)
        /\ UNCHANGED <<compliant, taken, stream, ended, exception>>
    BY <1>9 DEF WriteFails, QueueClosed, FutureReturned
  <2>2. QED
    BY <1>2, <1>6, <2>1
<1>10. CASE RaisedBeforeHead
  <2>1. /\ Exit("pyerror") /\ head = "open"
        /\ UNCHANGED <<compliant, stream, ended, exception>>
    BY <1>10 DEF RaisedBeforeHead
  <2>2. QED
    BY <1>2, <1>6, <2>1
<1>11. CASE ResponseTimeout
  <2>1. /\ Exit("timeout") /\ head = "open"
        /\ UNCHANGED <<compliant, stream, ended, exception>>
    BY <1>11 DEF ResponseTimeout
  <2>2. QED
    BY <1>2, <1>6, <2>1
<1>12. ASSUME UNCHANGED <<compliant, head, stream, ended>>,
              ended => exception' = exception
       PROVE  [Contract!Next]_(Contract!contractVars)
  BY <1>1, <1>2, <1>12, ContractStutters
<1>13. CASE AcceptBody
  BY <1>12, <1>13 DEF AcceptBody
<1>14. CASE IgnoreStart
  BY <1>12, <1>14 DEF IgnoreStart
<1>15. CASE RaisedAfterHead
  <2>1. UNCHANGED <<compliant, head, stream, ended>> /\ ~ended
    BY <1>0, <1>15 DEF RaisedAfterHead, EndFollowsLoop
  <2>2. QED
    BY <1>12, <2>1
<1>16. ASSUME NEW msg \in SendMessages, Send(msg)
       PROVE  [Contract!Next]_(Contract!contractVars)
  BY <1>12, <1>16 DEF Send
<1>17. ASSUME NEW outcome \in {"returned", "raised"}, Finish(outcome)
       PROVE  [Contract!Next]_(Contract!contractVars)
  BY <1>12, <1>17 DEF Finish
<1>18. CASE CancelSend \/ ReleaseSender \/ CompleteFuture
  BY <1>12, <1>18 DEF CancelSend, ReleaseSender, CompleteFuture
<1>19. CASE Expire \/ HandleReturns \/ CancelHandle
  BY <1>12, <1>19 DEF Expire, HandleReturns, HandleResponse, HandleError, CancelHandle
<1>20. CASE ClientRead \/ ClientLeaves \/ BodyDropped
  BY <1>12, <1>20 DEF ClientRead, ClientLeaves, BodyDropped, CloseClientEnd
<1>21. CASE UNCHANGED responseVars
  BY <1>12, <1>21 DEF responseVars
<1>22. QED
  BY <1>3, <1>4, <1>5, <1>7, <1>8, <1>9, <1>10, <1>11, <1>13, <1>14, <1>15,
     <1>16, <1>17, <1>18, <1>19, <1>20, <1>21
  DEF ResponseNext, Application, ForwardingTask

(* Queue, oneshot, select! loop and timer keep what the contract promises:   *)
(* one decision, a chunk accepted only when the one before it is delivered,  *)
(* one end with everything accepted in it. That the head of a compliant      *)
(* application is decided at all is the liveness part, left to TLC.          *)
THEOREM ResponseContractHolds == ResponseSpec => Contract!Spec
<1>1. ResponseInit => Contract!Init
  <2> SUFFICES ASSUME ResponseInit
               PROVE  Contract!Init
    OBVIOUS
  <2>1. AcceptedData = {} /\ Len(stream) = 0 /\ head = "open"
        /\ ended = FALSE /\ compliant \in BOOLEAN
    BY DEF ResponseInit, AcceptedData
  <2>2. Cardinality(AcceptedData) = 0
    BY <2>1, FS_EmptySet
  <2>3. QED
    BY <2>1, <2>2 DEF Contract!Init, Outcome, Ending
<1>2. ResponseInv /\ ComplianceInv /\ [ResponseNext]_responseVars
        => [Contract!Next]_(Contract!contractVars)
  BY ContractStep
<1>3. QED
  BY <1>1, <1>2, InvariantHolds, ComplianceHolds, PTL DEF ResponseSpec, Contract!Spec

=============================================================================
