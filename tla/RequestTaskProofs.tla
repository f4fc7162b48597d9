-------------------------- MODULE RequestTaskProofs --------------------------
(***************************************************************************)
(* Proofs about RequestTask, for any request body, any number of messages  *)
(* and streams of any capacity: each half of the exchange behaves in the   *)
(* composition as it does on its own, so what HttpRequestBodyProofs and    *)
(* HttpResponseProofs prove holds of it, and a buffered result is whole.   *)
(***************************************************************************)
EXTENDS RequestTask, TLAPS

\* The theorems about the two halves. An instance has definitions of its own:
\* they are the same as those of Req and Resp.
ReqProofs == INSTANCE HttpRequestBodyProofs
RespProofs == INSTANCE HttpResponseProofs

-----------------------------------------------------------------------------
(* The instances are the same. *)

LEMMA SameResponseSteps == Resp!ResponseNext <=> RespProofs!ResponseNext
<1>1. Resp!SendMessages = RespProofs!SendMessages
  BY DEF Resp!SendMessages, RespProofs!SendMessages, Resp!Start, RespProofs!Start,
         Resp!Body, RespProofs!Body
<1>2. ASSUME NEW msg
      PROVE  Resp!Send(msg) <=> RespProofs!Send(msg)
  BY Zenon DEF Resp!Send, RespProofs!Send, Resp!Conforms, RespProofs!Conforms,
               Resp!Bound, RespProofs!Bound, Resp!IsFinal, RespProofs!IsFinal,
               Resp!loopVars, RespProofs!loopVars, Resp!streamVars,
               RespProofs!streamVars, Resp!clientVars, RespProofs!clientVars
<1>3. ASSUME NEW outcome
      PROVE  Resp!Finish(outcome) <=> RespProofs!Finish(outcome)
  BY Zenon DEF Resp!Finish, RespProofs!Finish, Resp!ackVars, RespProofs!ackVars,
               Resp!loopVars, RespProofs!loopVars, Resp!streamVars,
               RespProofs!streamVars, Resp!clientVars, RespProofs!clientVars
<1>4. Resp!CancelSend <=> RespProofs!CancelSend
  BY Zenon DEF Resp!CancelSend, RespProofs!CancelSend, Resp!appVars,
               RespProofs!appVars, Resp!ackVars, RespProofs!ackVars,
               Resp!loopVars, RespProofs!loopVars, Resp!streamVars,
               RespProofs!streamVars, Resp!clientVars, RespProofs!clientVars
<1>5. Resp!ReleaseSender <=> RespProofs!ReleaseSender
  BY Zenon DEF Resp!ReleaseSender, RespProofs!ReleaseSender, Resp!appVars,
               RespProofs!appVars, Resp!ackVars, RespProofs!ackVars,
               Resp!loopVars, RespProofs!loopVars, Resp!streamVars,
               RespProofs!streamVars, Resp!clientVars, RespProofs!clientVars
<1>6. Resp!CompleteFuture <=> RespProofs!CompleteFuture
  BY Zenon DEF Resp!CompleteFuture, RespProofs!CompleteFuture, Resp!appVars,
               RespProofs!appVars, Resp!ackVars, RespProofs!ackVars,
               Resp!loopVars, RespProofs!loopVars, Resp!streamVars,
               RespProofs!streamVars, Resp!clientVars, RespProofs!clientVars
<1>7. Resp!ForwardStart <=> RespProofs!ForwardStart
  BY Zenon DEF Resp!ForwardStart, RespProofs!ForwardStart, Resp!Receives,
               RespProofs!Receives, Resp!Acked, RespProofs!Acked, Resp!appVars,
               RespProofs!appVars, Resp!ackVars, RespProofs!ackVars,
               Resp!loopVars, RespProofs!loopVars, Resp!streamVars,
               RespProofs!streamVars, Resp!clientVars, RespProofs!clientVars
<1>8. Resp!StopAtStart <=> RespProofs!StopAtStart
  BY Zenon DEF Resp!StopAtStart, RespProofs!StopAtStart, Resp!Receives,
               RespProofs!Receives, Resp!Exit, RespProofs!Exit, Resp!appVars,
               RespProofs!appVars, Resp!ackVars, RespProofs!ackVars,
               Resp!loopVars, RespProofs!loopVars, Resp!streamVars,
               RespProofs!streamVars, Resp!clientVars, RespProofs!clientVars
<1>9. Resp!IgnoreStart <=> RespProofs!IgnoreStart
  BY Zenon DEF Resp!IgnoreStart, RespProofs!IgnoreStart, Resp!Receives,
               RespProofs!Receives, Resp!AckDropped, RespProofs!AckDropped,
               Resp!appVars, RespProofs!appVars, Resp!ackVars,
               RespProofs!ackVars, Resp!loopVars, RespProofs!loopVars,
               Resp!streamVars, RespProofs!streamVars, Resp!clientVars,
               RespProofs!clientVars
<1>10. Resp!AcceptBody <=> RespProofs!AcceptBody
  BY Zenon DEF Resp!AcceptBody, RespProofs!AcceptBody, Resp!Receives,
               RespProofs!Receives, Resp!Acked, RespProofs!Acked, Resp!AfterAck,
               RespProofs!AfterAck, Resp!IsFinal, RespProofs!IsFinal,
               Resp!HasData, RespProofs!HasData, Resp!appVars,
               RespProofs!appVars, Resp!ackVars, RespProofs!ackVars,
               Resp!loopVars, RespProofs!loopVars, Resp!streamVars,
               RespProofs!streamVars, Resp!clientVars, RespProofs!clientVars
<1>11. Resp!StopAtBody <=> RespProofs!StopAtBody
  BY Zenon DEF Resp!StopAtBody, RespProofs!StopAtBody, Resp!Receives,
               RespProofs!Receives, Resp!Exit, RespProofs!Exit, Resp!appVars,
               RespProofs!appVars, Resp!ackVars, RespProofs!ackVars,
               Resp!loopVars, RespProofs!loopVars, Resp!streamVars,
               RespProofs!streamVars, Resp!clientVars, RespProofs!clientVars
<1>12. Resp!WriteBody <=> RespProofs!WriteBody
  BY Zenon DEF Resp!WriteBody, RespProofs!WriteBody, Resp!AfterWrite,
               RespProofs!AfterWrite, Resp!IsFinal, RespProofs!IsFinal,
               Resp!appVars, RespProofs!appVars, Resp!ackVars,
               RespProofs!ackVars, Resp!loopVars, RespProofs!loopVars,
               Resp!streamVars, RespProofs!streamVars, Resp!clientVars,
               RespProofs!clientVars
<1>13. Resp!WriteFails <=> RespProofs!WriteFails
  BY Zenon DEF Resp!WriteFails, RespProofs!WriteFails, Resp!Exit,
               RespProofs!Exit, Resp!appVars, RespProofs!appVars, Resp!ackVars,
               RespProofs!ackVars, Resp!loopVars, RespProofs!loopVars,
               Resp!streamVars, RespProofs!streamVars, Resp!clientVars,
               RespProofs!clientVars
<1>14. Resp!CloseStream <=> RespProofs!CloseStream
  BY Zenon DEF Resp!CloseStream, RespProofs!CloseStream, Resp!Exit,
               RespProofs!Exit, Resp!appVars, RespProofs!appVars, Resp!ackVars,
               RespProofs!ackVars, Resp!loopVars, RespProofs!loopVars,
               Resp!streamVars, RespProofs!streamVars, Resp!clientVars,
               RespProofs!clientVars
<1>15. Resp!QueueClosed <=> RespProofs!QueueClosed
  BY Zenon DEF Resp!QueueClosed, RespProofs!QueueClosed, Resp!Exit,
               RespProofs!Exit, Resp!appVars, RespProofs!appVars, Resp!ackVars,
               RespProofs!ackVars, Resp!loopVars, RespProofs!loopVars,
               Resp!streamVars, RespProofs!streamVars, Resp!clientVars,
               RespProofs!clientVars
<1>16. Resp!FutureReturned <=> RespProofs!FutureReturned
  BY Zenon DEF Resp!FutureReturned, RespProofs!FutureReturned, Resp!Exit,
               RespProofs!Exit, Resp!appVars, RespProofs!appVars, Resp!ackVars,
               RespProofs!ackVars, Resp!loopVars, RespProofs!loopVars,
               Resp!streamVars, RespProofs!streamVars, Resp!clientVars,
               RespProofs!clientVars
<1>17. Resp!RaisedBeforeHead <=> RespProofs!RaisedBeforeHead
  BY Zenon DEF Resp!RaisedBeforeHead, RespProofs!RaisedBeforeHead, Resp!Exit,
               RespProofs!Exit, Resp!appVars, RespProofs!appVars, Resp!ackVars,
               RespProofs!ackVars, Resp!loopVars, RespProofs!loopVars,
               Resp!streamVars, RespProofs!streamVars, Resp!clientVars,
               RespProofs!clientVars
<1>18. Resp!RaisedAfterHead <=> RespProofs!RaisedAfterHead
  BY Zenon DEF Resp!RaisedAfterHead, RespProofs!RaisedAfterHead, Resp!appVars,
               RespProofs!appVars, Resp!ackVars, RespProofs!ackVars,
               Resp!loopVars, RespProofs!loopVars, Resp!streamVars,
               RespProofs!streamVars, Resp!clientVars, RespProofs!clientVars
<1>19. Resp!CloseAfterRaise <=> RespProofs!CloseAfterRaise
  BY Zenon DEF Resp!CloseAfterRaise, RespProofs!CloseAfterRaise, Resp!Exit,
               RespProofs!Exit, Resp!appVars, RespProofs!appVars, Resp!ackVars,
               RespProofs!ackVars, Resp!loopVars, RespProofs!loopVars,
               Resp!streamVars, RespProofs!streamVars, Resp!clientVars,
               RespProofs!clientVars
<1>20. Resp!ResponseTimeout <=> RespProofs!ResponseTimeout
  BY Zenon DEF Resp!ResponseTimeout, RespProofs!ResponseTimeout, Resp!Exit,
               RespProofs!Exit, Resp!appVars, RespProofs!appVars, Resp!ackVars,
               RespProofs!ackVars, Resp!loopVars, RespProofs!loopVars,
               Resp!streamVars, RespProofs!streamVars, Resp!clientVars,
               RespProofs!clientVars
<1>21. Resp!Expire <=> RespProofs!Expire
  BY Zenon DEF Resp!Expire, RespProofs!Expire, Resp!appVars, RespProofs!appVars,
               Resp!ackVars, RespProofs!ackVars, Resp!loopVars,
               RespProofs!loopVars, Resp!streamVars, RespProofs!streamVars,
               Resp!clientVars, RespProofs!clientVars
<1>22. Resp!HandleResponse <=> RespProofs!HandleResponse
  BY Zenon DEF Resp!HandleResponse, RespProofs!HandleResponse, Resp!appVars,
               RespProofs!appVars, Resp!ackVars, RespProofs!ackVars,
               Resp!loopVars, RespProofs!loopVars, Resp!streamVars,
               RespProofs!streamVars, Resp!clientVars, RespProofs!clientVars
<1>23. Resp!HandleError <=> RespProofs!HandleError
  BY Zenon DEF Resp!HandleError, RespProofs!HandleError, Resp!appVars,
               RespProofs!appVars, Resp!ackVars, RespProofs!ackVars,
               Resp!loopVars, RespProofs!loopVars, Resp!streamVars,
               RespProofs!streamVars, Resp!clientVars, RespProofs!clientVars
<1>24. Resp!CancelHandle <=> RespProofs!CancelHandle
  BY Zenon DEF Resp!CancelHandle, RespProofs!CancelHandle, Resp!appVars,
               RespProofs!appVars, Resp!ackVars, RespProofs!ackVars,
               Resp!loopVars, RespProofs!loopVars, Resp!streamVars,
               RespProofs!streamVars, Resp!clientVars, RespProofs!clientVars
<1>25. Resp!ClientRead <=> RespProofs!ClientRead
  BY Zenon DEF Resp!ClientRead, RespProofs!ClientRead, Resp!appVars,
               RespProofs!appVars, Resp!ackVars, RespProofs!ackVars,
               Resp!loopVars, RespProofs!loopVars, Resp!streamVars,
               RespProofs!streamVars, Resp!clientVars, RespProofs!clientVars
<1>26. Resp!ClientLeaves <=> RespProofs!ClientLeaves
  BY Zenon DEF Resp!ClientLeaves, RespProofs!ClientLeaves, Resp!CloseClientEnd,
               RespProofs!CloseClientEnd, Resp!appVars, RespProofs!appVars,
               Resp!ackVars, RespProofs!ackVars, Resp!loopVars,
               RespProofs!loopVars, Resp!streamVars, RespProofs!streamVars,
               Resp!clientVars, RespProofs!clientVars
<1>27. Resp!BodyDropped <=> RespProofs!BodyDropped
  BY Zenon DEF Resp!BodyDropped, RespProofs!BodyDropped, Resp!CloseClientEnd,
               RespProofs!CloseClientEnd, Resp!appVars, RespProofs!appVars,
               Resp!ackVars, RespProofs!ackVars, Resp!loopVars,
               RespProofs!loopVars, Resp!streamVars, RespProofs!streamVars,
               Resp!clientVars, RespProofs!clientVars
<1>28. QED
  BY <1>1, <1>2, <1>3, <1>4, <1>5, <1>6, <1>7, <1>8, <1>9, <1>10, <1>11, <1>12,
     <1>13, <1>14, <1>15, <1>16, <1>17, <1>18, <1>19, <1>20, <1>21, <1>22,
     <1>23, <1>24, <1>25, <1>26, <1>27
  DEF Resp!ResponseNext, RespProofs!ResponseNext, Resp!Application,
      RespProofs!Application, Resp!ForwardingTask, RespProofs!ForwardingTask,
      Resp!HandleReturns, RespProofs!HandleReturns

LEMMA SameResponseSpecs == Resp!ResponseSpec <=> RespProofs!ResponseSpec
<1>1. Resp!ResponseInit <=> RespProofs!ResponseInit
  BY Zenon DEF Resp!ResponseInit, RespProofs!ResponseInit
<1>2. UNCHANGED Resp!responseVars <=> UNCHANGED RespProofs!responseVars
  BY Zenon DEF Resp!responseVars, RespProofs!responseVars, Resp!appVars,
               RespProofs!appVars, Resp!ackVars, RespProofs!ackVars,
               Resp!loopVars, RespProofs!loopVars, Resp!streamVars,
               RespProofs!streamVars, Resp!clientVars, RespProofs!clientVars
<1>3. [Resp!ResponseNext]_(Resp!responseVars)
        <=> [RespProofs!ResponseNext]_(RespProofs!responseVars)
  BY SameResponseSteps, <1>2
<1>4. QED
  BY <1>1, <1>3, PTL DEF Resp!ResponseSpec, RespProofs!ResponseSpec

LEMMA SameRequestSpecs == Req!RequestSpec <=> ReqProofs!RequestSpec
<1>1. Req!RequestInit <=> ReqProofs!RequestInit
  BY Zenon DEF Req!RequestInit, ReqProofs!RequestInit
<1>2. UNCHANGED Req!requestVars <=> UNCHANGED ReqProofs!requestVars
  BY Zenon DEF Req!requestVars, ReqProofs!requestVars
<1>3. Req!Client <=> ReqProofs!Client
  BY Zenon DEF Req!Client, ReqProofs!Client, Req!ClientWrite,
               ReqProofs!ClientWrite, Req!ClientEnd, ReqProofs!ClientEnd
<1>4. Req!Forwarder <=> ReqProofs!Forwarder
  BY Zenon DEF Req!Forwarder, ReqProofs!Forwarder, Req!ForwardData,
               ReqProofs!ForwardData, Req!ForwardEof, ReqProofs!ForwardEof,
               Req!ForwardReadError, ReqProofs!ForwardReadError, Req!Deliver,
               ReqProofs!Deliver, Req!Request, ReqProofs!Request
<1>5. Req!Application <=> ReqProofs!Application
  BY Zenon DEF Req!Application, ReqProofs!Application, Req!CallReceive,
               ReqProofs!CallReceive, Req!ReceiveCompletes,
               ReqProofs!ReceiveCompletes, Req!ReceiveMessage,
               ReqProofs!ReceiveMessage, Req!ReceiveRaises,
               ReqProofs!ReceiveRaises, Req!CancelReceive,
               ReqProofs!CancelReceive, Req!DropReceiver,
               ReqProofs!DropReceiver
<1>6. [Req!RequestNext]_(Req!requestVars)
        <=> [ReqProofs!RequestNext]_(ReqProofs!requestVars)
  BY <1>2, <1>3, <1>4, <1>5 DEF Req!RequestNext, ReqProofs!RequestNext
<1>7. QED
  BY <1>1, <1>6, PTL DEF Req!RequestSpec, ReqProofs!RequestSpec

-----------------------------------------------------------------------------
(* The composition. *)

\* The writer's shutdown is one of the ends the request's client may choose.
LEMMA RequestHalfStep == [Next]_vars => [Req!RequestNext]_(Req!requestVars)
<1> SUFFICES ASSUME [Next]_vars
             PROVE  [Req!RequestNext]_(Req!requestVars)
  OBVIOUS
<1> USE DEF requestVars, Req!requestVars
<1>1. CASE CallReceive \/ ReceiveCompletes \/ ReleaseReceiver
  BY <1>1 DEF CallReceive, ReceiveCompletes, ReleaseReceiver, RequestStep,
              Req!RequestNext, Req!Application
<1>2. CASE WriteRequest
  BY <1>2 DEF WriteRequest, RequestStep, Req!RequestNext, Req!Client
<1>3. CASE ShutdownRequest
  BY <1>3 DEF ShutdownRequest, Req!RequestNext, Req!Client, Req!ClientEnd
<1>4. CASE Forwarder
  BY <1>4 DEF Forwarder, RequestStep, Req!RequestNext
<1>5. CASE \/ SendOrFinish \/ ReleaseSender \/ ForwardingTask \/ CompleteFuture
           \/ Expire \/ HandleReturns \/ BodyDropped \/ ReadResponse
  BY <1>5 DEF SendOrFinish, ReleaseSender, ForwardingTask, CompleteFuture, Expire,
              HandleReturns, BodyDropped, ReadResponse, ResponseStep
<1>6. CASE RequestJoined \/ Compute \/ UNCHANGED vars
  BY <1>6 DEF RequestJoined, Compute, AwaitHandle, AwaitWriter, ReadEnd, vars
<1>7. QED
  BY <1>1, <1>2, <1>3, <1>4, <1>5, <1>6 DEF Next

LEMMA ResponseHalfStep == [Next]_vars => [Resp!ResponseNext]_(Resp!responseVars)
<1> SUFFICES ASSUME [Next]_vars
             PROVE  [Resp!ResponseNext]_(Resp!responseVars)
  OBVIOUS
<1> USE DEF responseVars, Resp!responseVars, Resp!appVars, Resp!ackVars,
            Resp!loopVars, Resp!streamVars, Resp!clientVars
<1>1. CASE SendOrFinish \/ ReleaseSender
  BY <1>1 DEF SendOrFinish, ReleaseSender, ResponseStep, Resp!ResponseNext,
              Resp!Application
<1>2. CASE \/ ForwardingTask \/ CompleteFuture \/ Expire \/ HandleReturns
           \/ BodyDropped \/ ReadResponse
  BY <1>2 DEF ForwardingTask, CompleteFuture, Expire, HandleReturns, BodyDropped,
              ReadResponse, ResponseStep, Resp!ResponseNext
<1>3. CASE \/ CallReceive \/ ReceiveCompletes \/ ReleaseReceiver
           \/ WriteRequest \/ Forwarder
  BY <1>3 DEF CallReceive, ReceiveCompletes, ReleaseReceiver, WriteRequest,
              Forwarder, RequestStep
<1>4. CASE ShutdownRequest \/ RequestJoined \/ Compute \/ UNCHANGED vars
  BY <1>4 DEF ShutdownRequest, RequestJoined, Compute, AwaitHandle, AwaitWriter,
              ReadEnd, vars
<1>5. QED
  BY <1>1, <1>2, <1>3, <1>4 DEF Next

\* A request of Node.js is, in each half, an exchange as the half describes it
\* on its own: neither the one coroutine for both channels nor compute() makes
\* a step that the forwarder, the forwarding task or their users do not have.
THEOREM HalvesAreImplemented == Spec => Req!RequestSpec /\ Resp!ResponseSpec
<1>1. Init => Req!RequestInit /\ Resp!ResponseInit
  BY DEF Init
<1>2. QED
  BY <1>1, RequestHalfStep, ResponseHalfStep, PTL
  DEF Spec, Req!RequestSpec, Resp!ResponseSpec

\* So the request body arrives whole and its end is told truly.
THEOREM RequestHalfIsSafe ==
  Spec => [](Req!BodyIsContiguous /\ Req!FinalMeansComplete /\ Req!RaiseMeansNothingLeft)
<1>1. Spec => ReqProofs!RequestSpec
  BY HalvesAreImplemented, SameRequestSpecs
<1>2. ReqProofs!BodyIsContiguous => Req!BodyIsContiguous
  BY Zenon DEF Req!BodyIsContiguous, ReqProofs!BodyIsContiguous, Req!Delivered,
               ReqProofs!Delivered
<1>3. ReqProofs!FinalMeansComplete => Req!FinalMeansComplete
  BY Zenon DEF Req!FinalMeansComplete, ReqProofs!FinalMeansComplete,
               Req!Delivered, ReqProofs!Delivered
<1>4. ReqProofs!RaiseMeansNothingLeft => Req!RaiseMeansNothingLeft
  BY Zenon DEF Req!RaiseMeansNothingLeft, ReqProofs!RaiseMeansNothingLeft
<1>5. ReqProofs!RequestSpec => [](/\ ReqProofs!BodyIsContiguous
                                  /\ ReqProofs!FinalMeansComplete
                                  /\ ReqProofs!RaiseMeansNothingLeft)
  BY ReqProofs!BodyArrivesWhole, ReqProofs!FinalIsTrue, ReqProofs!RaiseIsLast,
     RequestTaskAssumption, PTL
<1>6. QED
  BY <1>1, <1>2, <1>3, <1>4, <1>5, PTL

\* The invariant of the response path holds of its half.
LEMMA ResponseInvHolds == Spec => []Resp!ResponseInv
<1>1. Spec => RespProofs!ResponseSpec
  BY HalvesAreImplemented, SameResponseSpecs
<1>2. RespProofs!ResponseInv => Resp!ResponseInv
  BY Zenon DEF Resp!ResponseInv, RespProofs!ResponseInv, Resp!ResponseTypeOK,
               RespProofs!ResponseTypeOK, Resp!FlagsOK, RespProofs!FlagsOK,
               Resp!MessagesOK, RespProofs!MessagesOK, Resp!StatesOK,
               RespProofs!StatesOK, Resp!Message, RespProofs!Message,
               Resp!AwaitingIsQueued, RespProofs!AwaitingIsQueued,
               Resp!AckedWereTaken, RespProofs!AckedWereTaken,
               Resp!StreamIsPrefix, RespProofs!StreamIsPrefix,
               Resp!MessageInHand, RespProofs!MessageInHand,
               Resp!HeadFollowsLoop, RespProofs!HeadFollowsLoop,
               Resp!EndFollowsLoop, RespProofs!EndFollowsLoop,
               Resp!AckedIsWritten, RespProofs!AckedIsWritten,
               Resp!EndMeansComplete, RespProofs!EndMeansComplete,
               Resp!ErrorIsReportedOnce, RespProofs!ErrorIsReportedOnce,
               Resp!IsStart, RespProofs!IsStart, Resp!IsFinal,
               RespProofs!IsFinal, Resp!HasData, RespProofs!HasData,
               Resp!IsWritten, RespProofs!IsWritten
<1>3. RespProofs!ResponseSpec => []RespProofs!ResponseInv
  BY RespProofs!InvariantHolds, RequestTaskAssumption
<1>4. QED
  BY <1>1, <1>2, <1>3, PTL

\* No step makes another application of it or takes the end of the stream
\* back, and only the client's reads change how much is read.
LEMMA ResponseKeeps ==
  ASSUME [Resp!ResponseNext]_(Resp!responseVars)
  PROVE  /\ compliant' = compliant
         /\ ended => ended'
         /\ Resp!ClientRead \/ consumed' = consumed
<1> USE DEF Resp!responseVars, Resp!appVars, Resp!ackVars, Resp!loopVars,
            Resp!streamVars, Resp!clientVars
<1>1. CASE Resp!Application
  BY <1>1 DEF Resp!Application, Resp!Send, Resp!CancelSend, Resp!Finish,
              Resp!ReleaseSender
<1>2. CASE Resp!ForwardingTask
  <2>1. CASE Resp!ForwardStart \/ Resp!StopAtStart \/ Resp!IgnoreStart
    BY <2>1 DEF Resp!ForwardStart, Resp!StopAtStart, Resp!IgnoreStart
  <2>2. CASE Resp!AcceptBody \/ Resp!StopAtBody \/ Resp!WriteBody \/ Resp!WriteFails
    BY <2>2 DEF Resp!AcceptBody, Resp!StopAtBody, Resp!WriteBody, Resp!WriteFails
  <2>3. CASE Resp!CloseStream \/ Resp!QueueClosed \/ Resp!ResponseTimeout
    BY <2>3 DEF Resp!CloseStream, Resp!QueueClosed, Resp!ResponseTimeout
  <2>4. CASE \/ Resp!FutureReturned \/ Resp!RaisedBeforeHead
             \/ Resp!RaisedAfterHead \/ Resp!CloseAfterRaise
    BY <2>4 DEF Resp!FutureReturned, Resp!RaisedBeforeHead, Resp!RaisedAfterHead,
                Resp!CloseAfterRaise
  <2>5. QED
    BY <1>2, <2>1, <2>2, <2>3, <2>4 DEF Resp!ForwardingTask
<1>3. CASE Resp!CompleteFuture \/ Resp!Expire \/ Resp!CancelHandle
  BY <1>3 DEF Resp!CompleteFuture, Resp!Expire, Resp!CancelHandle
<1>4. CASE Resp!HandleReturns \/ Resp!ClientLeaves \/ Resp!BodyDropped
  BY <1>4 DEF Resp!HandleReturns, Resp!HandleResponse, Resp!HandleError,
              Resp!ClientLeaves, Resp!BodyDropped, Resp!CloseClientEnd
<1>5. CASE Resp!ClientRead
  BY <1>5 DEF Resp!ClientRead
<1>6. CASE UNCHANGED Resp!responseVars
  BY <1>6
<1>7. QED
  BY <1>1, <1>2, <1>3, <1>4, <1>5, <1>6 DEF Resp!ResponseNext

\* The application of a request keeps to the protocol, so that no send() of its
\* raises and no exception is swallowed, unless the response is given up.
THEOREM ResponseHalfIsSafe == Spec => [](compliant /\ Resp!SendsAreAcked /\ Resp!RaiseIsReported)
<1>1. Spec => RespProofs!ResponseSpec
  BY HalvesAreImplemented, SameResponseSpecs
<1>2. RespProofs!SendsAreAcked => Resp!SendsAreAcked
  BY Zenon DEF Resp!SendsAreAcked, RespProofs!SendsAreAcked, Resp!GivenUp,
               RespProofs!GivenUp
<1>3. RespProofs!RaiseIsReported => Resp!RaiseIsReported
  BY Zenon DEF Resp!RaiseIsReported, RespProofs!RaiseIsReported, Resp!GivenUp,
               RespProofs!GivenUp
<1>4. RespProofs!ResponseSpec => [](RespProofs!SendsAreAcked /\ RespProofs!RaiseIsReported)
  BY RespProofs!EverySendIsAcked, RespProofs!EveryRaiseIsReported,
     RequestTaskAssumption, PTL
<1>5. compliant /\ [Resp!ResponseNext]_(Resp!responseVars) => compliant'
  BY ResponseKeeps
<1>6. Spec => []compliant
  BY <1>5, HalvesAreImplemented, PTL DEF Spec, Init, Resp!ResponseSpec
<1>7. QED
  BY <1>1, <1>2, <1>3, <1>4, <1>6, PTL


\* compute() is given what ResponseContract promises of handle(): the response
\* half keeps that promise when the same coroutine also reads the request.
THEOREM ContractHolds == Spec => Resp!Contract!Spec
<1>1. Spec => RespProofs!ResponseSpec
  BY HalvesAreImplemented, SameResponseSpecs
<1>2. RespProofs!ResponseSpec => RespProofs!Contract!Spec
  BY RespProofs!ResponseContractHolds, RequestTaskAssumption
<1>3. RespProofs!Contract!Init <=> Resp!Contract!Init
  BY Zenon DEF Resp!Contract!Init, RespProofs!Contract!Init, Resp!Outcome,
               RespProofs!Outcome, Resp!Ending, RespProofs!Ending,
               Resp!AcceptedData, RespProofs!AcceptedData, Resp!HasData,
               RespProofs!HasData, Resp!Cardinality, RespProofs!Cardinality
<1>4. RespProofs!Contract!Decide <=> Resp!Contract!Decide
  BY Zenon DEF Resp!Contract!Decide, RespProofs!Contract!Decide, Resp!Outcome,
               RespProofs!Outcome, Resp!Ending, RespProofs!Ending,
               Resp!AcceptedData, RespProofs!AcceptedData, Resp!HasData,
               RespProofs!HasData, Resp!Cardinality, RespProofs!Cardinality
<1>5. RespProofs!Contract!Accept <=> Resp!Contract!Accept
  BY Zenon DEF Resp!Contract!Accept, RespProofs!Contract!Accept,
               Resp!Contract!Streaming, RespProofs!Contract!Streaming,
               Resp!Outcome, RespProofs!Outcome, Resp!Ending, RespProofs!Ending,
               Resp!AcceptedData, RespProofs!AcceptedData, Resp!HasData,
               RespProofs!HasData, Resp!Cardinality, RespProofs!Cardinality
<1>6. RespProofs!Contract!Deliver <=> Resp!Contract!Deliver
  BY Zenon DEF Resp!Contract!Deliver, RespProofs!Contract!Deliver,
               Resp!Contract!Streaming, RespProofs!Contract!Streaming,
               Resp!Outcome, RespProofs!Outcome, Resp!Ending, RespProofs!Ending,
               Resp!AcceptedData, RespProofs!AcceptedData, Resp!HasData,
               RespProofs!HasData, Resp!Cardinality, RespProofs!Cardinality
<1>7. RespProofs!Contract!Finish <=> Resp!Contract!Finish
  BY Zenon DEF Resp!Contract!Finish, RespProofs!Contract!Finish,
               Resp!Contract!Streaming, RespProofs!Contract!Streaming,
               Resp!Outcome, RespProofs!Outcome, Resp!Ending, RespProofs!Ending,
               Resp!AcceptedData, RespProofs!AcceptedData, Resp!HasData,
               RespProofs!HasData, Resp!Cardinality, RespProofs!Cardinality
<1>8. UNCHANGED RespProofs!Contract!contractVars
        <=> UNCHANGED Resp!Contract!contractVars
  BY Zenon DEF Resp!Contract!contractVars, RespProofs!Contract!contractVars,
               Resp!Outcome, RespProofs!Outcome, Resp!Ending, RespProofs!Ending,
               Resp!AcceptedData, RespProofs!AcceptedData, Resp!HasData,
               RespProofs!HasData, Resp!Cardinality, RespProofs!Cardinality
<1>9. [RespProofs!Contract!Next]_(RespProofs!Contract!contractVars)
        <=> [Resp!Contract!Next]_(Resp!Contract!contractVars)
  BY <1>4, <1>5, <1>6, <1>7, <1>8 DEF Resp!Contract!Next, RespProofs!Contract!Next
<1>10. QED
  BY <1>1, <1>2, <1>3, <1>9, PTL DEF Resp!Contract!Spec, RespProofs!Contract!Spec

-----------------------------------------------------------------------------
(* The buffered result. *)

\* Once it is there, the response has ended and nothing of it is unread.
ResultIsRead == buffered /\ task = "done" => ended /\ consumed = Len(stream)

\* The result, once it is there, is not disturbed: no frame is read any more,
\* and none is written behind the end.
LEMMA ResultStep ==
  ASSUME ResultIsRead, [Next]_vars,
         [Resp!ResponseNext]_(Resp!responseVars),
         [ended => stream' = stream /\ exception' = exception]_(Resp!responseVars)
  PROVE  ResultIsRead'
<1>1. ended => stream' = stream
  BY DEF Resp!responseVars, Resp!streamVars
<1>2. CASE buffered' = buffered /\ task' = task
  <2>1. SUFFICES ASSUME buffered, task = "done"
                 PROVE  ended' /\ consumed' = Len(stream')
    BY <1>2 DEF ResultIsRead
  <2>2. ended /\ consumed = Len(stream) /\ stream' = stream
    BY <1>1, <2>1 DEF ResultIsRead
  <2>3. ~Resp!ClientRead
    BY <2>2 DEF Resp!ClientRead
  <2>4. QED
    BY <2>2, <2>3, ResponseKeeps
<1>3. CASE Compute
  <2>1. CASE AwaitHandle \/ AwaitWriter
    BY <1>1, <2>1 DEF AwaitHandle, AwaitWriter, ResultIsRead
  <2>2. CASE ReadEnd
    BY <2>2 DEF ReadEnd, responseVars, ResultIsRead
  <2>3. QED
    BY <1>3, <2>1, <2>2 DEF Compute
<1>4. [Next]_vars => Compute \/ (buffered' = buffered /\ task' = task)
  BY DEF Next, vars, taskVars, RequestStep, ResponseStep, CallReceive, SendOrFinish,
         ReceiveCompletes, ReleaseSender, ReleaseReceiver, WriteRequest,
         ShutdownRequest, Forwarder, ForwardingTask, RequestJoined, CompleteFuture,
         Expire, HandleReturns, BodyDropped, ReadResponse
<1>5. QED
  BY <1>2, <1>3, <1>4

\* What the buffered variant returns without an exception is the whole response,
\* up to the final message, with all the data the application was told is sent.
THEOREM BufferedResultIsWhole == Spec => []BufferedIsWhole
<1>1. Init => ResultIsRead
  BY DEF Init, ResultIsRead
<1>2. Spec => [][ended => stream' = stream /\ exception' = exception]_(Resp!responseVars)
  <2>1. Spec => RespProofs!ResponseSpec
    BY HalvesAreImplemented, SameResponseSpecs
  <2>2. RespProofs!ResponseSpec => RespProofs!NothingAfterEnd
    BY RespProofs!EndIsFinal, RequestTaskAssumption
  <2>3. [ended => stream' = stream /\ exception' = exception]_(RespProofs!responseVars)
          => [ended => stream' = stream /\ exception' = exception]_(Resp!responseVars)
    BY Zenon DEF Resp!responseVars, RespProofs!responseVars, Resp!appVars,
                 RespProofs!appVars, Resp!ackVars, RespProofs!ackVars,
                 Resp!loopVars, RespProofs!loopVars, Resp!streamVars,
                 RespProofs!streamVars, Resp!clientVars, RespProofs!clientVars
  <2>4. QED
    BY <2>1, <2>2, <2>3, PTL DEF RespProofs!NothingAfterEnd
<1>3. Spec => []ResultIsRead
  BY <1>1, <1>2, ResultStep, HalvesAreImplemented, PTL DEF Spec, Resp!ResponseSpec
<1>4. Resp!ResponseInv /\ ResultIsRead => BufferedIsWhole
  <2> SUFFICES ASSUME Resp!ResponseInv, ResultIsRead,
                      buffered, task = "done", ~exception
               PROVE  /\ consumed = Len(stream)
                      /\ taken > 0 /\ Resp!IsFinal(taken)
                      /\ \A i \in acked : Resp!HasData(i) => Resp!IsWritten(i)
    BY DEF BufferedIsWhole
  <2>1. ended /\ consumed = Len(stream)
    BY DEF ResultIsRead
  <2>2. /\ taken > 0 /\ Resp!IsFinal(taken)
        /\ \A i \in 1..taken : Resp!HasData(i) => Resp!IsWritten(i)
    BY <2>1 DEF Resp!ResponseInv, Resp!EndMeansComplete
  <2>3. \A i \in acked : i \in 1..taken
    BY DEF Resp!ResponseInv, Resp!AckedWereTaken, Resp!ResponseTypeOK, Resp!MessagesOK
  <2>4. QED
    BY <2>1, <2>2, <2>3
<1>5. QED
  BY <1>3, <1>4, ResponseInvHolds, PTL

=============================================================================
