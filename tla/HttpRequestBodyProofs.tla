------------------------ MODULE HttpRequestBodyProofs ------------------------
(***************************************************************************)
(* Proofs about HttpRequestBody for a body of any size and a request       *)
(* stream of any capacity.                                                 *)
(***************************************************************************)
EXTENDS HttpRequestBody, SequenceTheorems, TLAPS

\* Message i of d starts where the message before it ended.
Contiguous(d) ==
    \A i \in 1..Len(d) :
        d[i].from = IF i = 1 THEN 0 ELSE d[i-1].from + d[i-1].count

\* The unit after the last one of d.
EndOf(d) == IF d = <<>> THEN 0 ELSE d[Len(d)].from + d[Len(d)].count

IsFinal(d) == d # <<>> /\ ~d[Len(d)].more_body

\* While Python has the Receiver, nothing read is missing from Delivered.
NothingSkipped == receiverOpen => read = EndOf(Delivered)

\* The forwarder ends with a final message or with an error.
DoneIsSaid ==
    forwarder = "done" /\ receiverOpen => wireEnd = "error" \/ IsFinal(Delivered)

\* A pending call holds the Receiver.
CallKeepsReceiver == receiving => receiverOpen

RequestInv ==
    /\ RequestTypeOK
    /\ Contiguous(Delivered)
    /\ NothingSkipped
    /\ FinalMeansComplete
    /\ DoneIsSaid
    /\ CallKeepsReceiver
    /\ RaiseMeansNothingLeft

-----------------------------------------------------------------------------
(* Lemmas on sequences of messages *)

\* What is delivered is a sequence of messages.
LEMMA DeliveredType ==
    ASSUME RequestTypeOK
    PROVE  Delivered \in Seq(RequestMessage)
  BY ConcatProperties DEF RequestTypeOK, Delivered

\* A message put on the channel comes at the end of what is delivered.
LEMMA DeliverAppends ==
    ASSUME NEW M, NEW r \in Seq(M), NEW q \in Seq(M), NEW m \in M
    PROVE  r \o Append(q, m) = Append(r \o q, m)
  <1> DEFINE left == r \o Append(q, m)
             right == Append(r \o q, m)
  <1>1. Append(q, m) \in Seq(M) /\ Len(Append(q, m)) = Len(q) + 1
    BY AppendProperties
  <1>2. left \in Seq(M) /\ Len(left) = Len(r) + Len(q) + 1
    BY <1>1, ConcatProperties, LenProperties
  <1>3. r \o q \in Seq(M) /\ Len(r \o q) = Len(r) + Len(q)
    BY ConcatProperties
  <1>4. right \in Seq(M) /\ Len(right) = Len(r) + Len(q) + 1
    BY <1>3, AppendProperties
  <1>5. \A i \in 1..Len(left) : left[i] = right[i]
    <2> TAKE i \in 1..Len(left)
    <2>1. i \in Nat /\ i >= 1 /\ i <= Len(r) + Len(q) + 1
          /\ Len(r) \in Nat /\ Len(q) \in Nat
      BY <1>2, LenProperties
    <2>2. left[i] = IF i <= Len(r) THEN r[i] ELSE Append(q, m)[i - Len(r)]
      BY <1>1, <1>2, <2>1, ConcatProperties
    <2>3. CASE i = Len(r) + Len(q) + 1
      BY <1>3, <2>1, <2>2, <2>3, AppendProperties
    <2>4. CASE i <= Len(r)
      <3>1. right[i] = (r \o q)[i]
        BY <1>3, <2>1, <2>4, AppendProperties
      <3>2. (r \o q)[i] = r[i]
        BY <2>1, <2>4, <1>3, ConcatProperties
      <3>3. QED
        BY <2>2, <2>4, <3>1, <3>2
    <2>5. CASE i > Len(r) /\ i <= Len(r) + Len(q)
      <3>1. i - Len(r) \in 1..Len(q)
        BY <2>1, <2>5
      <3>2. Append(q, m)[i - Len(r)] = q[i - Len(r)]
        BY <3>1, AppendProperties
      <3>3. right[i] = (r \o q)[i]
        BY <1>3, <2>1, <2>5, AppendProperties
      <3>4. (r \o q)[i] = q[i - Len(r)]
        BY <1>3, <2>1, <2>5, ConcatProperties
      <3>5. QED
        BY <2>1, <2>2, <2>5, <3>2, <3>3, <3>4
    <2>6. QED
      BY <2>1, <2>3, <2>4, <2>5
  <1>6. QED
    BY <1>2, <1>4, <1>5, SeqEqual

\* Taking a message off the channel delivers nothing new.
LEMMA ReceiveKeepsDelivered ==
    ASSUME NEW M, NEW r \in Seq(M), NEW q \in Seq(M), q # <<>>
    PROVE  Append(r, Head(q)) \o Tail(q) = r \o q
  <1> DEFINE left == Append(r, Head(q)) \o Tail(q)
  <1>1. /\ Head(q) \in M /\ Head(q) = q[1] /\ Tail(q) \in Seq(M)
        /\ Len(Tail(q)) = Len(q) - 1
        /\ \A j \in 1..Len(Tail(q)) : Tail(q)[j] = q[j + 1]
    BY HeadTailProperties
  <1>2. Len(q) \in Nat /\ Len(q) >= 1 /\ Len(r) \in Nat
    BY EmptySeq, LenProperties
  <1>3. /\ Append(r, Head(q)) \in Seq(M)
        /\ Len(Append(r, Head(q))) = Len(r) + 1
        /\ Append(r, Head(q))[Len(r) + 1] = q[1]
        /\ \A j \in 1..Len(r) : Append(r, Head(q))[j] = r[j]
    BY <1>1, AppendProperties
  <1>4. left \in Seq(M) /\ Len(left) = Len(r) + Len(q)
    BY <1>1, <1>2, <1>3, ConcatProperties
  <1>5. r \o q \in Seq(M) /\ Len(r \o q) = Len(r) + Len(q)
    BY ConcatProperties
  <1>6. \A i \in 1..Len(left) : left[i] = (r \o q)[i]
    <2> TAKE i \in 1..Len(left)
    <2>1. i \in Nat /\ i >= 1 /\ i <= Len(r) + Len(q)
      BY <1>2, <1>4
    <2>2. left[i] = IF i <= Len(r) + 1 THEN Append(r, Head(q))[i]
                                      ELSE Tail(q)[i - (Len(r) + 1)]
      BY <1>1, <1>3, <1>4, <2>1, ConcatProperties
    <2>3. (r \o q)[i] = IF i <= Len(r) THEN r[i] ELSE q[i - Len(r)]
      BY <1>5, <2>1, <1>2, ConcatProperties
    <2>4. CASE i <= Len(r)
      BY <1>2, <1>3, <2>1, <2>2, <2>3, <2>4
    <2>5. CASE i = Len(r) + 1
      BY <1>2, <1>3, <2>1, <2>2, <2>3, <2>5
    <2>6. CASE i > Len(r) + 1
      <3>1. i - (Len(r) + 1) \in 1..Len(Tail(q))
        BY <1>1, <1>2, <2>1, <2>6
      <3>2. Tail(q)[i - (Len(r) + 1)] = q[(i - (Len(r) + 1)) + 1]
        BY <1>1, <3>1
      <3>3. (i - (Len(r) + 1)) + 1 = i - Len(r)
        BY <1>2, <2>1
      <3>4. QED
        BY <1>2, <2>1, <2>2, <2>3, <2>6, <3>2, <3>3
    <2>7. QED
      BY <1>2, <2>1, <2>4, <2>5, <2>6
  <1>7. QED
    BY <1>4, <1>5, <1>6, SeqEqual

\* What was received is a prefix of what is delivered.
LEMMA ReceivedIsPrefix ==
    ASSUME NEW M, NEW r \in Seq(M), NEW q \in Seq(M)
    PROVE  /\ r \o <<>> = r
           /\ Len(r) \in Nat /\ Len(r \o q) \in Nat /\ Len(r) <= Len(r \o q)
           /\ \A i \in 1..Len(r) : (r \o q)[i] = r[i]
  <1>1. Len(r) \in Nat /\ Len(q) \in Nat /\ Len(r \o q) = Len(r) + Len(q)
    BY ConcatProperties, LenProperties
  <1>2. \A i \in 1..Len(r) : (r \o q)[i] = r[i]
    BY <1>1, ConcatProperties
  <1>3. r \o <<>> = r
    BY ConcatEmptySeq
  <1>4. QED
    BY <1>1, <1>2, <1>3

\* A message that starts at the end of d continues it.
LEMMA AppendContiguous ==
    ASSUME NEW d \in Seq(RequestMessage), Contiguous(d),
           NEW m \in RequestMessage, m.from = EndOf(d)
    PROVE  /\ Contiguous(Append(d, m))
           /\ EndOf(Append(d, m)) = m.from + m.count
           /\ IsFinal(Append(d, m)) <=> ~m.more_body
  <1> DEFINE e == Append(d, m)
  <1>1. /\ Len(d) \in Nat /\ Len(e) = Len(d) + 1 /\ e # <<>>
        /\ \A i \in 1..Len(d) : e[i] = d[i]
        /\ e[Len(d) + 1] = m
    BY AppendProperties, LenProperties
  <1>2. EndOf(e) = m.from + m.count
    BY <1>1 DEF EndOf
  <1>3. IsFinal(e) <=> ~m.more_body
    BY <1>1 DEF IsFinal
  <1>4. Contiguous(e)
    <2> SUFFICES ASSUME NEW i \in 1..Len(e)
                 PROVE  e[i].from = IF i = 1 THEN 0 ELSE e[i-1].from + e[i-1].count
      BY DEF Contiguous
    <2> HIDE DEF e
    <2>1. i \in Nat /\ 1 <= i /\ i <= Len(d) + 1
      BY <1>1
    <2>2. CASE i <= Len(d)
      <3>1. i \in 1..Len(d) /\ (i # 1 => i - 1 \in 1..Len(d))
        BY <1>1, <2>1, <2>2
      <3>2. d[i].from = IF i = 1 THEN 0 ELSE d[i-1].from + d[i-1].count
        BY <3>1 DEF Contiguous
      <3>3. QED
        BY <1>1, <3>1, <3>2
    <2>3. CASE i = Len(d) + 1
      <3>1. e[i] = m
        BY <1>1, <2>3
      <3>2. CASE i = 1
        <4>1. Len(d) = 0
          BY <1>1, <2>3, <3>2
        <4>2. d = <<>>
          BY <4>1, EmptySeq
        <4>3. QED
          BY <3>1, <3>2, <4>2 DEF EndOf
      <3>3. CASE i # 1
        <4>1. i - 1 = Len(d) /\ Len(d) \in 1..Len(d)
          BY <1>1, <2>1, <2>3, <3>3
        <4>2. d # <<>>
          BY <4>1, EmptySeq
        <4>3. e[i-1] = d[Len(d)]
          BY <1>1, <4>1
        <4>4. QED
          BY <3>1, <3>3, <4>2, <4>3 DEF EndOf
      <3>4. QED
        BY <3>2, <3>3
    <2>4. QED
      BY <1>1, <2>1, <2>2, <2>3
  <1>5. QED
    BY <1>2, <1>3, <1>4

-----------------------------------------------------------------------------
(* The steps *)

LEMMA RequestInitInv == RequestInit => RequestInv
  <1> SUFFICES ASSUME RequestInit
               PROVE  RequestInv
    OBVIOUS
  <1>1. /\ written = 0 /\ wireEnd = "open" /\ read = 0 /\ forwarder = "reading"
        /\ inbox = <<>> /\ receiverOpen = TRUE /\ receiving = FALSE
        /\ received = <<>> /\ raised = FALSE
    BY DEF RequestInit
  <1>2. <<>> \in Seq(RequestMessage) /\ Len(<<>>) = 0
    BY EmptySeq
  <1>3. Delivered = <<>>
    BY <1>1, <1>2, ConcatEmptySeq DEF Delivered
  <1>4. RequestTypeOK
    <2>1. written \in 0..MaxUnits /\ read \in 0..written
      BY <1>1, RequestAssumption
    <2>2. receiverOpen \in BOOLEAN /\ receiving \in BOOLEAN /\ raised \in BOOLEAN
      BY <1>1
    <2>3. QED
      BY <1>1, <1>2, <2>1, <2>2 DEF RequestTypeOK
  <1>5. Contiguous(Delivered) /\ FinalMeansComplete
    BY <1>2, <1>3 DEF Contiguous, FinalMeansComplete
  <1>6. NothingSkipped /\ DoneIsSaid /\ CallKeepsReceiver /\ RaiseMeansNothingLeft
    BY <1>1, <1>3
    DEF NothingSkipped, EndOf, DoneIsSaid, CallKeepsReceiver, RaiseMeansNothingLeft
  <1>7. QED
    BY <1>4, <1>5, <1>6 DEF RequestInv

\* The client: it writes only while its end is open, so what was promised of
\* an ended body stays true.
LEMMA ClientStep ==
    ASSUME RequestInv, Client
    PROVE  RequestInv'
  <1>1. /\ wireEnd = "open" /\ UNCHANGED <<read, forwarder, inbox, receiverOpen,
                                          receiving, received, raised>>
    BY DEF Client, ClientWrite, ClientEnd
  <1>2. Delivered' = Delivered
    BY <1>1 DEF Delivered
  <1>3. written' \in 0..MaxUnits /\ written <= written' /\ written' \in Nat
    BY RequestAssumption DEF RequestInv, RequestTypeOK, Client, ClientWrite, ClientEnd
  <1>4. wireEnd' \in {"open", "eof", "error"}
    BY DEF Client, ClientWrite, ClientEnd
  <1>5. RequestTypeOK'
    <2>1. read' \in 0..written'
      BY <1>1, <1>3, RequestAssumption DEF RequestInv, RequestTypeOK
    <2>2. QED
      BY <1>1, <1>3, <1>4, <2>1 DEF RequestInv, RequestTypeOK
  <1>6. Contiguous(Delivered)' /\ NothingSkipped' /\ CallKeepsReceiver'
    BY <1>1, <1>2
    DEF RequestInv, Contiguous, NothingSkipped, EndOf, CallKeepsReceiver
  <1>7. \A i \in 1..Len(Delivered) : Delivered[i].more_body
    BY <1>1 DEF RequestInv, FinalMeansComplete
  <1>8. FinalMeansComplete'
    BY <1>2, <1>7 DEF FinalMeansComplete
  <1>9. wireEnd = "error" \/ forwarder # "done" \/ ~receiverOpen
    <2>1. ASSUME IsFinal(Delivered)
          PROVE  FALSE
      <3>1. Delivered \in Seq(RequestMessage) /\ Delivered # <<>>
        BY <2>1, DeliveredType DEF RequestInv, IsFinal
      <3>2. Len(Delivered) \in 1..Len(Delivered)
        BY <3>1, EmptySeq
      <3>3. QED
        BY <1>7, <2>1, <3>2 DEF IsFinal
    <2>2. QED
      BY <2>1 DEF RequestInv, DoneIsSaid
  <1>10. DoneIsSaid'
    BY <1>1, <1>9 DEF DoneIsSaid
  <1>11. RaiseMeansNothingLeft'
    <2>1. CASE ~raised
      BY <1>1, <2>1 DEF RaiseMeansNothingLeft
    <2>2. CASE raised
      <3>1. /\ forwarder = "done" /\ inbox = <<>> /\ received # <<>>
            /\ ~received[Len(received)].more_body
        BY <1>1, <2>2 DEF RequestInv, RaiseMeansNothingLeft
      <3>2. QED
        BY <1>1, <3>1 DEF RaiseMeansNothingLeft
    <2>3. QED
      BY <2>1, <2>2 DEF RequestInv, RequestTypeOK
  <1>12. QED
    BY <1>5, <1>6, <1>8, <1>10, <1>11 DEF RequestInv

\* What the forwarder's step does to the messages, in one place: a message
\* made of what it read is delivered, or nothing is.
LEMMA ForwardedMessage ==
    ASSUME RequestInv, NEW m \in RequestMessage, m.from = read,
           Deliver(m), received' = received
    PROVE  /\ inbox' \in Seq(RequestMessage)
           /\ ~receiverOpen => Delivered' = Delivered
           /\ receiverOpen =>
                 /\ Delivered' = Append(Delivered, m)
                 /\ Contiguous(Delivered')
                 /\ EndOf(Delivered') = m.from + m.count
                 /\ IsFinal(Delivered') <=> ~m.more_body
  <1>1. received \in Seq(RequestMessage) /\ inbox \in Seq(RequestMessage)
    BY DEF RequestInv, RequestTypeOK
  <1>2. inbox' = IF receiverOpen THEN Append(inbox, m) ELSE inbox
    BY DEF Deliver
  <1>3. inbox' \in Seq(RequestMessage)
    BY <1>1, <1>2, AppendProperties
  <1>4. ~receiverOpen => Delivered' = Delivered
    BY <1>2 DEF Delivered
  <1>5. ASSUME receiverOpen
        PROVE  Delivered' = Append(Delivered, m)
    BY <1>1, <1>2, <1>5, DeliverAppends DEF Delivered
  <1>6. Delivered \in Seq(RequestMessage)
    BY DeliveredType DEF RequestInv
  <1>7. ASSUME receiverOpen
        PROVE  m.from = EndOf(Delivered) /\ Contiguous(Delivered)
    BY <1>7 DEF RequestInv, NothingSkipped
  <1>8. QED
    BY <1>3, <1>4, <1>5, <1>6, <1>7, AppendContiguous

\* A message appended to what is delivered while nothing of it is final leaves
\* all but itself unfinal.
LEMMA OnlyLastFinal ==
    ASSUME RequestInv, forwarder = "reading", NEW m \in RequestMessage,
           Delivered' = Delivered \/ Delivered' = Append(Delivered, m)
    PROVE  \A i \in 1..Len(Delivered') :
              ~(Delivered')[i].more_body =>
                  /\ i = Len(Delivered') /\ (Delivered')[i] = m
                  /\ Delivered' = Append(Delivered, m)
  <1>1. \A i \in 1..Len(Delivered) : Delivered[i].more_body
    BY DEF RequestInv, FinalMeansComplete
  <1>2. Delivered \in Seq(RequestMessage)
    BY DeliveredType DEF RequestInv
  <1>3. CASE Delivered' = Delivered
    BY <1>1, <1>3
  <1>4. CASE Delivered' = Append(Delivered, m)
    <2>1. /\ Len(Delivered) \in Nat /\ Len(Delivered') = Len(Delivered) + 1
          /\ \A i \in 1..Len(Delivered) : (Delivered')[i] = Delivered[i]
          /\ (Delivered')[Len(Delivered) + 1] = m
      BY <1>2, <1>4, AppendProperties, LenProperties
    <2>2. \A i \in 1..Len(Delivered') : i \in 1..Len(Delivered) \/ i = Len(Delivered) + 1
      BY <2>1
    <2>3. QED
      BY <1>1, <1>4, <2>1, <2>2
  <1>5. QED
    BY <1>3, <1>4

\* Data is read and forwarded, or found to have no receiver.
LEMMA ForwardDataStep ==
    ASSUME RequestInv, ForwardData
    PROVE  RequestInv'
  <1>1. PICK n \in 1..(written - read) :
          Deliver(Request(read, n, TRUE)) /\ read' = read + n
    BY DEF ForwardData
  <1>2. /\ forwarder = "reading"
        /\ forwarder' = IF receiverOpen THEN "reading" ELSE "done"
        /\ written' = written /\ wireEnd' = wireEnd
        /\ receiverOpen' = receiverOpen /\ receiving' = receiving
        /\ received' = received /\ raised' = raised
    BY DEF ForwardData
  <1> DEFINE m == Request(read, n, TRUE)
  <1>3. /\ read \in Nat /\ n \in Nat /\ written \in Nat
        /\ read + n \in 0..written
    BY RequestAssumption DEF RequestInv, RequestTypeOK
  <1>4. m \in RequestMessage /\ m.from = read /\ m.count = n /\ m.more_body = TRUE
    BY <1>3 DEF Request, RequestMessage
  <1> HIDE DEF m
  <1>5. Deliver(m)
    BY <1>1 DEF m
  <1>6. /\ inbox' \in Seq(RequestMessage)
        /\ ~receiverOpen => Delivered' = Delivered
        /\ receiverOpen => /\ Delivered' = Append(Delivered, m)
                           /\ Contiguous(Delivered')
                           /\ EndOf(Delivered') = read + n
    BY <1>2, <1>4, <1>5, ForwardedMessage
  <1>7. RequestTypeOK'
    BY <1>1, <1>2, <1>3, <1>6 DEF RequestInv, RequestTypeOK
  <1>8. Contiguous(Delivered)' /\ NothingSkipped'
    BY <1>1, <1>2, <1>6 DEF RequestInv, Contiguous, NothingSkipped, EndOf
  <1>9. Delivered' = Delivered \/ Delivered' = Append(Delivered, m)
    BY <1>6 DEF RequestInv, RequestTypeOK
  <1>10. \A i \in 1..Len(Delivered') : (Delivered')[i].more_body
    BY <1>2, <1>4, <1>9, OnlyLastFinal
  <1>11. FinalMeansComplete'
    BY <1>10 DEF FinalMeansComplete
  <1>12. DoneIsSaid' /\ CallKeepsReceiver' /\ RaiseMeansNothingLeft'
    BY <1>2
    DEF RequestInv, DoneIsSaid, CallKeepsReceiver, RaiseMeansNothingLeft
  <1>13. QED
    BY <1>7, <1>8, <1>11, <1>12 DEF RequestInv

\* The end of the body: everything was read, so the final message is complete.
LEMMA ForwardEofStep ==
    ASSUME RequestInv, ForwardEof
    PROVE  RequestInv'
  <1>1. /\ forwarder = "reading" /\ forwarder' = "done" /\ wireEnd = "eof"
        /\ read = written /\ Deliver(Request(read, 0, FALSE))
        /\ written' = written /\ wireEnd' = wireEnd /\ read' = read
        /\ receiverOpen' = receiverOpen /\ receiving' = receiving
        /\ received' = received /\ raised' = raised
    BY DEF ForwardEof
  <1> DEFINE m == Request(read, 0, FALSE)
  <1>2. read \in Nat
    BY RequestAssumption DEF RequestInv, RequestTypeOK
  <1>3. m \in RequestMessage /\ m.from = read /\ m.count = 0 /\ m.more_body = FALSE
    BY <1>2 DEF Request, RequestMessage
  <1> HIDE DEF m
  <1>4. Deliver(m)
    BY <1>1 DEF m
  <1>5. /\ inbox' \in Seq(RequestMessage)
        /\ ~receiverOpen => Delivered' = Delivered
        /\ receiverOpen => /\ Delivered' = Append(Delivered, m)
                           /\ Contiguous(Delivered')
                           /\ EndOf(Delivered') = read + 0
                           /\ IsFinal(Delivered')
    BY <1>1, <1>3, <1>4, ForwardedMessage
  <1>6. RequestTypeOK'
    BY <1>1, <1>5 DEF RequestInv, RequestTypeOK
  <1>7. Contiguous(Delivered)' /\ NothingSkipped'
    BY <1>1, <1>2, <1>5 DEF RequestInv, Contiguous, NothingSkipped, EndOf
  <1>8. Delivered' = Delivered \/ Delivered' = Append(Delivered, m)
    BY <1>5 DEF RequestInv, RequestTypeOK
  <1>9. \A i \in 1..Len(Delivered') :
          ~(Delivered')[i].more_body => i = Len(Delivered') /\ (Delivered')[i] = m
    BY <1>1, <1>3, <1>8, OnlyLastFinal
  <1>10. FinalMeansComplete'
    BY <1>1, <1>3, <1>9 DEF FinalMeansComplete
  <1>11. DoneIsSaid'
    BY <1>1, <1>5 DEF DoneIsSaid, IsFinal
  <1>12. CallKeepsReceiver' /\ RaiseMeansNothingLeft'
    BY <1>1 DEF RequestInv, CallKeepsReceiver, RaiseMeansNothingLeft
  <1>13. QED
    BY <1>6, <1>7, <1>10, <1>11, <1>12 DEF RequestInv

\* A failed read says nothing, and a broken connection stays one.
LEMMA ForwardReadErrorStep ==
    ASSUME RequestInv, ForwardReadError
    PROVE  RequestInv'
  <1>1. /\ forwarder = "reading" /\ forwarder' = "done" /\ wireEnd = "error"
        /\ written' = written /\ wireEnd' = wireEnd /\ read' = read
        /\ inbox' = inbox /\ receiverOpen' = receiverOpen
        /\ receiving' = receiving /\ received' = received /\ raised' = raised
    BY DEF ForwardReadError
  <1>2. Delivered' = Delivered
    BY <1>1 DEF Delivered
  <1>3. RequestTypeOK'
    BY <1>1 DEF RequestInv, RequestTypeOK
  <1>4. Contiguous(Delivered)' /\ NothingSkipped' /\ FinalMeansComplete'
    BY <1>1, <1>2
    DEF RequestInv, Contiguous, NothingSkipped, EndOf, FinalMeansComplete
  <1>5. DoneIsSaid' /\ CallKeepsReceiver' /\ RaiseMeansNothingLeft'
    BY <1>1 DEF RequestInv, DoneIsSaid, CallKeepsReceiver, RaiseMeansNothingLeft
  <1>6. QED
    BY <1>3, <1>4, <1>5 DEF RequestInv

\* A message is received; what was delivered is the same.
LEMMA ReceiveMessageStep ==
    ASSUME RequestInv, ReceiveMessage
    PROVE  RequestInv'
  <1>1. /\ receiving /\ inbox # <<>> /\ received' = Append(received, Head(inbox))
        /\ inbox' = Tail(inbox) /\ receiving' = FALSE
        /\ written' = written /\ wireEnd' = wireEnd /\ read' = read
        /\ forwarder' = forwarder /\ receiverOpen' = receiverOpen
        /\ raised' = raised
    BY DEF ReceiveMessage
  <1>2. received \in Seq(RequestMessage) /\ inbox \in Seq(RequestMessage)
    BY DEF RequestInv, RequestTypeOK
  <1>3. received' \in Seq(RequestMessage) /\ inbox' \in Seq(RequestMessage)
    BY <1>1, <1>2, HeadTailProperties, AppendProperties
  <1>4. Delivered' = Delivered
    BY <1>1, <1>2, ReceiveKeepsDelivered DEF Delivered
  <1>5. RequestTypeOK'
    BY <1>1, <1>3 DEF RequestInv, RequestTypeOK
  <1>6. Contiguous(Delivered)' /\ NothingSkipped' /\ FinalMeansComplete'
    BY <1>1, <1>4
    DEF RequestInv, Contiguous, NothingSkipped, EndOf, FinalMeansComplete
  <1>7. DoneIsSaid' /\ CallKeepsReceiver' /\ RaiseMeansNothingLeft'
    BY <1>1, <1>4
    DEF RequestInv, DoneIsSaid, IsFinal, CallKeepsReceiver, RaiseMeansNothingLeft
  <1>8. QED
    BY <1>5, <1>6, <1>7 DEF RequestInv

\* receive() raises: the channel is closed and empty, so the last message it
\* gave was the last of all.
LEMMA ReceiveRaisesStep ==
    ASSUME RequestInv, ReceiveRaises
    PROVE  RequestInv'
  <1>1. /\ receiving /\ inbox = <<>> /\ forwarder = "done" /\ raised' = TRUE
        /\ receiving' = FALSE /\ written' = written /\ wireEnd' = wireEnd
        /\ read' = read /\ forwarder' = forwarder /\ inbox' = inbox
        /\ receiverOpen' = receiverOpen /\ received' = received
    BY DEF ReceiveRaises
  <1>2. Delivered' = Delivered
    BY <1>1 DEF Delivered
  <1>3. Delivered = received
    BY <1>1, ConcatEmptySeq DEF RequestInv, RequestTypeOK, Delivered
  <1>4. RequestTypeOK'
    BY <1>1 DEF RequestInv, RequestTypeOK
  <1>5. Contiguous(Delivered)' /\ NothingSkipped' /\ FinalMeansComplete'
    BY <1>1, <1>2
    DEF RequestInv, Contiguous, NothingSkipped, EndOf, FinalMeansComplete
  <1>6. DoneIsSaid' /\ CallKeepsReceiver'
    BY <1>1, <1>2 DEF RequestInv, DoneIsSaid, IsFinal, CallKeepsReceiver
  <1>7. RaiseMeansNothingLeft'
    <2>1. receiverOpen
      BY <1>1 DEF RequestInv, CallKeepsReceiver
    <2>2. wireEnd = "error" \/ IsFinal(received)
      BY <1>1, <1>3, <2>1 DEF RequestInv, DoneIsSaid
    <2>3. QED
      BY <1>1, <2>2 DEF RaiseMeansNothingLeft, IsFinal
  <1>8. QED
    BY <1>4, <1>5, <1>6, <1>7 DEF RequestInv

\* A call begins or is cancelled.
LEMMA CallStep ==
    ASSUME RequestInv, CallReceive \/ CancelReceive
    PROVE  RequestInv'
  <1>1. /\ receiverOpen /\ receiving' \in BOOLEAN
        /\ written' = written /\ wireEnd' = wireEnd /\ read' = read
        /\ forwarder' = forwarder /\ inbox' = inbox
        /\ receiverOpen' = receiverOpen /\ received' = received
        /\ raised' = raised
    BY DEF CallReceive, CancelReceive, RequestInv, CallKeepsReceiver
  <1>2. Delivered' = Delivered
    BY <1>1 DEF Delivered
  <1>3. RequestTypeOK'
    BY <1>1 DEF RequestInv, RequestTypeOK
  <1>4. Contiguous(Delivered)' /\ NothingSkipped' /\ FinalMeansComplete'
    BY <1>1, <1>2
    DEF RequestInv, Contiguous, NothingSkipped, EndOf, FinalMeansComplete
  <1>5. DoneIsSaid' /\ CallKeepsReceiver' /\ RaiseMeansNothingLeft'
    BY <1>1, <1>2
    DEF RequestInv, DoneIsSaid, IsFinal, CallKeepsReceiver, RaiseMeansNothingLeft
  <1>6. QED
    BY <1>3, <1>4, <1>5 DEF RequestInv

\* The Receiver is freed: what remains delivered is what was received.
LEMMA DropReceiverStep ==
    ASSUME RequestInv, DropReceiver
    PROVE  RequestInv'
  <1>1. /\ ~receiving /\ receiverOpen' = FALSE /\ inbox' = <<>>
        /\ written' = written /\ wireEnd' = wireEnd /\ read' = read
        /\ forwarder' = forwarder /\ receiving' = receiving
        /\ received' = received /\ raised' = raised
    BY DEF DropReceiver
  <1>2. received \in Seq(RequestMessage) /\ inbox \in Seq(RequestMessage)
    BY DEF RequestInv, RequestTypeOK
  <1>3. /\ Delivered' = received
        /\ Len(received) \in Nat /\ Len(Delivered) \in Nat
        /\ Len(received) <= Len(Delivered)
        /\ \A i \in 1..Len(received) : Delivered[i] = received[i]
    BY <1>1, <1>2, ReceivedIsPrefix DEF Delivered
  <1>4. RequestTypeOK'
    <2>1. inbox' \in Seq(RequestMessage) /\ receiverOpen' \in BOOLEAN
      BY <1>1, EmptySeq
    <2>2. QED
      BY <1>1, <2>1 DEF RequestInv, RequestTypeOK
  <1>5. Contiguous(received)
    <2> SUFFICES ASSUME NEW i \in 1..Len(received)
                 PROVE  received[i].from =
                          IF i = 1 THEN 0 ELSE received[i-1].from + received[i-1].count
      BY DEF Contiguous
    <2>1. i \in 1..Len(Delivered) /\ (i # 1 => i - 1 \in 1..Len(received))
      BY <1>3
    <2>2. Delivered[i].from =
            IF i = 1 THEN 0 ELSE Delivered[i-1].from + Delivered[i-1].count
      BY <2>1 DEF RequestInv, Contiguous
    <2>3. QED
      BY <1>3, <2>1, <2>2
  <1>6. Contiguous(Delivered)' /\ NothingSkipped'
    BY <1>1, <1>3, <1>5 DEF Contiguous, NothingSkipped
  <1>7. FinalMeansComplete'
    <2>1. ASSUME NEW i \in 1..Len(received), ~received[i].more_body
          PROVE  /\ i = Len(received) /\ wireEnd = "eof"
                 /\ received[i].from = written /\ forwarder = "done"
      <3>1. i \in 1..Len(Delivered) /\ Delivered[i] = received[i]
        BY <1>3
      <3>2. /\ i = Len(Delivered) /\ wireEnd = "eof"
            /\ Delivered[i].from = written /\ forwarder = "done"
        BY <2>1, <3>1 DEF RequestInv, FinalMeansComplete
      <3>3. QED
        BY <1>3, <3>1, <3>2
    <2>2. QED
      BY <1>1, <1>3, <2>1 DEF FinalMeansComplete
  <1>8. DoneIsSaid' /\ CallKeepsReceiver' /\ RaiseMeansNothingLeft'
    BY <1>1
    DEF RequestInv, DoneIsSaid, CallKeepsReceiver, RaiseMeansNothingLeft
  <1>9. QED
    BY <1>4, <1>6, <1>7, <1>8 DEF RequestInv

\* Every step preserves the invariant.
LEMMA RequestStepInv == RequestInv /\ [RequestNext]_requestVars => RequestInv'
  <1> SUFFICES ASSUME RequestInv, [RequestNext]_requestVars
               PROVE  RequestInv'
    OBVIOUS
  <1>1. CASE UNCHANGED requestVars
    <2>1. /\ written' = written /\ wireEnd' = wireEnd /\ read' = read
          /\ forwarder' = forwarder /\ inbox' = inbox
          /\ receiverOpen' = receiverOpen /\ receiving' = receiving
          /\ received' = received /\ raised' = raised
      BY <1>1 DEF requestVars
    <2>2. Delivered' = Delivered
      BY <2>1 DEF Delivered
    <2>3. RequestTypeOK'
      BY <2>1 DEF RequestInv, RequestTypeOK
    <2>4. Contiguous(Delivered)' /\ NothingSkipped' /\ FinalMeansComplete'
      BY <2>1, <2>2
      DEF RequestInv, Contiguous, NothingSkipped, EndOf, FinalMeansComplete
    <2>5. DoneIsSaid' /\ CallKeepsReceiver' /\ RaiseMeansNothingLeft'
      BY <2>1, <2>2
      DEF RequestInv, DoneIsSaid, IsFinal, CallKeepsReceiver, RaiseMeansNothingLeft
    <2>6. QED
      BY <2>3, <2>4, <2>5 DEF RequestInv
  <1>2. CASE Client
    BY <1>2, ClientStep
  <1>3. CASE Forwarder
    BY <1>3, ForwardDataStep, ForwardEofStep, ForwardReadErrorStep DEF Forwarder
  <1>4. CASE Application
    BY <1>4, CallStep, ReceiveMessageStep, ReceiveRaisesStep, DropReceiverStep
    DEF Application, ReceiveCompletes
  <1>5. QED
    BY <1>1, <1>2, <1>3, <1>4 DEF RequestNext

-----------------------------------------------------------------------------
(* Theorems *)

\* The invariant of the request path; it contains the type invariant.
THEOREM RequestInvHolds == RequestSpec => []RequestInv
  <1>1. QED
    BY RequestInitInv, RequestStepInv, PTL DEF RequestSpec

\* What forward_http_request (http.rs) makes of the stream is the client's
\* data in order, with no gap and nothing twice, for every body, every way of
\* splitting it into reads and every capacity of the stream.
THEOREM BodyArrivesWhole == RequestSpec => []BodyIsContiguous
  <1>1. RequestInv => BodyIsContiguous
    BY DEF RequestInv, Contiguous, NothingSkipped, EndOf, BodyIsContiguous
  <1>2. QED
    BY RequestInvHolds, <1>1, PTL

\* more_body = False is said only of a body the client ended, after all of it.
THEOREM FinalIsTrue == RequestSpec => []FinalMeansComplete
  <1>1. RequestInv => FinalMeansComplete
    BY DEF RequestInv
  <1>2. QED
    BY RequestInvHolds, <1>1, PTL

\* receive() raises only after the last message or on a broken connection.
THEOREM RaiseIsLast == RequestSpec => []RaiseMeansNothingLeft
  <1>1. RequestInv => RaiseMeansNothingLeft
    BY DEF RequestInv
  <1>2. QED
    BY RequestInvHolds, <1>1, PTL

=============================================================================
