------------------------ MODULE EventProducerProofs ------------------------
(***************************************************************************)
(* What a process promises of its events, for any number of threads, of    *)
(* events and of retries, and any capacity of the buffer.                  *)
(***************************************************************************)
EXTENDS EventProducer, SequenceTheorems, TLAPS

-----------------------------------------------------------------------------
(* The inductive invariant.  The flag is the hinge: while it is set, every *)
(* answer given is "ok".  A thread that read it as set may send when it is *)
(* cleared already, but gives no answer in between: an event is sent only  *)
(* after all the earlier ones of its thread were acknowledged.             *)

Publishing ==
  \A p \in Publishers : pc[p] # "idle" => Len(answered[p]) < MaxEvents

ConnectedIsOk ==
  connected => /\ \A e \in Event : AnswerTo(e) # "buffered"
               /\ \A p \in Publishers : pc[p] # "buffer"

SenderIsOk ==
  \A p \in Publishers : pc[p] = "send" =>
    \A n \in 1 .. Len(answered[p]) : answered[p][n] = "ok"

SentInOrder ==
  \A e \in Event : future[e] # "none" =>
    \A n \in 1 .. e.n - 1 : AnswerTo(Earlier(e, n)) = "ok"

OkIsAcknowledged ==
  \A e \in Event : AnswerTo(e) = "ok" => future[e] = "acknowledged"

AcknowledgedIsInLog ==
  \A e \in Event : future[e] = "acknowledged" => \E i \in DOMAIN log : log[i] = e

LogWasSent == \A i \in DOMAIN log : future[log[i]] # "none"

BufferedOnly == \A i \in DOMAIN buffer : AnswerTo(buffer[i]) = "buffered"

ProducerInv ==
  /\ TypeOK
  /\ Publishing
  /\ ConnectedIsOk
  /\ SenderIsOk
  /\ SentInOrder
  /\ OkIsAcknowledged
  /\ AcknowledgedIsInLog
  /\ LogWasSent
  /\ StoredInOrder
  /\ BufferedOnly
  /\ BufferKeepsNewest

LEMMA InitInv == Init => ProducerInv
<1> SUFFICES ASSUME Init PROVE ProducerInv
  OBVIOUS
<1>1. TypeOK
  BY ProducerAssumption DEF Init, TypeOK
<1>2. \A e \in Event : AnswerTo(e) = "none"
  BY DEF Init, AnswerTo, Event
<1> QED
  BY <1>1, <1>2 DEF Init, ProducerInv, Publishing, ConnectedIsOk, SenderIsOk, SentInOrder, OkIsAcknowledged,
     AcknowledgedIsInLog, LogWasSent, StoredInOrder, BufferedOnly, BufferKeepsNewest

-----------------------------------------------------------------------------
(* The event a thread publishes has not been answered, and its answer      *)
(* changes that of no other event.                                         *)

LEMMA CurrentIsAnEvent ==
  ASSUME ProducerInv, NEW p \in Publishers, pc[p] # "idle"
  PROVE  Current(p) \in Event /\ AnswerTo(Current(p)) = "none"
BY ProducerAssumption DEF ProducerInv, TypeOK, Publishing, Current, Event, AnswerTo

LEMMA AnswerEffect ==
  ASSUME ProducerInv, NEW p \in Publishers, pc[p] # "idle",
         NEW a \in {"ok", "buffered"}, Answer(p, a)
  PROVE  /\ answered' \in [Publishers -> Seq({"ok", "buffered"})]
         /\ \A q \in Publishers : Len(answered'[q]) <= MaxEvents
         /\ \A q \in Publishers : pc'[q] # "idle" => Len(answered'[q]) < MaxEvents
         /\ \A e \in Event : AnswerTo(e)' = IF e = Current(p) THEN a ELSE AnswerTo(e)
         /\ SenderIsOk'
<1>1. /\ answered[p] \in Seq({"ok", "buffered"}) /\ Len(answered[p]) < MaxEvents
      /\ answered' = [answered EXCEPT ![p] = Append(answered[p], a)]
      /\ pc' = [pc EXCEPT ![p] = "idle"]
  BY DEF ProducerInv, TypeOK, Publishing, Answer
<1>2. /\ answered'[p] = Append(answered[p], a)
      /\ \A q \in Publishers \ {p} : answered'[q] = answered[q] /\ pc'[q] = pc[q]
      /\ pc'[p] = "idle"
  BY <1>1 DEF ProducerInv, TypeOK
<1>3. answered' \in [Publishers -> Seq({"ok", "buffered"})]
  BY <1>1 DEF ProducerInv, TypeOK
<1>4. \A q \in Publishers : Len(answered'[q]) <= MaxEvents
  BY <1>1, <1>2, ProducerAssumption DEF ProducerInv, TypeOK
<1>5. \A q \in Publishers : pc'[q] # "idle" => Len(answered'[q]) < MaxEvents
  BY <1>2 DEF ProducerInv, Publishing
<1>6. ASSUME NEW e \in Event
      PROVE  AnswerTo(e)' = IF e = Current(p) THEN a ELSE AnswerTo(e)
  <2>1. CASE e.by # p
    BY <1>2, <2>1 DEF AnswerTo, Current, Event
  <2>2. CASE e.by = p
    <3>1. e = Current(p) <=> e.n = Len(answered[p]) + 1
      BY <2>2 DEF Current, Event
    <3> QED
      BY <1>1, <1>2, <2>2, <3>1 DEF AnswerTo, Event
  <2> QED
    BY <2>1, <2>2
<1>7. SenderIsOk'
  BY <1>2 DEF ProducerInv, SenderIsOk
<1> QED
  BY <1>3, <1>4, <1>5, <1>6, <1>7

-----------------------------------------------------------------------------
(* The steps that answer nothing and store nothing.                        *)

LEMMA AnswersKept ==
  ASSUME UNCHANGED answered
  PROVE  /\ \A e : AnswerTo(e)' = AnswerTo(e)
         /\ \A p : Current(p)' = Current(p)
BY DEF AnswerTo, Current

(* While the flag is set the answers are all ok.                           *)
LEMMA ConnectedAnswers ==
  ASSUME ProducerInv, connected, NEW p \in Publishers, NEW n \in 1 .. Len(answered[p])
  PROVE  answered[p][n] = "ok" /\ AnswerTo([by |-> p, n |-> n]) = "ok"
<1>1. n \in 1 .. MaxEvents /\ answered[p][n] \in {"ok", "buffered"}
  BY ProducerAssumption DEF ProducerInv, TypeOK
<1>2. [by |-> p, n |-> n] \in Event /\ AnswerTo([by |-> p, n |-> n]) = answered[p][n]
  BY <1>1 DEF Event, AnswerTo
<1> QED
  BY <1>1, <1>2 DEF ProducerInv, ConnectedIsOk

LEMMA QuietSteps ==
  ASSUME ProducerInv, NEW p \in Publishers,
         \/ Publish(p) \/ Online(p) \/ Offline(p)
         \/ SendRaises(p) \/ SendFails(p) \/ Disconnect(p)
  PROVE  ProducerInv'
<1>1. /\ UNCHANGED <<buffer, answered, future, log>>
      /\ pc' \in [Publishers -> {"idle", "check", "send", "wait", "failed", "buffer"}]
      /\ connected' \in BOOLEAN /\ (connected' => connected)
  <2>1. /\ UNCHANGED <<buffer, answered, future, log>>
        /\ pc' \in [Publishers -> {"idle", "check", "send", "wait", "failed", "buffer"}]
    BY DEF Publish, Online, Offline, SendRaises, SendFails, Disconnect, ProducerInv, TypeOK
  <2>2. connected' = connected \/ connected' = FALSE
    BY DEF Publish, Online, Offline, SendRaises, SendFails, Disconnect, AfterFailure
  <2>3. connected \in BOOLEAN
    BY DEF ProducerInv, TypeOK
  <2>4. connected' \in BOOLEAN
    BY <2>2, <2>3
  <2>5. ASSUME connected' PROVE connected
    BY <2>2, <2>5
  <2> QED
    BY <2>1, <2>4, <2>5
<1>2. Publishing'
  BY DEF Publish, Online, Offline, SendRaises, SendFails, Disconnect, ProducerInv, TypeOK, Publishing
<1>3. ConnectedIsOk'
  BY <1>1, AnswersKept DEF Publish, Online, Offline, SendRaises, SendFails, Disconnect, AfterFailure,
     ProducerInv, TypeOK, ConnectedIsOk
<1>4. TypeOK'
  BY <1>1 DEF ProducerInv, TypeOK
<1>5. /\ SentInOrder' /\ OkIsAcknowledged' /\ AcknowledgedIsInLog' /\ LogWasSent'
      /\ BufferedOnly'
  BY <1>1, AnswersKept DEF ProducerInv, SentInOrder, OkIsAcknowledged, AcknowledgedIsInLog,
     LogWasSent, BufferedOnly
<1>6. StoredInOrder' /\ BufferKeepsNewest'
  BY <1>1, AnswersKept DEF ProducerInv, StoredInOrder, BufferKeepsNewest
<1>7. SenderIsOk'
  <2>1. ASSUME NEW q \in Publishers, pc'[q] = "send", NEW n \in 1 .. Len(answered[q])
        PROVE  answered[q][n] = "ok"
    <3>1. CASE pc[q] = "send"
      BY <2>1, <3>1 DEF ProducerInv, SenderIsOk
    <3>2. CASE pc[q] # "send"
      <4>1. connected
        BY <2>1, <3>2 DEF Publish, Online, Offline, SendRaises, SendFails, Disconnect,
           ProducerInv, TypeOK
      <4> QED
        BY <4>1, ConnectedAnswers
    <3> QED
      BY <3>1, <3>2
  <2> QED
    BY <1>1, <2>1 DEF SenderIsOk
<1> QED
  BY <1>2, <1>3, <1>4, <1>5, <1>6, <1>7 DEF ProducerInv

(* An event is sent after the flag was read: all before it were answered   *)
(* ok.                                                                     *)
LEMMA SendStep ==
  ASSUME ProducerInv, NEW p \in Publishers, Send(p)
  PROVE  ProducerInv'
<1> DEFINE e == Current(p)
<1>1. e \in Event /\ AnswerTo(e) = "none"
  BY CurrentIsAnEvent DEF Send
<1>2. /\ future' = [future EXCEPT ![e] = "pending"]
      /\ UNCHANGED <<connected, buffer, answered, log>>
      /\ pc' = [pc EXCEPT ![p] = "wait"] /\ pc[p] = "send"
  BY DEF Send
<1>3. \A n \in 1 .. e.n - 1 : AnswerTo(Earlier(e, n)) = "ok"
  <2>1. e.n = Len(answered[p]) + 1 /\ Len(answered[p]) \in Nat
    BY DEF Current, ProducerInv, TypeOK
  <2>2. \A n \in 1 .. Len(answered[p]) : answered[p][n] = "ok"
    BY <1>2 DEF ProducerInv, SenderIsOk
  <2> QED
    BY <2>1, <2>2 DEF Current, Earlier, AnswerTo
<1> HIDE DEF e
<1>4. /\ future'[e] = "pending"
      /\ \A x \in Event \ {e} : future'[x] = future[x]
  BY <1>1, <1>2 DEF ProducerInv, TypeOK
<1>5. TypeOK' /\ Publishing'
  BY <1>1, <1>2 DEF ProducerInv, TypeOK, Publishing
<1>6. ConnectedIsOk' /\ SenderIsOk'
  BY <1>2, AnswersKept DEF ProducerInv, TypeOK, ConnectedIsOk, SenderIsOk
<1>7. SentInOrder'
  BY <1>1, <1>2, <1>3, <1>4, AnswersKept DEF ProducerInv, SentInOrder, Earlier
<1>8. OkIsAcknowledged' /\ AcknowledgedIsInLog' /\ BufferedOnly'
  BY <1>1, <1>2, <1>4, AnswersKept DEF ProducerInv, OkIsAcknowledged, AcknowledgedIsInLog,
     BufferedOnly
<1>9. LogWasSent'
  <2>1. \A i \in DOMAIN log : log[i] \in Event
    BY DEF ProducerInv, TypeOK
  <2> QED
    BY <1>2, <1>4, <2>1 DEF ProducerInv, LogWasSent
<1>10. StoredInOrder' /\ BufferKeepsNewest'
  BY <1>2, AnswersKept DEF ProducerInv, StoredInOrder, BufferKeepsNewest
<1> QED
  BY <1>5, <1>6, <1>7, <1>8, <1>9, <1>10 DEF ProducerInv

(* An acknowledged event is answered ok.                                   *)
LEMMA SendSucceedsStep ==
  ASSUME ProducerInv, NEW p \in Publishers, SendSucceeds(p)
  PROVE  ProducerInv'
<1> DEFINE c == Current(p)
<1>1. c \in Event /\ AnswerTo(c) = "none"
  BY CurrentIsAnEvent DEF SendSucceeds
<1>2. /\ UNCHANGED <<connected, buffer, future, log>>
      /\ pc[p] = "wait" /\ Answer(p, "ok") /\ future[c] = "acknowledged"
      /\ pc' = [pc EXCEPT ![p] = "idle"]
  BY DEF SendSucceeds, Acknowledged, Answer
<1>3. /\ answered' \in [Publishers -> Seq({"ok", "buffered"})]
      /\ \A q \in Publishers : Len(answered'[q]) <= MaxEvents
      /\ \A q \in Publishers : pc'[q] # "idle" => Len(answered'[q]) < MaxEvents
      /\ \A e \in Event : AnswerTo(e)' = IF e = c THEN "ok" ELSE AnswerTo(e)
      /\ SenderIsOk'
  BY <1>2, AnswerEffect
<1> HIDE DEF c
<1>4. TypeOK' /\ Publishing'
  BY <1>2, <1>3 DEF ProducerInv, TypeOK, Publishing
<1>5. ConnectedIsOk'
  BY <1>2, <1>3 DEF ProducerInv, TypeOK, ConnectedIsOk
<1>6. SentInOrder'
  <2>1. \A e \in Event : \A n \in 1 .. e.n - 1 : Earlier(e, n) \in Event
    BY ProducerAssumption DEF Event, Earlier
  <2> QED
    BY <1>2, <1>3, <2>1 DEF ProducerInv, SentInOrder, Earlier
<1>7. OkIsAcknowledged' /\ AcknowledgedIsInLog' /\ LogWasSent'
  BY <1>2, <1>3 DEF ProducerInv, OkIsAcknowledged, AcknowledgedIsInLog, LogWasSent
<1>8. BufferedOnly' /\ StoredInOrder'
  BY <1>1, <1>2, <1>3 DEF ProducerInv, TypeOK, BufferedOnly, StoredInOrder
<1>9. BufferKeepsNewest'
  BY <1>1, <1>2, <1>3 DEF ProducerInv, BufferKeepsNewest
<1> QED
  BY <1>3, <1>4, <1>5, <1>6, <1>7, <1>8, <1>9 DEF ProducerInv

-----------------------------------------------------------------------------
(* The buffer.                                                             *)

(* A bounded deque: the new element comes last, behind all the others      *)
(* while there is room, and behind all but the oldest when there is none.  *)
LEMMA PushedProperties ==
  ASSUME NEW queue \in Seq(Event), Len(queue) <= Capacity, NEW e \in Event
  PROVE  /\ Pushed(queue, e) \in Seq(Event)
         /\ Len(Pushed(queue, e)) \in 1 .. Capacity
         /\ Pushed(queue, e)[Len(Pushed(queue, e))] = e
         /\ Len(queue) < Capacity =>
              /\ Len(Pushed(queue, e)) = Len(queue) + 1
              /\ \A i \in 1 .. Len(queue) : Pushed(queue, e)[i] = queue[i]
         /\ Len(queue) = Capacity =>
              /\ Len(Pushed(queue, e)) = Len(queue)
              /\ \A i \in 1 .. Len(queue) - 1 : Pushed(queue, e)[i] = queue[i + 1]
<1>1. CASE Len(queue) < Capacity
  BY <1>1, ProducerAssumption DEF Pushed
<1>2. CASE Len(queue) = Capacity
  <2>1. queue # << >> /\ Tail(queue) \in Seq(Event) /\ Len(Tail(queue)) = Len(queue) - 1
        /\ \A i \in 1 .. Len(queue) - 1 : Tail(queue)[i] = queue[i + 1]
    BY <1>2, ProducerAssumption
  <2>2. Pushed(queue, e) = Append(Tail(queue), e)
    BY <1>2 DEF Pushed
  <2> QED
    BY <1>2, <2>1, <2>2, ProducerAssumption
<1> QED
  BY <1>1, <1>2, ProducerAssumption

(* The event buffered is newer than all of its thread that were answered.  *)
LEMMA BufferStep ==
  ASSUME ProducerInv, NEW p \in Publishers, Buffer(p)
  PROVE  ProducerInv'
<1> DEFINE c == Current(p)
<1>1. c \in Event /\ AnswerTo(c) = "none"
  BY CurrentIsAnEvent DEF Buffer
<1>2. /\ UNCHANGED <<connected, future, log>>
      /\ pc[p] = "buffer" /\ Answer(p, "buffered")
      /\ pc' = [pc EXCEPT ![p] = "idle"]
      /\ buffer' = Pushed(buffer, c)
  BY DEF Buffer, Answer
<1>3. /\ answered' \in [Publishers -> Seq({"ok", "buffered"})]
      /\ \A q \in Publishers : Len(answered'[q]) <= MaxEvents
      /\ \A q \in Publishers : pc'[q] # "idle" => Len(answered'[q]) < MaxEvents
      /\ \A e \in Event : AnswerTo(e)' = IF e = c THEN "buffered" ELSE AnswerTo(e)
      /\ SenderIsOk'
  BY <1>2, AnswerEffect
<1>4. \A e \in Event : e.by = c.by /\ AnswerTo(e) # "none" => e.n < c.n
  BY ProducerAssumption DEF ProducerInv, TypeOK, AnswerTo, Current, Event
<1>5. buffer \in Seq(Event) /\ Len(buffer) <= Capacity
  BY DEF ProducerInv, TypeOK
<1> HIDE DEF c
<1>6. /\ buffer' \in Seq(Event) /\ Len(buffer') \in 1 .. Capacity
      /\ buffer'[Len(buffer')] = c
      /\ Len(buffer) < Capacity =>
           /\ Len(buffer') = Len(buffer) + 1
           /\ \A i \in 1 .. Len(buffer) : buffer'[i] = buffer[i]
      /\ Len(buffer) = Capacity =>
           /\ Len(buffer') = Len(buffer)
           /\ \A i \in 1 .. Len(buffer) - 1 : buffer'[i] = buffer[i + 1]
  BY <1>1, <1>2, <1>5, PushedProperties
<1>7. TypeOK' /\ Publishing'
  <2>1. Len(buffer') <= Capacity
    BY <1>6, ProducerAssumption
  <2>2. pc' \in [Publishers -> {"idle", "check", "send", "wait", "failed", "buffer"}]
    BY <1>2 DEF ProducerInv, TypeOK
  <2>3. TypeOK'
    BY <1>2, <1>3, <1>6, <2>1, <2>2 DEF ProducerInv, TypeOK
  <2>4. Publishing'
    BY <1>3 DEF Publishing
  <2> QED
    BY <2>3, <2>4
<1>8. ConnectedIsOk'
  BY <1>2 DEF ProducerInv, ConnectedIsOk
<1>9. SentInOrder' /\ OkIsAcknowledged'
  <2>1. \A e \in Event : \A n \in 1 .. e.n - 1 : Earlier(e, n) \in Event
    BY ProducerAssumption DEF Event, Earlier
  <2> QED
    BY <1>1, <1>2, <1>3, <2>1 DEF ProducerInv, SentInOrder, OkIsAcknowledged, Earlier
<1>10. AcknowledgedIsInLog' /\ LogWasSent' /\ StoredInOrder'
  BY <1>2 DEF ProducerInv, AcknowledgedIsInLog, LogWasSent, StoredInOrder
<1>0. \A i \in 1 .. Len(buffer) :
         buffer[i] \in Event /\ AnswerTo(buffer[i]) = "buffered" /\ buffer[i] # c
  BY <1>1, <1>5 DEF ProducerInv, BufferedOnly
<1>12. PICK d \in {0, 1} :
         /\ d = (IF Len(buffer) < Capacity THEN 0 ELSE 1)
         /\ Len(buffer') = Len(buffer) + 1 - d
         /\ \A i \in 1 .. Len(buffer') - 1 : i + d \in 1 .. Len(buffer) /\ buffer'[i] = buffer[i + d]
         /\ Len(buffer') \in Nat \ {0} /\ Len(buffer) \in Nat
         /\ d = 1 => Len(buffer) = Capacity /\ Len(buffer') = Capacity
  BY <1>5, <1>6, ProducerAssumption
<1>13. BufferedOnly'
  <2>1. \A e \in Event : AnswerTo(e)' = "buffered" <=> e = c \/ AnswerTo(e) = "buffered"
    BY <1>3
  <2>2. ASSUME NEW i \in 1 .. Len(buffer') PROVE AnswerTo(buffer[i])' = "buffered"
    <3>1. CASE i = Len(buffer')
      BY <1>1, <1>6, <2>1, <3>1 DEF AnswerTo
    <3>2. CASE i # Len(buffer')
      <4>1. i \in 1 .. Len(buffer') - 1
        BY <1>12, <3>2
      <4>2. buffer'[i] = buffer[i + d] /\ i + d \in 1 .. Len(buffer)
        BY <1>12, <4>1
      <4>3. buffer'[i] \in Event /\ AnswerTo(buffer[i + d]) = "buffered"
        BY <1>0, <4>2
      <4> QED
        BY <2>1, <4>2, <4>3 DEF AnswerTo
    <3> QED
      BY <3>1, <3>2
  <2>3. DOMAIN buffer' = 1 .. Len(buffer')
    BY <1>6
  <2> QED
    BY <2>2, <2>3 DEF BufferedOnly
<1>14. BufferKeepsNewest'
  <2>1. ASSUME NEW i \in 1 .. Len(buffer'), NEW j \in 1 .. Len(buffer'), i < j,
               buffer'[i].by = buffer'[j].by
        PROVE  buffer'[i].n < buffer'[j].n
    <3>1. i \in 1 .. Len(buffer') - 1 /\ buffer'[i] = buffer[i + d] /\ i + d \in 1 .. Len(buffer)
      BY <1>6, <1>12, <2>1
    <3>2. CASE j = Len(buffer')
      BY <1>4, <1>6, <1>0, <2>1, <3>1, <3>2
    <3>3. CASE j # Len(buffer')
      <4>1. j \in 1 .. Len(buffer') - 1 /\ buffer'[j] = buffer[j + d] /\ j + d \in 1 .. Len(buffer)
        <5>1. j \in 1 .. Len(buffer') - 1
          BY <1>12, <3>3
        <5> QED
          BY <1>12, <5>1
      <4>2. i + d < j + d
        BY <2>1
      <4> QED
        BY <1>5, <2>1, <3>1, <4>1, <4>2 DEF ProducerInv, BufferKeepsNewest
    <3> QED
      BY <3>2, <3>3
  <2>2. ASSUME NEW e \in Event, AnswerTo(e)' = "buffered"
        PROVE  \/ \E i \in 1 .. Len(buffer') : buffer'[i] = e
               \/ /\ Len(buffer') = Capacity
                  /\ \A i \in 1 .. Len(buffer') : buffer'[i].by = e.by => buffer'[i].n > e.n
    <3>1. CASE e = c
      BY <1>6, <3>1
    <3>2. CASE e # c
      <4>1. AnswerTo(e) = "buffered"
        BY <1>3, <2>2, <3>2
      <4>2. c.by = e.by => c.n > e.n
        BY <1>1, <1>4, <4>1 DEF Event
      <4>3. CASE \E i \in 1 .. Len(buffer) : buffer[i] = e
        <5>1. PICK i \in 1 .. Len(buffer) : buffer[i] = e
          BY <4>3
        <5>2. CASE i > d
          <6>1. i - d \in 1 .. Len(buffer') - 1 /\ (i - d) + d = i
            BY <1>12, <5>1, <5>2
          <6>2. buffer'[i - d] = buffer[i] /\ i - d \in 1 .. Len(buffer')
            BY <1>12, <6>1
          <6> QED
            BY <5>1, <6>2
        <5>3. CASE i = 1 /\ d = 1
          <6>1. Len(buffer') = Capacity
            BY <1>12, <5>3
          <6>2. ASSUME NEW k \in 1 .. Len(buffer') - 1, buffer'[k].by = e.by
                PROVE  buffer'[k].n > e.n
            <7>1. buffer'[k] = buffer[k + 1] /\ k + 1 \in 1 .. Len(buffer)
              BY <1>12, <5>3, <6>2
            <7>2. buffer[1].n < buffer[k + 1].n
              BY <1>5, <5>1, <5>3, <6>2, <7>1 DEF ProducerInv, BufferKeepsNewest
            <7> QED
              BY <1>0, <5>1, <5>3, <7>1, <7>2 DEF Event
          <6> QED
            BY <1>6, <4>2, <6>1, <6>2
        <5> QED
          BY <5>2, <5>3
      <4>4. CASE ~\E i \in 1 .. Len(buffer) : buffer[i] = e
        <5>1. Len(buffer) = Capacity /\ \A i \in 1 .. Len(buffer) : buffer[i].by = e.by => buffer[i].n > e.n
          BY <1>5, <4>1, <4>4 DEF ProducerInv, BufferKeepsNewest
        <5>2. d = 1 /\ Len(buffer') = Capacity
          BY <1>5, <1>6, <1>12, <5>1, ProducerAssumption
        <5>3. ASSUME NEW i \in 1 .. Len(buffer') - 1, buffer'[i].by = e.by
              PROVE  buffer'[i].n > e.n
          <6>1. buffer'[i] = buffer[i + d] /\ i + d \in 1 .. Len(buffer)
            BY <1>12
          <6> QED
            BY <5>1, <5>3, <6>1
        <5>4. \A i \in 1 .. Len(buffer') : i = Len(buffer') \/ i \in 1 .. Len(buffer') - 1
          BY <1>12
        <5> QED
          BY <1>6, <4>2, <5>2, <5>3, <5>4
      <4> QED
        BY <4>3, <4>4
    <3> QED
      BY <3>1, <3>2
  <2> QED
    BY <1>6, <2>1, <2>2 DEF BufferKeepsNewest
<1> QED
  BY <1>3, <1>7, <1>8, <1>9, <1>10, <1>13, <1>14 DEF ProducerInv

-----------------------------------------------------------------------------
(* The broker.  A record that arrives has not been acknowledged, so none   *)
(* of its thread was sent after it; the earlier ones are all stored.       *)

LEMMA ArriveStep ==
  ASSUME ProducerInv, NEW e \in Event, Arrive(e)
  PROVE  ProducerInv'
<1>1. /\ UNCHANGED <<connected, buffer, pc, answered>>
      /\ future[e] \in {"pending", "failed"}
      /\ log' = Append(log, e)
      /\ \/ future' = [future EXCEPT ![e] = IF @ = "pending" THEN "acknowledged" ELSE @]
         \/ UNCHANGED future
  BY DEF Arrive
<1>2. /\ log' \in Seq(Event) /\ Len(log') = Len(log) + 1 /\ Len(log) \in Nat
      /\ log'[Len(log) + 1] = e
      /\ \A i \in 1 .. Len(log) : log'[i] = log[i] /\ log[i] \in Event
      /\ DOMAIN log = 1 .. Len(log) /\ DOMAIN log' = 1 .. Len(log')
  BY <1>1 DEF ProducerInv, TypeOK
<1>3. /\ future' \in [Event -> {"none", "pending", "acknowledged", "failed"}]
      /\ \A x \in Event : future'[x] = "none" <=> future[x] = "none"
      /\ \A x \in Event : future[x] = "acknowledged" => future'[x] = "acknowledged"
      /\ \A x \in Event : future'[x] = "acknowledged" => future[x] = "acknowledged" \/ x = e
  BY <1>1 DEF ProducerInv, TypeOK
<1>4. TypeOK' /\ Publishing' /\ ConnectedIsOk' /\ SenderIsOk'
  <2>1. TypeOK'
    BY <1>1, <1>2, <1>3 DEF ProducerInv, TypeOK
  <2>2. Publishing' /\ ConnectedIsOk'
    BY <1>1, <1>3, AnswersKept DEF ProducerInv, Publishing, ConnectedIsOk
  <2>3. SenderIsOk'
    BY <1>1, <1>3, AnswersKept DEF ProducerInv, SenderIsOk
  <2> QED
    BY <2>1, <2>2, <2>3
<1>5. SentInOrder' /\ OkIsAcknowledged' /\ BufferedOnly' /\ BufferKeepsNewest'
  BY <1>1, <1>3, AnswersKept DEF ProducerInv, SentInOrder, OkIsAcknowledged, BufferedOnly,
     BufferKeepsNewest
<1>6. AcknowledgedIsInLog'
  <2>1. ASSUME NEW x \in Event, future'[x] = "acknowledged"
        PROVE  \E i \in 1 .. Len(log') : log'[i] = x
    <3>1. CASE x = e
      BY <1>2, <3>1
    <3>2. CASE x # e
      <4>1. PICK i \in 1 .. Len(log) : log[i] = x
        BY <1>2, <1>3, <2>1, <3>2 DEF ProducerInv, AcknowledgedIsInLog
      <4> QED
        BY <1>2, <4>1
    <3> QED
      BY <3>1, <3>2
  <2> QED
    BY <1>2, <2>1 DEF AcknowledgedIsInLog
<1>7. LogWasSent'
  <2>1. ASSUME NEW i \in 1 .. Len(log') PROVE future'[log'[i]] # "none"
    <3>1. CASE i = Len(log) + 1
      BY <1>1, <1>2, <1>3, <3>1
    <3>2. CASE i # Len(log) + 1
      <4>1. i \in 1 .. Len(log)
        BY <1>2, <3>2
      <4> QED
        BY <1>2, <1>3, <4>1 DEF ProducerInv, LogWasSent
    <3> QED
      BY <3>1, <3>2
  <2> QED
    BY <1>2, <2>1 DEF LogWasSent
<1>8. StoredInOrder'
  <2>1. ASSUME NEW x \in Event, future[x] # "none", NEW n \in 1 .. x.n - 1
        PROVE  /\ Earlier(x, n) \in Event
               /\ future[Earlier(x, n)] = "acknowledged"
               /\ Earlier(x, n) # e
    <3>1. Earlier(x, n) \in Event
      BY <2>1, ProducerAssumption DEF Event, Earlier
    <3> QED
      BY <1>1, <2>1, <3>1 DEF ProducerInv, SentInOrder, OkIsAcknowledged
  <2>2. ASSUME NEW i \in 1 .. Len(log'), NEW n \in 1 .. log'[i].n - 1
        PROVE  /\ \E j \in 1 .. i - 1 : log'[j] = Earlier(log'[i], n)
               /\ \A k \in i + 1 .. Len(log') : log'[k] # Earlier(log'[i], n)
    <3>1. CASE i = Len(log) + 1
      <4>1. log'[i] = e /\ future[e] # "none" /\ n \in 1 .. e.n - 1
        BY <1>1, <1>2, <3>1
      <4>2. PICK j \in 1 .. Len(log) : log[j] = Earlier(e, n)
        BY <1>2, <2>1, <4>1 DEF ProducerInv, AcknowledgedIsInLog
      <4> QED
        BY <1>2, <3>1, <4>1, <4>2
    <3>2. CASE i # Len(log) + 1
      <4>1. i \in 1 .. Len(log) /\ log'[i] = log[i] /\ log[i] \in Event
        BY <1>2, <3>2
      <4>2. future[log[i]] # "none"
        BY <1>2, <4>1 DEF ProducerInv, LogWasSent
      <4>3. /\ \E j \in 1 .. i - 1 : log[j] = Earlier(log[i], n)
            /\ \A k \in i + 1 .. Len(log) : log[k] # Earlier(log[i], n)
        BY <1>2, <4>1 DEF ProducerInv, StoredInOrder
      <4>4. Earlier(log[i], n) # e
        BY <2>1, <4>1, <4>2
      <4>5. \E j \in 1 .. i - 1 : log'[j] = Earlier(log'[i], n)
        BY <1>2, <4>1, <4>3
      <4>6. ASSUME NEW k \in i + 1 .. Len(log') PROVE log'[k] # Earlier(log'[i], n)
        <5>1. CASE k = Len(log) + 1
          BY <1>2, <4>1, <4>4, <5>1
        <5>2. CASE k # Len(log) + 1
          <6>1. k \in i + 1 .. Len(log) /\ k \in 1 .. Len(log)
            BY <1>2, <4>1, <5>2
          <6> QED
            BY <1>2, <4>1, <4>3, <6>1
        <5> QED
          BY <5>1, <5>2
      <4> QED
        BY <4>5, <4>6
    <3> QED
      BY <3>1, <3>2
  <2>3. StoredInOrder' <=>
          \A i \in 1 .. Len(log') : \A n \in 1 .. log'[i].n - 1 :
            /\ \E j \in 1 .. i - 1 : log'[j] = Earlier(log'[i], n)
            /\ \A k \in i + 1 .. Len(log') : log'[k] # Earlier(log'[i], n)
    BY <1>2 DEF StoredInOrder, Earlier
  <2> QED
    BY <2>2, <2>3
<1> QED
  BY <1>4, <1>5, <1>6, <1>7, <1>8 DEF ProducerInv

LEMMA GiveUpStep ==
  ASSUME ProducerInv, NEW e \in Event, GiveUp(e)
  PROVE  ProducerInv'
<1>1. /\ UNCHANGED <<connected, buffer, pc, answered, log>>
      /\ future[e] = "pending"
      /\ future' = [future EXCEPT ![e] = "failed"]
  BY DEF GiveUp
<1>2. /\ future' \in [Event -> {"none", "pending", "acknowledged", "failed"}]
      /\ \A x \in Event : future'[x] = "none" <=> future[x] = "none"
      /\ \A x \in Event : future'[x] = "acknowledged" <=> future[x] = "acknowledged"
  BY <1>1 DEF ProducerInv, TypeOK
<1>3. \A i \in DOMAIN log : log[i] \in Event
  BY DEF ProducerInv, TypeOK
<1>4. TypeOK' /\ Publishing' /\ ConnectedIsOk' /\ SenderIsOk' /\ LogWasSent'
  BY <1>1, <1>2, <1>3, AnswersKept DEF ProducerInv, TypeOK, Publishing, ConnectedIsOk, SenderIsOk,
     LogWasSent
<1>5. SentInOrder' /\ OkIsAcknowledged' /\ AcknowledgedIsInLog'
  BY <1>1, <1>2, AnswersKept DEF ProducerInv, SentInOrder, OkIsAcknowledged, AcknowledgedIsInLog
<1>6. StoredInOrder' /\ BufferedOnly' /\ BufferKeepsNewest'
  BY <1>1, AnswersKept DEF ProducerInv, StoredInOrder, BufferedOnly, BufferKeepsNewest
<1> QED
  BY <1>4, <1>5, <1>6 DEF ProducerInv

LEMMA NextKeepsInv == ProducerInv /\ [Next]_vars => ProducerInv'
<1> SUFFICES ASSUME ProducerInv, [Next]_vars PROVE ProducerInv'
  OBVIOUS
<1>1. CASE \E p \in Publishers : Publish(p) \/ PublishStep(p)
  BY <1>1, QuietSteps, SendStep, SendSucceedsStep, BufferStep DEF PublishStep
<1>2. CASE \E e \in Event : Arrive(e) \/ GiveUp(e)
  BY <1>2, ArriveStep, GiveUpStep
<1>3. CASE Done \/ UNCHANGED vars
  <2>1. UNCHANGED vars
    BY <1>3 DEF Done
  <2>2. TypeOK' /\ Publishing' /\ ConnectedIsOk' /\ SenderIsOk' /\ LogWasSent'
    BY <2>1, AnswersKept DEF vars, ProducerInv, TypeOK, Publishing, ConnectedIsOk, SenderIsOk,
       LogWasSent
  <2>3. SentInOrder' /\ OkIsAcknowledged' /\ AcknowledgedIsInLog' /\ BufferedOnly'
    BY <2>1, AnswersKept DEF vars, ProducerInv, SentInOrder, OkIsAcknowledged,
       AcknowledgedIsInLog, BufferedOnly
  <2>4. StoredInOrder' /\ BufferKeepsNewest'
    BY <2>1, AnswersKept DEF vars, ProducerInv, StoredInOrder, BufferKeepsNewest
  <2> QED
    BY <2>2, <2>3, <2>4 DEF ProducerInv
<1> QED
  BY <1>1, <1>2, <1>3 DEF Next

LEMMA ProducerCorrect == Spec => []ProducerInv
<1>1. Spec => Init /\ [][Next]_vars
  BY DEF Spec
<1> QED
  BY <1>1, InitInv, NextKeepsInv, PTL

-----------------------------------------------------------------------------
(* The theorems.                                                           *)

(* The types; with them the bound of the buffer.                           *)
THEOREM TypeCorrect == Spec => []TypeOK
<1>1. ProducerInv => TypeOK
  BY DEF ProducerInv
<1> QED
  BY <1>1, ProducerCorrect, PTL

(* AcknowledgedIsStored: whatever the client retries, loses or gives up.   *)
THEOREM AcknowledgedStored == Spec => []AcknowledgedIsStored
<1>1. ProducerInv => AcknowledgedIsStored
  BY DEF ProducerInv, OkIsAcknowledged, AcknowledgedIsInLog, AcknowledgedIsStored, Copies
<1> QED
  BY <1>1, ProducerCorrect, PTL

(* StoredInOrder: no retry or late arrival overtakes, or leaves a gap.     *)
THEOREM LogInOrder == Spec => []StoredInOrder
<1>1. ProducerInv => StoredInOrder
  BY DEF ProducerInv
<1> QED
  BY <1>1, ProducerCorrect, PTL

(* BufferKeepsNewest: however the threads that fall back interleave.       *)
THEOREM BufferCorrect == Spec => []BufferKeepsNewest
<1>1. ProducerInv => BufferKeepsNewest
  BY DEF ProducerInv
<1> QED
  BY <1>1, ProducerCorrect, PTL

(* NoSendAfterFallback: a thread takes up sending only where it reads the  *)
(* flag as set, and then nobody has fallen back.                           *)
THEOREM FallbackIsFinal == Spec => NoSendAfterFallback
<1>1. ASSUME ProducerInv, [Next]_vars, FellBack, NEW p \in Sending', p \notin Sending
      PROVE  FALSE
  <2>1. /\ p \in Publishers /\ pc'[p] \in {"send", "wait"} /\ pc[p] \notin {"send", "wait"}
    BY <1>1 DEF Sending
  <2>2. Online(p)
    BY <1>1, <2>1 DEF Next, Publish, PublishStep, Online, Offline, Send, SendRaises,
       SendSucceeds, SendFails, Disconnect, Buffer, Answer, Arrive, GiveUp, Done, vars,
       ProducerInv, TypeOK
  <2>3. PICK q \in Publishers : \E n \in DOMAIN answered[q] : answered[q][n] = "buffered"
    BY <1>1 DEF FellBack
  <2>4. \E n \in 1 .. Len(answered[q]) : answered[q][n] = "buffered"
    BY <1>1, <2>3 DEF ProducerInv, TypeOK
  <2> QED
    BY <1>1, <2>2, <2>4, ConnectedAnswers DEF Online
<1>2. ProducerInv /\ [Next]_vars => (FellBack => Sending' \subseteq Sending)
  BY <1>1
<1>3. Spec => [][Next]_vars
  BY DEF Spec
<1> QED
  BY <1>2, <1>3, ProducerCorrect, PTL DEF NoSendAfterFallback

-----------------------------------------------------------------------------
(* The refinement.  A record that is stored, and an event that is          *)
(* acknowledged, was sent: all before it were answered ok.                 *)

LEMMA SentAfterOk ==
  ASSUME ProducerInv, NEW e \in Event, future[e] # "none"
  PROVE  Stream!AllOkBefore(e.by, e.n)
<1>1. \A m \in 1 .. e.n - 1 : m <= Len(answered[e.by]) /\ answered[e.by][m] = "ok"
  BY DEF ProducerInv, SentInOrder, AnswerTo, Earlier
<1>2. e.n \in Nat \ {0} /\ Len(answered[e.by]) \in Nat
  BY ProducerAssumption DEF Event, ProducerInv, TypeOK
<1>3. Len(answered[e.by]) >= e.n - 1
  <2>1. CASE e.n = 1
    BY <1>2, <2>1
  <2>2. CASE e.n # 1
    BY <1>1, <1>2, <2>2
  <2> QED
    BY <2>1, <2>2
<1> QED
  BY <1>1, <1>3 DEF Stream!AllOkBefore

(* The event answered ok is in the log.                                    *)
LEMMA SucceedsIsAnswerOk ==
  ASSUME ProducerInv, NEW p \in Publishers, SendSucceeds(p)
  PROVE  Stream!AnswerOk(p)
<1> DEFINE c == Current(p)
<1>1. /\ c \in Event /\ c.by = p /\ c.n = Len(answered[p]) + 1 /\ c.n <= MaxEvents
      /\ c = [by |-> p, n |-> Len(answered[p]) + 1]
  BY CurrentIsAnEvent, ProducerAssumption DEF SendSucceeds, Current, Event
<1>2. /\ future[c] = "acknowledged"
      /\ answered' = [answered EXCEPT ![p] = Append(@, "ok")]
      /\ UNCHANGED <<log, buffer>>
  BY DEF SendSucceeds, Acknowledged, Answer
<1> HIDE DEF c
<1>3. Stream!AllOkBefore(p, Len(answered[p]) + 1)
  BY <1>1, <1>2, SentAfterOk
<1>4. Stream!Stored(c) # {}
  BY <1>1, <1>2 DEF ProducerInv, AcknowledgedIsInLog, Stream!Stored
<1> QED
  BY <1>1, <1>2, <1>3, <1>4 DEF Stream!AnswerOk, Stream!Upcoming

(* Dropping the oldest first and pushing then keeps the newest.            *)
LEMMA PushedIsNewest ==
  ASSUME NEW queue \in Seq(Event), Len(queue) <= Capacity, NEW e \in Event
  PROVE  Pushed(queue, e) = Stream!Newest(Append(queue, e))
<1>0. /\ Pushed(queue, e) \in Seq(Event)
      /\ Pushed(queue, e)[Len(Pushed(queue, e))] = e
      /\ Len(queue) = Capacity =>
           /\ Len(Pushed(queue, e)) = Len(queue)
           /\ \A i \in 1 .. Len(queue) - 1 : Pushed(queue, e)[i] = queue[i + 1]
  BY PushedProperties
<1> DEFINE all == Append(queue, e)
<1>1. /\ all \in Seq(Event) /\ Len(all) = Len(queue) + 1 /\ Len(queue) \in Nat
      /\ all[Len(queue) + 1] = e
      /\ \A i \in 1 .. Len(queue) : all[i] = queue[i]
  OBVIOUS
<1>2. CASE Len(queue) < Capacity
  BY <1>1, <1>2, ProducerAssumption DEF Pushed, Stream!Newest
<1>3. CASE Len(queue) = Capacity
  <2> DEFINE kept == SubSeq(all, 2, Capacity + 1)
  <2>1. Stream!Newest(all) = kept
    BY <1>1, <1>3, ProducerAssumption DEF Stream!Newest
  <2>2. /\ kept \in Seq(Event) /\ Len(kept) = Capacity
        /\ \A i \in 1 .. Capacity : kept[i] = all[i + 1]
    BY <1>1, <1>3, ProducerAssumption
  <2>3. /\ Pushed(queue, e) \in Seq(Event) /\ Len(Pushed(queue, e)) = Capacity
        /\ Pushed(queue, e)[Capacity] = e
        /\ \A i \in 1 .. Capacity - 1 : Pushed(queue, e)[i] = queue[i + 1]
    BY <1>0, <1>3
  <2> HIDE DEF kept, all
  <2>4. ASSUME NEW i \in 1 .. Capacity PROVE Pushed(queue, e)[i] = kept[i]
    <3>1. CASE i = Capacity
      BY <1>1, <1>3, <2>2, <2>3, <3>1
    <3>2. CASE i # Capacity
      <4>1. i \in 1 .. Capacity - 1 /\ i + 1 \in 1 .. Len(queue)
        BY <1>3, <3>2, ProducerAssumption
      <4> QED
        BY <1>1, <2>2, <2>3, <4>1
    <3> QED
      BY <3>1, <3>2
  <2>5. Pushed(queue, e) = kept
    BY <2>2, <2>3, <2>4, SeqEqual
  <2> QED
    BY <2>1, <2>5 DEF all
<1> QED
  BY <1>2, <1>3, ProducerAssumption

LEMMA BufferIsAnswerBuffered ==
  ASSUME ProducerInv, NEW p \in Publishers, Buffer(p)
  PROVE  Stream!AnswerBuffered(p)
<1> DEFINE c == Current(p)
<1>1. /\ c \in Event /\ c.n <= MaxEvents
      /\ c = [by |-> p, n |-> Len(answered[p]) + 1]
  BY CurrentIsAnEvent, ProducerAssumption DEF Buffer, Current, Event
<1>2. /\ buffer' = Pushed(buffer, c)
      /\ answered' = [answered EXCEPT ![p] = Append(@, "buffered")]
      /\ UNCHANGED log
  BY DEF Buffer, Answer
<1> HIDE DEF c
<1>3. buffer' = Stream!Newest(Append(buffer, c))
  BY <1>1, <1>2, PushedIsNewest DEF ProducerInv, TypeOK
<1> QED
  BY <1>1, <1>2, <1>3 DEF Stream!AnswerBuffered, Stream!Upcoming

(* A record that arrives was sent and is not acknowledged, so not answered *)
(* ok.                                                                     *)
LEMMA ArriveIsStore ==
  ASSUME ProducerInv, NEW e \in Event, Arrive(e)
  PROVE  Stream!Store(e)
<1>1. /\ future[e] \in {"pending", "failed"}
      /\ Cardinality(Copies(e)) <= Retries
      /\ log' = Append(log, e)
      /\ UNCHANGED <<buffer, answered>>
  BY DEF Arrive
<1>2. Stream!AllOkBefore(e.by, e.n)
  BY <1>1, SentAfterOk
<1>3. AnswerTo(e) # "ok"
  BY <1>1 DEF ProducerInv, OkIsAcknowledged
<1>4. ~Stream!AllOkBefore(e.by, e.n + 1)
  BY <1>3, ProducerAssumption DEF Stream!AllOkBefore, AnswerTo, Event, ProducerInv, TypeOK
<1>5. Stream!Stored(e) = Copies(e)
  BY DEF Stream!Stored, Copies
<1>6. Stream!Cardinality(Stream!Stored(e)) = Cardinality(Copies(e))
  BY <1>5 DEF Stream!Cardinality, Cardinality
<1> QED
  BY <1>1, <1>2, <1>4, <1>6 DEF Stream!Store

LEMMA StepIsStreamStep ==
  ProducerInv /\ [Next]_vars => [Stream!Next]_(Stream!stream)
<1> SUFFICES ASSUME ProducerInv, [Next]_vars
             PROVE  Stream!Next \/ UNCHANGED <<log, buffer, answered>>
  BY DEF Stream!stream
<1>1. ASSUME NEW p \in Publishers, SendSucceeds(p) PROVE Stream!Next
  BY <1>1, SucceedsIsAnswerOk DEF Stream!Next
<1>2. ASSUME NEW p \in Publishers, Buffer(p) PROVE Stream!Next
  BY <1>2, BufferIsAnswerBuffered DEF Stream!Next
<1>3. ASSUME NEW p \in Publishers,
             \/ Publish(p) \/ Online(p) \/ Offline(p)
             \/ Send(p) \/ SendRaises(p) \/ SendFails(p) \/ Disconnect(p)
      PROVE  UNCHANGED <<log, buffer, answered>>
  BY <1>3 DEF Publish, Online, Offline, Send, SendRaises, SendFails, Disconnect
<1>4. ASSUME NEW e \in Event, Arrive(e) PROVE Stream!Next
  BY <1>4, ArriveIsStore DEF Stream!Next, Event, Stream!Event
<1>5. ASSUME NEW e \in Event, GiveUp(e) PROVE UNCHANGED <<log, buffer, answered>>
  BY <1>5 DEF GiveUp
<1>6. ASSUME Done \/ UNCHANGED vars PROVE UNCHANGED <<log, buffer, answered>>
  BY <1>6 DEF Done, vars
<1> QED
  BY <1>1, <1>2, <1>3, <1>4, <1>5, <1>6 DEF Next, PublishStep

(* ImplementsStream: every step of the producer, its threads interleaved   *)
(* and its records late, repeated or given up, is one of the stream or     *)
(* changes nothing of it.                                                  *)
THEOREM ProducerImplementsStream == Spec => ImplementsStream
<1>1. Init => Stream!Init
  BY DEF Init, Stream!Init
<1>2. Spec => Init /\ [][Next]_vars
  BY DEF Spec
<1> QED
  BY <1>1, <1>2, StepIsStreamStep, ProducerCorrect, PTL DEF ImplementsStream, Stream!Spec

-----------------------------------------------------------------------------
(* What EveryPublishReturns needs besides the fairness of the threads: a   *)
(* thread that publishes has a step it can take, whatever the broker does, *)
(* and at most five steps to go.                                           *)

(* The guards of the actions of PublishStep.                               *)
CanGoOn(p) ==
  \/ pc[p] \in {"check", "send"}
  \/ pc[p] = "wait" /\ (Acknowledged(Current(p)) \/ GetRaises(Current(p)))
  \/ pc[p] \in {"failed", "buffer"}

StepsLeft(p) ==
  CASE pc[p] = "check"  -> 5
    [] pc[p] = "send"   -> 4
    [] pc[p] = "wait"   -> 3
    [] pc[p] = "failed" -> 2
    [] pc[p] = "buffer" -> 1
    [] pc[p] = "idle"   -> 0

WaitingIsSent == \A p \in Publishers : pc[p] = "wait" => future[Current(p)] # "none"

LEMMA NextKeepsWaiting ==
  ASSUME ProducerInv, WaitingIsSent, [Next]_vars
  PROVE  WaitingIsSent'
<1> SUFFICES ASSUME NEW q \in Publishers, pc'[q] = "wait" PROVE future'[Current(q)'] # "none"
  BY DEF WaitingIsSent
<1>1. CASE pc[q] = "wait"
  <2>1. Current(q) \in Event /\ future[Current(q)] # "none"
    BY <1>1, CurrentIsAnEvent DEF WaitingIsSent
  <2>2. answered'[q] = answered[q]
    BY <1>1 DEF Next, Publish, PublishStep, Online, Offline, Send, SendRaises, SendSucceeds, SendFails,
       Disconnect, Buffer, Answer, Arrive, GiveUp, Done, vars, ProducerInv, TypeOK
  <2>3. future'[Current(q)] # "none"
    <3>1. CASE \E p \in Publishers : Publish(p) \/ PublishStep(p)
      BY <2>1, <3>1 DEF Publish, PublishStep, Online, Offline, Send, SendRaises, SendSucceeds, SendFails,
         Disconnect, Buffer, ProducerInv, TypeOK
    <3>2. CASE \E e \in Event : Arrive(e) \/ GiveUp(e)
      BY <2>1, <3>2 DEF Arrive, GiveUp, ProducerInv, TypeOK
    <3>3. CASE Done \/ UNCHANGED vars
      BY <2>1, <3>3 DEF Done, vars
    <3> QED
      BY <3>1, <3>2, <3>3 DEF Next
  <2> QED
    BY <2>2, <2>3 DEF Current
<1>2. CASE pc[q] # "wait"
  <2>1. Send(q)
    BY <1>2 DEF Next, Publish, PublishStep, Online, Offline, Send, SendRaises, SendSucceeds, SendFails,
       Disconnect, Buffer, Answer, Arrive, GiveUp, Done, vars, ProducerInv, TypeOK
  <2>2. Current(q) \in Event /\ Current(q)' = Current(q)
    BY <2>1, CurrentIsAnEvent DEF Send, Current
  <2> QED
    BY <2>1, <2>2 DEF Send, ProducerInv, TypeOK
<1> QED
  BY <1>1, <1>2

LEMMA WaitingInvariant == Spec => []WaitingIsSent
<1>1. Init => WaitingIsSent
  BY DEF Init, WaitingIsSent
<1>2. ProducerInv /\ WaitingIsSent /\ [Next]_vars => WaitingIsSent'
  BY NextKeepsWaiting
<1>3. Spec => Init /\ [][Next]_vars
  BY DEF Spec
<1> QED
  BY <1>1, <1>2, <1>3, ProducerCorrect, PTL

LEMMA PublisherHasGuard ==
  ASSUME ProducerInv, WaitingIsSent, NEW p \in Publishers, pc[p] # "idle"
  PROVE  CanGoOn(p)
<1>1. pc[p] \in {"check", "send", "wait", "failed", "buffer"}
  BY DEF ProducerInv, TypeOK
<1>2. CASE pc[p] = "wait"
  <2>1. future[Current(p)] \in {"pending", "acknowledged", "failed"}
    BY <1>2, CurrentIsAnEvent DEF WaitingIsSent, ProducerInv, TypeOK
  <2> QED
    BY <1>2, <2>1 DEF CanGoOn, Acknowledged, GetRaises
<1> QED
  BY <1>1, <1>2 DEF CanGoOn

(* The safety half of EveryPublishReturns, without ENABLED: the guards are *)
(* never all false, each step of a publish leaves fewer, and nobody else   *)
(* moves it (kafka.py, publish: the timeout of the wait and the deque that *)
(* never blocks).                                                          *)
THEOREM PublishGoesOn ==
  Spec => /\ [](\A p \in Publishers : pc[p] # "idle" => CanGoOn(p))
          /\ [][\A p \in Publishers : pc[p] # "idle" =>
                  \/ pc'[p] = pc[p] /\ ~PublishStep(p)
                  \/ PublishStep(p) /\ StepsLeft(p)' < StepsLeft(p)]_vars
<1>1. ProducerInv /\ WaitingIsSent =>
        \A p \in Publishers : pc[p] # "idle" => CanGoOn(p)
  BY PublisherHasGuard
<1>2. ProducerInv /\ [Next]_vars =>
        \A p \in Publishers : pc[p] # "idle" =>
          \/ pc'[p] = pc[p] /\ ~PublishStep(p)
          \/ PublishStep(p) /\ StepsLeft(p)' < StepsLeft(p)
  <2> SUFFICES ASSUME ProducerInv, [Next]_vars, NEW p \in Publishers, pc[p] # "idle"
               PROVE  \/ pc'[p] = pc[p] /\ ~PublishStep(p)
                      \/ PublishStep(p) /\ StepsLeft(p)' < StepsLeft(p)
    OBVIOUS
  <2>1. ASSUME PublishStep(p) PROVE StepsLeft(p)' < StepsLeft(p)
    BY <2>1 DEF PublishStep, Online, Offline, Send, SendRaises, SendSucceeds, SendFails, Disconnect,
       Buffer, Answer, StepsLeft, ProducerInv, TypeOK
  <2>2. ASSUME ~PublishStep(p) PROVE pc'[p] = pc[p]
    BY <2>2 DEF Next, Publish, PublishStep, Online, Offline, Send, SendRaises, SendSucceeds, SendFails,
       Disconnect, Buffer, Answer, Arrive, GiveUp, Done, vars, ProducerInv, TypeOK
  <2> QED
    BY <2>1, <2>2
<1>3. Spec => [][Next]_vars
  BY DEF Spec
<1> QED
  BY <1>1, <1>2, <1>3, WaitingInvariant, ProducerCorrect, PTL

-----------------------------------------------------------------------------
(* Liveness.  The fairness of a thread is stated with the guard of its     *)
(* step where WF has ENABLED; FairnessOfTheGuard relates the two.          *)

GuardFair(p) == []([]CanGoOn(p) => <><<PublishStep(p)>>_vars)

GuardEnables(p) == [](CanGoOn(p) => ENABLED <<PublishStep(p)>>_vars)

Idle(p) == pc[p] = "idle"

Returns(p) == pc[p] # "idle" ~> pc[p] = "idle"

(* At most n steps of the publish are left.                                *)
Within(p, n) == ~Idle(p) /\ StepsLeft(p) <= n

LEMMA PublishGetsCloser ==
  ASSUME ProducerInv, [Next]_vars, NEW p \in Publishers, NEW n \in Nat, Within(p, n)
  PROVE  /\ Within(p, n)' \/ Idle(p)'
         /\ PublishStep(p) => Within(p, n - 1)' \/ Idle(p)'
<1>1. StepsLeft(p) \in Nat
  BY DEF StepsLeft, ProducerInv, TypeOK
<1>2. CASE PublishStep(p)
  <2>1. StepsLeft(p)' < StepsLeft(p)
    BY <1>2 DEF PublishStep, Online, Offline, Send, SendRaises, SendSucceeds, SendFails, Disconnect,
       Buffer, Answer, StepsLeft, ProducerInv, TypeOK
  <2>2. pc'[p] \in {"idle", "check", "send", "wait", "failed", "buffer"}
    BY <1>2 DEF PublishStep, Online, Offline, Send, SendRaises, SendSucceeds, SendFails, Disconnect,
       Buffer, Answer, ProducerInv, TypeOK
  <2>3. StepsLeft(p)' \in Nat
    BY <2>2 DEF StepsLeft
  <2> QED
    BY <1>1, <2>1, <2>3 DEF Within
<1>3. CASE ~PublishStep(p)
  <2>1. pc'[p] = pc[p]
    BY <1>3 DEF Within, Idle, Next, Publish, PublishStep, Online, Offline, Send, SendRaises,
       SendSucceeds, SendFails, Disconnect, Buffer, Answer, Arrive, GiveUp, Done, vars,
       ProducerInv, TypeOK
  <2> QED
    BY <1>3, <2>1 DEF Within, Idle, StepsLeft
<1> QED
  BY <1>2, <1>3

(* A publish takes a step as long as it is not over, and five are enough.  *)
LEMMA PublishOfOneReturns ==
  ASSUME NEW p \in Publishers
  PROVE  Spec /\ GuardFair(p) => Returns(p)
<1>0. ProducerInv /\ [Next]_vars /\ Within(p, 5) =>
        /\ Within(p, 5)' \/ Idle(p)'
        /\ PublishStep(p) => Within(p, 4)' \/ Idle(p)'
  BY PublishGetsCloser
<1>1. ProducerInv /\ [Next]_vars /\ Within(p, 4) =>
        /\ Within(p, 4)' \/ Idle(p)'
        /\ PublishStep(p) => Within(p, 3)' \/ Idle(p)'
  BY PublishGetsCloser
<1>2. ProducerInv /\ [Next]_vars /\ Within(p, 3) =>
        /\ Within(p, 3)' \/ Idle(p)'
        /\ PublishStep(p) => Within(p, 2)' \/ Idle(p)'
  BY PublishGetsCloser
<1>3. ProducerInv /\ [Next]_vars /\ Within(p, 2) =>
        /\ Within(p, 2)' \/ Idle(p)'
        /\ PublishStep(p) => Within(p, 1)' \/ Idle(p)'
  BY PublishGetsCloser
<1>4. ProducerInv /\ [Next]_vars /\ Within(p, 1) =>
        /\ Within(p, 1)' \/ Idle(p)'
        /\ PublishStep(p) => Within(p, 0)' \/ Idle(p)'
  BY PublishGetsCloser
<1>5. ProducerInv => ~Within(p, 0) /\ (~Idle(p) => Within(p, 5))
  BY DEF Within, Idle, StepsLeft, ProducerInv, TypeOK
<1>6. ProducerInv /\ WaitingIsSent /\ ~Idle(p) => CanGoOn(p)
  BY PublisherHasGuard DEF Idle
<1>7. Spec => [][Next]_vars
  BY DEF Spec
<1>8. Spec => [](ProducerInv /\ WaitingIsSent)
  BY ProducerCorrect, WaitingInvariant, PTL
<1>9. Spec /\ GuardFair(p) => (~Idle(p) ~> Idle(p))
  BY <1>0, <1>1, <1>2, <1>3, <1>4, <1>5, <1>6, <1>7, <1>8, PTL DEF GuardFair
<1>10. pc[p] # "idle" <=> ~Idle(p)
  BY DEF Idle
<1> QED
  BY <1>9, <1>10, PTL DEF Returns, Idle

(* EveryPublishReturns, for any number of threads and events: whatever the *)
(* broker does, a publish whose thread is scheduled comes back (kafka.py,  *)
(* publish: the timeout of the wait, the buffer that never blocks).        *)
THEOREM PublishReturns ==
  Spec /\ (\A p \in Publishers : GuardFair(p)) => EveryPublishReturns
<1>1. ASSUME NEW p \in Publishers
      PROVE  Spec /\ GuardFair(p) => Returns(p)
  BY PublishOfOneReturns
<1>2. (\A p \in Publishers : Returns(p)) => EveryPublishReturns
  BY DEF EveryPublishReturns, Returns
<1> QED
  BY <1>1, <1>2

LEMMA FairnessOfTheGuard ==
  ASSUME NEW p \in Publishers
  PROVE  Fair(p) /\ GuardEnables(p) => GuardFair(p)
<1> QED
  BY PTL DEF Fair, GuardEnables, GuardFair

(* The same of the specification of the run, where the guards enable the   *)
(* steps: that they do is the one thing about ENABLED it rests on.         *)
THEOREM FairPublishReturns ==
  FairSpec /\ (\A p \in Publishers : GuardEnables(p)) => EveryPublishReturns
<1>1. FairSpec => Spec /\ \A p \in Publishers : Fair(p)
  BY DEF FairSpec
<1>2. ASSUME NEW p \in Publishers
      PROVE  Fair(p) /\ GuardEnables(p) => GuardFair(p)
  BY FairnessOfTheGuard
<1> QED
  BY <1>1, <1>2, PublishReturns
=============================================================================
