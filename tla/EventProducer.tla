--------------------------- MODULE EventProducer ---------------------------
(***************************************************************************)
(* The way of a domain event out of one process: KafkaDomainEventPublisher *)
(* (core/events/bench_events.py) over the best-effort KafkaProducer of     *)
(* infra/kafka.py.                                                         *)
(*                                                                         *)
(* Publishers are the threads of the process; the producer object they     *)
(* share has a connected flag read and written without its lock, and a     *)
(* bounded buffer under it.  A publisher waits for each of its events to   *)
(* be answered before it hands over the next, so an event is its publisher *)
(* and its number.  Topics, keys and payloads are left out: log is the     *)
(* order in which the broker stores records, over all topics.              *)
(*                                                                         *)
(* The client library and the broker are external, and known by what the   *)
(* code asks of them: retries=2, no idempotence, a future it waits for at  *)
(* most three seconds.  A record the code has given up may still arrive,   *)
(* and one whose acknowledgement is lost is stored again.                  *)
(***************************************************************************)
EXTENDS Integers, Sequences, FiniteSets

CONSTANTS
  Publishers,   \* the threads that publish
  Capacity,     \* maxlen of the in-memory buffer
  Retries,      \* times the client sends a record again
  MaxEvents     \* bound: the events each thread publishes

ASSUME ProducerAssumption ==
  /\ Capacity \in Nat \ {0}
  /\ Retries \in Nat
  /\ MaxEvents \in Nat

VARIABLES
  connected,    \* _connected
  buffer,       \* _buffer, oldest first
  pc,           \* where each thread is in publish
  answered,     \* the answers each thread got, in order
  future,       \* the future of each event that was sent
  log           \* the records the broker stored, in order

vars == <<connected, buffer, pc, answered, future, log>>

Event == [by : Publishers, n : 1 .. MaxEvents]

(* The event a thread is publishing.                                       *)
Current(p) == [by |-> p, n |-> Len(answered[p]) + 1]

Init ==
  /\ connected \in BOOLEAN
  /\ buffer = << >>
  /\ pc = [p \in Publishers |-> "idle"]
  /\ answered = [p \in Publishers |-> << >>]
  /\ future = [e \in Event |-> "none"]
  /\ log = << >>

-----------------------------------------------------------------------------
(* publish                                                                 *)

Publish(p) ==
  /\ pc[p] = "idle"
  /\ Len(answered[p]) < MaxEvents
  /\ pc' = [pc EXCEPT ![p] = "check"]
  /\ UNCHANGED <<connected, buffer, answered, future, log>>

(* The flag is read, without the lock.                                     *)
Online(p) ==
  /\ pc[p] = "check"
  /\ connected
  /\ pc' = [pc EXCEPT ![p] = "send"]
  /\ UNCHANGED <<connected, buffer, answered, future, log>>

Offline(p) ==
  /\ pc[p] = "check"
  /\ ~connected
  /\ pc' = [pc EXCEPT ![p] = "buffer"]
  /\ UNCHANGED <<connected, buffer, answered, future, log>>

(* send() blocks for up to max_block_ms, whatever becomes of the flag      *)
(* meanwhile; it returns a future, or raises when it cannot get at the     *)
(* metadata in that time.                                                  *)
Send(p) ==
  /\ pc[p] = "send"
  /\ pc' = [pc EXCEPT ![p] = "wait"]
  /\ future' = [future EXCEPT ![Current(p)] = "pending"]
  /\ UNCHANGED <<connected, buffer, answered, log>>

SendRaises(p) ==
  /\ pc[p] = "send"
  /\ pc' = [pc EXCEPT ![p] = "failed"]
  /\ UNCHANGED <<connected, buffer, answered, future, log>>

Answer(p, answer) ==
  /\ pc' = [pc EXCEPT ![p] = "idle"]
  /\ answered' = [answered EXCEPT ![p] = Append(@, answer)]

(* future.get(timeout=3) returns the acknowledgement.                      *)
(* A seeded defect: the future is not waited for.                          *)
AcknowledgedUnawaited(e) == TRUE

Acknowledged(e) == future[e] = "acknowledged"

SendSucceeds(p) ==
  /\ pc[p] = "wait"
  /\ Acknowledged(Current(p))
  /\ Answer(p, "ok")
  /\ UNCHANGED <<connected, buffer, future, log>>

(* It raises when the client gave the record up, and when the three        *)
(* seconds are over with the record still on its way.                      *)
(* A seeded defect: the wait has no timeout.                               *)
GetRaisesUntimed(e) == future[e] = "failed"

GetRaises(e) == future[e] \in {"failed", "pending"}

SendFails(p) ==
  /\ pc[p] = "wait"
  /\ GetRaises(Current(p))
  /\ pc' = [pc EXCEPT ![p] = "failed"]
  /\ UNCHANGED <<connected, buffer, answered, future, log>>

(* A seeded defect: the failure is forgotten, and the next event is sent.  *)
AfterFailureForgotten == connected

AfterFailure == FALSE

Disconnect(p) ==
  /\ pc[p] = "failed"
  /\ connected' = AfterFailure
  /\ pc' = [pc EXCEPT ![p] = "buffer"]
  /\ UNCHANGED <<buffer, answered, future, log>>

(* deque(maxlen): when full, the oldest event makes room.                  *)
(* Three seeded defects: the deque has no bound; a full one refuses; it is *)
(* full one event too early.                                               *)
PushedUnbounded(queue, e) == Append(queue, e)
PushedOneShort(queue, e) ==
  IF Len(queue) + 1 < Capacity \/ queue = << >> THEN Append(queue, e)
  ELSE Append(Tail(queue), e)
PushedOrRefused(queue, e) ==
  IF Len(queue) < Capacity THEN Append(queue, e) ELSE queue

Pushed(queue, e) ==
  IF Len(queue) < Capacity THEN Append(queue, e) ELSE Append(Tail(queue), e)

Buffer(p) ==
  /\ pc[p] = "buffer"
  /\ buffer' = Pushed(buffer, Current(p))
  /\ Answer(p, "buffered")
  /\ UNCHANGED <<connected, future, log>>

-----------------------------------------------------------------------------
(* The client library and the broker: a record arrives, at most Retries    *)
(* times more than once, and the client learns of it or does not; or the   *)
(* client gives it up, and an attempt it made may arrive even so.          *)

Copies(e) == {i \in DOMAIN log : log[i] = e}

Arrive(e) ==
  /\ future[e] \in {"pending", "failed"}
  /\ Cardinality(Copies(e)) <= Retries
  /\ log' = Append(log, e)
  /\ \/ future' = [future EXCEPT ![e] = IF @ = "pending" THEN "acknowledged" ELSE @]
     \/ UNCHANGED future
  /\ UNCHANGED <<connected, buffer, pc, answered>>

GiveUp(e) ==
  /\ future[e] = "pending"
  /\ future' = [future EXCEPT ![e] = "failed"]
  /\ UNCHANGED <<connected, buffer, pc, answered, log>>

-----------------------------------------------------------------------------

PublishStep(p) ==
  \/ Online(p) \/ Offline(p)
  \/ Send(p) \/ SendRaises(p)
  \/ SendSucceeds(p) \/ SendFails(p)
  \/ Disconnect(p) \/ Buffer(p)

(* Every thread is idle and has published its last event.                  *)
Done ==
  /\ \A p \in Publishers : pc[p] = "idle" /\ Len(answered[p]) = MaxEvents
  /\ UNCHANGED vars

Next ==
  \/ \E p \in Publishers : Publish(p) \/ PublishStep(p)
  \/ \E e \in Event : Arrive(e) \/ GiveUp(e)
  \/ Done

Spec == Init /\ [][Next]_vars

(* A thread that can go on does; nobody makes the broker answer.           *)
Fair(p) == WF_vars(PublishStep(p))

FairSpec == Spec /\ \A p \in Publishers : Fair(p)

-----------------------------------------------------------------------------
(* Type invariant.                                                         *)

TypeOK ==
  /\ connected \in BOOLEAN
  /\ buffer \in Seq(Event)
  /\ Len(buffer) <= Capacity
  /\ pc \in [Publishers -> {"idle", "check", "send", "wait", "failed", "buffer"}]
  /\ answered \in [Publishers -> Seq({"ok", "buffered"})]
  /\ \A p \in Publishers : Len(answered[p]) <= MaxEvents
  /\ future \in [Event -> {"none", "pending", "acknowledged", "failed"}]
  /\ log \in Seq(Event)

-----------------------------------------------------------------------------
(* Safety.                                                                 *)

AnswerTo(e) ==
  IF e.n <= Len(answered[e.by]) THEN answered[e.by][e.n] ELSE "none"

(* The n-th event of the thread of e.                                      *)
Earlier(e, n) == [by |-> e.by, n |-> n]

(* An event answered ok is stored by the broker (kafka.py, publish: the    *)
(* future is waited for before the answer).                                *)
AcknowledgedIsStored ==
  \A e \in Event : AnswerTo(e) = "ok" => Copies(e) # {}

(* The events of a thread are stored in the order they were published, and *)
(* none is stored after one that is missing: retries and late arrivals may *)
(* repeat an event, they never overtake and leave no gap, because the      *)
(* first failure ends sending for good (kafka.py, publish: _connected).    *)
StoredInOrder ==
  \A i \in DOMAIN log :
    \A n \in 1 .. log[i].n - 1 :
      /\ \E j \in 1 .. i - 1 : log[j] = Earlier(log[i], n)
      /\ \A k \in i + 1 .. Len(log) : log[k] # Earlier(log[i], n)

(* Some event was answered "buffered".                                     *)
FellBack == \E p \in Publishers : \E n \in DOMAIN answered[p] : answered[p][n] = "buffered"

(* The threads between reading the flag as set and the end of the wait.    *)
Sending == {p \in Publishers : pc[p] \in {"send", "wait"}}

(* Once any thread was answered "buffered", no thread takes up sending     *)
(* again: one that had read the flag before may still send the one event   *)
(* it is at, and no publish that begins later sends (kafka.py, publish:    *)
(* the flag is read without the lock, cleared before the event is          *)
(* buffered, and never set again).                                         *)
NoSendAfterFallback == [][FellBack => Sending' \subseteq Sending]_vars

(* The buffer is the tail of what was buffered: of the events of a thread  *)
(* that were answered buffered, the newest are in it in order, each once,  *)
(* and one that is not has been evicted by Capacity later ones.            *)
BufferKeepsNewest ==
  /\ \A i, j \in DOMAIN buffer :
       i < j /\ buffer[i].by = buffer[j].by => buffer[i].n < buffer[j].n
  /\ \A e \in Event :
       AnswerTo(e) = "buffered" =>
         \/ \E i \in DOMAIN buffer : buffer[i] = e
         \/ /\ Len(buffer) = Capacity
            /\ \A i \in DOMAIN buffer : buffer[i].by = e.by => buffer[i].n > e.n

-----------------------------------------------------------------------------
(* Refinement.                                                             *)

Stream == INSTANCE EventStream

(* The producer implements its promise: whatever the flag, the futures and *)
(* the broker do, each answer and each record stored is one that           *)
(* EventStream allows, and every other step changes nothing of it          *)
(* (kafka.py, publish).                                                    *)
ImplementsStream == Stream!Spec

-----------------------------------------------------------------------------
(* Liveness.                                                               *)

(* Every publish returns, whether the broker answers or not: the wait is   *)
(* bounded and the buffer never blocks (kafka.py, publish).                *)
EveryPublishReturns ==
  \A p \in Publishers : pc[p] # "idle" ~> pc[p] = "idle"
=============================================================================
