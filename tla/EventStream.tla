---------------------------- MODULE EventStream ----------------------------
(***************************************************************************)
(* What a process promises of its events, with no flag, no future and no   *)
(* client library: the events of a thread enter the broker's log one after *)
(* the other while all before them were answered ok, and from the first    *)
(* that was not they go to the buffer only, which keeps the newest.  Each  *)
(* action is one record stored or one answer of publish (infra/kafka.py);  *)
(* the detailed specification is EventProducer.                            *)
(***************************************************************************)
EXTENDS Integers, Sequences, FiniteSets

CONSTANTS Publishers, Capacity, Retries, MaxEvents

VARIABLES
  log,          \* the records stored, in order
  buffer,       \* the events kept in memory, oldest first
  answered      \* the answers each thread got, in order

stream == <<log, buffer, answered>>

Event == [by : Publishers, n : 1 .. MaxEvents]

Init ==
  /\ log = << >>
  /\ buffer = << >>
  /\ answered = [p \in Publishers |-> << >>]

(* The answers to the events of p before its n-th are n - 1, all ok.       *)
AllOkBefore(p, n) ==
  /\ Len(answered[p]) >= n - 1
  /\ \A m \in 1 .. n - 1 : answered[p][m] = "ok"

Stored(e) == {i \in DOMAIN log : log[i] = e}

(* A record is stored when the ones before it are settled, as long as it   *)
(* is not answered ok, at most Retries times again; so it may still be     *)
(* stored when it is in the buffer already.                                *)
Store(e) ==
  /\ AllOkBefore(e.by, e.n)
  /\ ~AllOkBefore(e.by, e.n + 1)
  /\ Cardinality(Stored(e)) <= Retries
  /\ log' = Append(log, e)
  /\ UNCHANGED <<buffer, answered>>

Upcoming(p) == Len(answered[p]) + 1

AnswerOk(p) ==
  LET n == Upcoming(p) IN
  /\ n <= MaxEvents
  /\ AllOkBefore(p, n)
  /\ Stored([by |-> p, n |-> n]) # {}
  /\ answered' = [answered EXCEPT ![p] = Append(@, "ok")]
  /\ UNCHANGED <<log, buffer>>

Newest(s) ==
  IF Len(s) <= Capacity THEN s ELSE SubSeq(s, Len(s) - Capacity + 1, Len(s))

AnswerBuffered(p) ==
  LET n == Upcoming(p) IN
  /\ n <= MaxEvents
  /\ buffer' = Newest(Append(buffer, [by |-> p, n |-> n]))
  /\ answered' = [answered EXCEPT ![p] = Append(@, "buffered")]
  /\ UNCHANGED log

Next ==
  \/ \E e \in Event : Store(e)
  \/ \E p \in Publishers : AnswerOk(p) \/ AnswerBuffered(p)

Spec == Init /\ [][Next]_stream
=============================================================================
