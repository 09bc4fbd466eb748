--------------------------- MODULE TriggerLedger ---------------------------
(***************************************************************************)
(* What the consumer group promises of the messages of its partition, with *)
(* no replicas, no positions and no handlers: the messages are dealt with  *)
(* one after the other, the committed offset never goes back nor passes a  *)
(* message that is not dealt with, a message starts one run and one more   *)
(* for each loss, and a run takes its results in the order of the suite,   *)
(* is completed once and reported once.  Each action is one commit, one    *)
(* call of the service or one error of a handler (infra/kafka.py); the     *)
(* detailed specification is KafkaTrigger.                                 *)
(***************************************************************************)
EXTENDS Integers, Sequences, FiniteSets

CONSTANTS LogLength, SuiteSize, MaxLosses

VARIABLES
  log,          \* what each message is
  committed,    \* the messages committed
  runs,         \* the runs triggered, in order
  raised,       \* the messages given up with an error
  losses        \* crashes and expired sessions so far

ledger == <<log, committed, runs, raised, losses>>

Messages == 1 .. LogLength

Init ==
  /\ log \in [Messages -> {"trigger", "ignored", "undecodable"}]
  /\ committed = 0
  /\ runs = << >>
  /\ raised = {}
  /\ losses = 0

Settled(m) ==
  m \in raised \/ \E i \in DOMAIN runs : runs[i].message = m /\ runs[i].reported

(* Nobody gets past an undecodable message.                                *)
DealtWith(m) ==
  \/ log[m] = "ignored"
  \/ log[m] = "trigger" /\ Settled(m)

(* The turn of a message: all before it are dealt with.                    *)
Turn(m) == \A k \in 1 .. m - 1 : DealtWith(k)

Lose ==
  /\ losses < MaxLosses
  /\ losses' = losses + 1
  /\ UNCHANGED <<log, committed, runs, raised>>

Commit(m) ==
  /\ committed < m
  /\ Turn(m) /\ DealtWith(m)
  /\ committed' = m
  /\ UNCHANGED <<log, runs, raised, losses>>

Begin(m) ==
  /\ log[m] = "trigger"
  /\ Turn(m)
  /\ Cardinality({i \in DOMAIN runs : runs[i].message = m}) <= losses
  /\ runs' = Append(runs, [message |-> m, status |-> "started",
                           stored |-> {}, reported |-> FALSE])
  /\ UNCHANGED <<log, committed, raised, losses>>

Store(i, test) ==
  /\ runs[i].status = "started"
  /\ \A earlier \in runs[i].stored : earlier < test
  /\ runs' = [runs EXCEPT ![i].stored = @ \cup {test}]
  /\ UNCHANGED <<log, committed, raised, losses>>

Complete(i) ==
  /\ runs[i].status = "started"
  /\ runs' = [runs EXCEPT ![i].status = "completed"]
  /\ UNCHANGED <<log, committed, raised, losses>>

Report(i) ==
  /\ runs[i].status = "completed" /\ ~runs[i].reported
  /\ runs' = [runs EXCEPT ![i].reported = TRUE]
  /\ UNCHANGED <<log, committed, raised, losses>>

Raise(m) ==
  /\ log[m] = "trigger"
  /\ Turn(m)
  /\ raised' = raised \cup {m}
  /\ UNCHANGED <<log, committed, runs, losses>>

Next ==
  \/ Lose
  \/ \E m \in Messages : Commit(m) \/ Begin(m) \/ Raise(m)
  \/ \E i \in DOMAIN runs :
       \/ Complete(i) \/ Report(i)
       \/ \E test \in 1 .. SuiteSize : Store(i, test)

Spec == Init /\ [][Next]_ledger
=============================================================================
