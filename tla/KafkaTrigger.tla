---------------------------- MODULE KafkaTrigger ----------------------------
(***************************************************************************)
(* Runs triggered by Kafka (infra/kafka.py): the consumer task of each     *)
(* replica and the handler build_asset_published_handler builds, which     *)
(* starts a run, submits a passed result for each test of the suite and    *)
(* completes the run.                                                      *)
(*                                                                         *)
(* The replicas form the consumer group arca-bench over one partition.     *)
(* The handler is synchronous code called from the event loop: while it    *)
(* runs, the replica's consumer neither commits nor heartbeats, so it may  *)
(* lose the partition and go on handling.  The async for hands out what    *)
(* was fetched without a turn of the loop, so a replica that lost the      *)
(* partition may even go on to the messages behind, until its loop runs    *)
(* and it learns of the loss.  A run the handler started is driven by      *)
(* nobody else; submit_result and complete_run are the facade's, and raise *)
(* only where the store does.                                              *)
(*                                                                         *)
(* aiokafka and the broker are external, and known by what the code asks   *)
(* of them: automatic commits of the position from the loop, one more when *)
(* the consumer is stopped, and auto_offset_reset="earliest".              *)
(***************************************************************************)
EXTENDS Integers, Sequences, FiniteSets

CONSTANTS
  Consumers,    \* the replicas of the service
  None,         \* no replica
  LogLength,    \* bound: the messages of the partition
  SuiteSize,    \* the tests of a suite
  MaxLosses,    \* bound: crashes and expired sessions
  MaxStops      \* bound: orderly shutdowns

ASSUME TriggerAssumption ==
  /\ IsFiniteSet(Consumers)
  /\ None \notin Consumers
  /\ LogLength \in Nat
  /\ SuiteSize \in Nat \ {0}
  /\ MaxLosses \in Nat
  /\ MaxStops \in Nat

VARIABLES
  log,          \* what each message of the partition is
  committed,    \* the messages the group has committed
  owner,        \* the replica the partition is assigned to
  state,        \* the consumer task of each replica
  position,     \* the messages it has taken since the beginning of the log
  pc,           \* where its handler is
  driving,      \* the run its handler drives
  submitted,    \* the tests of the suite the handler is through with
  runs,         \* the runs triggered so far, in order
  raised,       \* the messages whose handler raised
  losses,       \* crashes and expired sessions so far
  crashes,      \* the crashes among them
  stops         \* orderly shutdowns so far

group == <<log, committed, owner, state, position, losses, crashes, stops>>
vars == <<log, committed, owner, state, position, pc, driving, submitted, runs,
          raised, losses, crashes, stops>>

-----------------------------------------------------------------------------

(* trigger: a topic, a target and a suite the handler acts on; ignored: it *)
(* returns, or raises, before it calls the service; undecodable: no JSON.  *)
Kinds == {"trigger", "ignored", "undecodable"}
Messages == 1 .. LogLength

RunRow == [message : Messages, status : {"started", "completed"},
           stored : SUBSET (1 .. SuiteSize), reported : BOOLEAN]

Handling == {"start", "submit", "complete", "report"}

(* The consumer is up once start() got it into the group, and assigned as  *)
(* long as it takes the partition for its own; it is absent for the life   *)
(* of the process when start() fails.                                      *)
TaskStates == {"down", "up", "assigned", "absent", "ended"}

Init ==
  /\ log \in [Messages -> Kinds]
  /\ committed = 0
  /\ owner = None
  /\ state = [c \in Consumers |-> "down"]
  /\ position = [c \in Consumers |-> 0]
  /\ pc = [c \in Consumers |-> "poll"]
  /\ driving = [c \in Consumers |-> 0]
  /\ submitted = [c \in Consumers |-> 0]
  /\ runs = << >>
  /\ raised = {}
  /\ losses = 0 /\ crashes = 0 /\ stops = 0

HandlerEnds(c) ==
  /\ pc' = [pc EXCEPT ![c] = "poll"]
  /\ driving' = [driving EXCEPT ![c] = 0]
  /\ submitted' = [submitted EXCEPT ![c] = 0]

-----------------------------------------------------------------------------
(* The consumer task and its group.                                        *)

Start(c) ==
  /\ state[c] = "down"
  /\ state' = [state EXCEPT ![c] = "up"]
  /\ UNCHANGED <<log, committed, owner, position, pc, driving, submitted, runs,
                 raised, losses, crashes, stops>>

(* aiokafka is not installed, or the broker is out of reach: no retry.     *)
StartFails(c) ==
  /\ state[c] = "down"
  /\ state' = [state EXCEPT ![c] = "absent"]
  /\ UNCHANGED <<log, committed, owner, position, pc, driving, submitted, runs,
                 raised, losses, crashes, stops>>

(* A seeded defect: the handler runs beside the loop, not in it.           *)
LoopIsFreeAlways(c) == state[c] \in {"up", "assigned"}

LoopIsFree(c) == state[c] \in {"up", "assigned"} /\ pc[c] = "poll"

Assign(c) ==
  /\ owner = None
  /\ state[c] = "up"
  /\ owner' = c
  /\ state' = [state EXCEPT ![c] = "assigned"]
  /\ position' = [position EXCEPT ![c] = committed]
  /\ UNCHANGED <<log, committed, pc, driving, submitted, runs, raised, losses,
                 crashes, stops>>

AutoCommit(c) ==
  /\ owner = c
  /\ LoopIsFree(c)
  /\ committed' = position[c]
  /\ UNCHANGED <<log, owner, state, position, pc, driving, submitted, runs,
                 raised, losses, crashes, stops>>

(* A replica that lost the partition still has what it fetched before, at  *)
(* most the rest of the log; the deserializer runs as a message is handed  *)
(* out.                                                                    *)
Polls(c) ==
  /\ state[c] = "assigned"
  /\ LoopIsFree(c)
  /\ position[c] < LogLength

Take(c) ==
  /\ Polls(c)
  /\ log[position[c] + 1] # "undecodable"
  /\ position' = [position EXCEPT ![c] = @ + 1]
  /\ pc' = [pc EXCEPT ![c] =
              IF log[position[c] + 1] = "trigger" THEN "start" ELSE "poll"]
  /\ UNCHANGED <<log, committed, owner, state, driving, submitted, runs, raised,
                 losses, crashes, stops>>

(* The loop of a replica that lost the partition runs: it drops what it    *)
(* fetched, and is in the group again without the partition.               *)
Lost(c) == state[c] = "assigned" /\ owner # c

Rejoin(c) ==
  /\ Lost(c)
  /\ LoopIsFree(c)
  /\ state' = [state EXCEPT ![c] = "up"]
  /\ position' = [position EXCEPT ![c] = 0]
  /\ UNCHANGED <<log, committed, owner, pc, driving, submitted, runs, raised,
                 losses, crashes, stops>>

(* Three seeded defects: the consumer is not stopped with its task; the    *)
(* next message is committed too; so is the position of a replica that     *)
(* lost the partition.                                                     *)
LastCommitSkipped(c) == committed
LastCommitPast(c) == IF owner = c THEN position[c] + 1 ELSE committed
LastCommitUnowned(c) == position[c]

(* consumer.stop() commits the position and leaves the group.              *)
LastCommit(c) == IF owner = c THEN position[c] ELSE committed

Leave(c) == owner' = IF owner = c THEN None ELSE owner

(* The process ends, with all it holds.                                    *)
GoDown(c) ==
  /\ state' = [state EXCEPT ![c] = "down"]
  /\ position' = [position EXCEPT ![c] = 0]
  /\ HandlerEnds(c)

(* The deserializer raises out of the async for: the task ends, and with   *)
(* it the consumption of this replica.                                     *)
Choke(c) ==
  /\ Polls(c)
  /\ log[position[c] + 1] = "undecodable"
  /\ committed' = LastCommit(c)
  /\ Leave(c)
  /\ state' = [state EXCEPT ![c] = "ended"]
  /\ position' = [position EXCEPT ![c] = 0]
  /\ UNCHANGED <<log, pc, driving, submitted, runs, raised, losses, crashes,
                 stops>>

(* stop() cancels the task, which waits for a message, and the process     *)
(* ends; the task's finally stops the consumer.                            *)
Stop(c) ==
  /\ stops < MaxStops
  /\ LoopIsFree(c)
  /\ committed' = LastCommit(c)
  /\ Leave(c)
  /\ GoDown(c)
  /\ stops' = stops + 1
  /\ UNCHANGED <<log, runs, raised, losses, crashes>>

(* The session of a replica whose loop is blocked by the handler expires.  *)
Expire(c) ==
  /\ losses < MaxLosses
  /\ owner = c
  /\ pc[c] \in Handling
  /\ owner' = None
  /\ losses' = losses + 1
  /\ UNCHANGED <<log, committed, state, position, pc, driving, submitted, runs,
                 raised, crashes, stops>>

Crash(c) ==
  /\ losses < MaxLosses
  /\ state[c] # "down"
  /\ Leave(c)
  /\ GoDown(c)
  /\ losses' = losses + 1
  /\ crashes' = crashes + 1
  /\ UNCHANGED <<log, committed, runs, raised, stops>>

-----------------------------------------------------------------------------
(* The handler.                                                            *)

StartRun(c) ==
  /\ pc[c] = "start"
  /\ runs' = Append(runs, [message |-> position[c], status |-> "started",
                           stored |-> {}, reported |-> FALSE])
  /\ driving' = [driving EXCEPT ![c] = Len(runs) + 1]
  /\ pc' = [pc EXCEPT ![c] = "submit"]
  /\ UNCHANGED <<group, submitted, raised>>

NextSubmit(c) ==
  /\ submitted' = [submitted EXCEPT ![c] = @ + 1]
  /\ pc' = [pc EXCEPT ![c] =
              IF submitted[c] + 1 = SuiteSize THEN "complete" ELSE "submit"]

Submit(c) ==
  /\ pc[c] = "submit"
  /\ runs' = [runs EXCEPT ![driving[c]].stored = @ \cup {submitted[c] + 1}]
  /\ NextSubmit(c)
  /\ UNCHANGED <<group, driving, raised>>

(* except Exception: pass                                                  *)
SubmitRaises(c) ==
  /\ pc[c] = "submit"
  /\ NextSubmit(c)
  /\ UNCHANGED <<group, driving, runs, raised>>

SaveCompleted(c) ==
  /\ pc[c] = "complete"
  /\ runs' = [runs EXCEPT ![driving[c]].status = "completed"]
  /\ pc' = [pc EXCEPT ![c] = "report"]
  /\ UNCHANGED <<group, driving, submitted, raised>>

(* The scores and events of complete_run, up to bench.results.             *)
Report(c) ==
  /\ pc[c] = "report"
  /\ runs' = [runs EXCEPT ![driving[c]].reported = TRUE]
  /\ HandlerEnds(c)
  /\ UNCHANGED <<group, raised>>

(* A seeded defect: the error of a handler ends the task.                  *)
AfterErrorEnded(c) == "ended"

(* start_run or complete_run raises: _consume prints the error and goes on *)
(* to the next message.                                                    *)
AfterError(c) == state[c]

HandlerRaises(c) ==
  /\ pc[c] \in {"start", "complete", "report"}
  /\ raised' = raised \cup {position[c]}
  /\ HandlerEnds(c)
  /\ state' = [state EXCEPT ![c] = AfterError(c)]
  /\ UNCHANGED <<log, committed, owner, position, runs, losses, crashes, stops>>

Handler(c) ==
  \/ StartRun(c)
  \/ Submit(c) \/ SubmitRaises(c)
  \/ SaveCompleted(c) \/ Report(c)
  \/ HandlerRaises(c)

-----------------------------------------------------------------------------

(* Nothing is left to take, or nobody to take it.                          *)
Idle ==
  /\ \A c \in Consumers : ~Polls(c) /\ pc[c] = "poll"
  /\ UNCHANGED vars

Next ==
  \/ \E c \in Consumers :
       \/ Start(c) \/ StartFails(c) \/ Assign(c) \/ AutoCommit(c)
       \/ Take(c) \/ Choke(c) \/ Rejoin(c)
       \/ Stop(c) \/ Expire(c) \/ Crash(c)
       \/ Handler(c)
  \/ Idle

Spec == Init /\ [][Next]_vars

(* A dead replica is started again, the group assigns a free partition,    *)
(* and a consumer goes on with what it has fetched, or its loop runs;      *)
(* losses and shutdowns are bounded, and nothing makes the handler raise.  *)
FairSpec ==
  /\ Spec
  /\ WF_vars(\E c \in Consumers : Assign(c))
  /\ \A c \in Consumers :
       /\ WF_vars(Start(c) \/ StartFails(c))
       /\ WF_vars(AutoCommit(c))
       /\ WF_vars(Take(c) \/ Choke(c) \/ Rejoin(c))
       /\ WF_vars(Handler(c))

-----------------------------------------------------------------------------
(* Type invariant.                                                         *)

TypeOK ==
  /\ log \in [Messages -> Kinds]
  /\ committed \in 0 .. LogLength
  /\ owner \in Consumers \cup {None}
  /\ state \in [Consumers -> TaskStates]
  /\ position \in [Consumers -> 0 .. LogLength]
  /\ pc \in [Consumers -> {"poll"} \cup Handling]
  /\ runs \in Seq(RunRow)
  /\ driving \in [Consumers -> 0 .. Len(runs)]
  /\ submitted \in [Consumers -> 0 .. SuiteSize]
  /\ raised \subseteq Messages
  /\ losses \in 0 .. MaxLosses
  /\ crashes \in 0 .. losses
  /\ stops \in 0 .. MaxStops

-----------------------------------------------------------------------------
(* Safety.                                                                 *)

RunsOf(m) == {i \in DOMAIN runs : runs[i].message = m}

(* The handler of a message has come to its end, with bench.results or     *)
(* with an error the consumer swallowed.                                   *)
Settled(m) == m \in raised \/ \E i \in RunsOf(m) : runs[i].reported

(* A committed trigger has been handled to its end by somebody: a crash or *)
(* a lost partition repeats a message and never skips one, because the     *)
(* loop commits only between two handlers (kafka.py, _consume).            *)
CommittedIsSettled ==
  \A m \in Messages : m <= committed /\ log[m] = "trigger" => Settled(m)

(* A message starts one run, and one more for each crash or expired        *)
(* session: nothing else makes the group take a message again, shutdowns   *)
(* and errors of the handler included (kafka.py, _consume and stop).       *)
RunsAreBounded ==
  \A m \in Messages : Cardinality(RunsOf(m)) <= 1 + losses

(* A run is left behind, started or completed but never reported, only if  *)
(* its handler raised or its replica crashed, one for each crash: a        *)
(* replica that lost the partition, or is shut down, still brings its run  *)
(* to an end (kafka.py, build_asset_published_handler).                    *)
LeftBehindByCrashOnly ==
  LET driven == {driving[c] : c \in Consumers}
      left == {i \in DOMAIN runs : /\ ~runs[i].reported /\ i \notin driven
                                   /\ runs[i].message \notin raised}
  IN Cardinality(left) <= crashes

-----------------------------------------------------------------------------
(* Refinement.                                                             *)

Ledger == INSTANCE TriggerLedger

(* The group implements its promise: whoever has the partition, whoever    *)
(* goes on with messages it lost, and whatever crashes or raises, each     *)
(* commit, run and error is one that TriggerLedger allows; in particular   *)
(* the messages are handled in their order and the committed offset never  *)
(* goes back (kafka.py, _consume and build_asset_published_handler).       *)
ImplementsLedger == Ledger!Spec

-----------------------------------------------------------------------------
(* Liveness.                                                               *)

(* Every trigger before the first undecodable message is handled to its    *)
(* end, unless no replica could start its consumer; an error of one        *)
(* handler does not hold up the messages behind it (kafka.py, _consume).   *)
TriggersAreSettled ==
  \A m \in Messages :
    log[m] = "trigger" /\ (\A k \in 1 .. m : log[k] # "undecodable")
      ~> Settled(m) \/ \A c \in Consumers : state[c] = "absent"
=============================================================================
