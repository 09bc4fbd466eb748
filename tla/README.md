# Arca Bench: specification, model checking and proofs

TLA+ modules for the Python service of this repository: what its calls do to
the shared store and to the event stream when they interleave, fail half-way or
repeat. The modules are translated from the code under `src/src/`; TLC checks
them on small instances, and TLAPS proves the theorems of the `*Proofs` modules
for every value of the constants.

    tlc -workers 2 -config BenchConcurrent.cfg MCBenchService.tla
    tlapm BenchDriverProofs.tla

## 1. The system

| part | state | operations | talks to |
|---|---|---|---|
| service facade `bench_service.py` | none of its own | register_test, start_run, submit_result, complete_run, fail_run, collect_evidence, generate_report, get_scorecard | runner, scoring, evidence, registry, reports; publisher; SOC |
| runner `runner.py`, domain `test_models.py` | status of a `TestRun` object held by a call | get the run, check, change the object, save it | store |
| scoring `scoring.py`, reporting `reporting.py` | none | scores per category, scorecard, remediations | store (categories) |
| SQL store `store.py` | test_cases, test_runs, test_results, scores, evidence, reports | one session and one commit per method | database shared by all replicas |
| embedded SOC `soc.py` | the events of one process, in memory | audit_operation around every mutation, detect_anomaly, escalate | facade |
| domain events `bench_events.py` | none | six topics | publisher |
| Kafka producer `kafka.py` | connected flag, bounded buffer | publish | broker, all threads of the process |
| Kafka consumer and trigger `kafka.py` | position, the handler in flight | take a message, start, submit, complete | broker, facade |
| REST, GraphQL, MCP `api/` | none | validate, authorise, call the facade | facade |
| decision replay `decision_replay.py` | registered rules | evaluate a sealed package | REST |
| tokens `jwt.py`, roles and ABAC in the handlers | JWKS_CACHE, per process | extract the token, fetch or look up the keys, verify, check role and attributes | the OIDC realm; every handler of REST, MCP, GraphQL |
| dashboard `ui/bench.js` | two lists and two panels of a page | open, submit a form, load a list, click on a run | REST |

What is hard. The handlers are synchronous and FastAPI runs them in a thread
pool; several replicas share the database; MCP, GraphQL and Kafka call the same
facade. Nothing holds a lock or a transaction from one store method to the next,
so every check-then-save is a window. A store method may raise and a process may
die between any two steps; what was committed stays. Publishing follows saving
with no outbox in between. The producer gives up on the broker at the first
failure. The consumer commits by itself, and its handler blocks the event loop.
The first requests of a process race to fetch the realm's keys, around rotations,
failed fetches and restarts, and what is cached stays. The functions of the page
interleave at every await, and the answers they await come in any order.

What makes each part correct:

- runs end once and stay ended; a run that ended gains no result; what is
  announced, scored and reported is what the store holds; every end is reported;
- a report that says "completed" has the failures counted by a completion that has
  saved the run;
- every mutation leaves a start and exactly one outcome in the audit trail; the
  failure-rate alert rises when runs fail;
- events go out in order, none is acknowledged that was not stored, and
  publishing never blocks a call for good;
- triggers are handled at least once, repeated only after a loss, and one bad
  trigger does not hold up the next;
- a token is verified only with keys the realm published, a good one is not
  called invalid, and nothing but a report is stored without a verified token and a
  role (the GraphQL report query stores one for a request without a user);
- the two panels of the page show one click, a form shows the item it posted, and
  no task of the page is stuck.

`PROJECT.json` lists the hazards at the lines where they bite, with the
properties that cover them.

## 2. The modules

**Scoring** has the pure part, on sets of result rows: `ScoresOf`
(`compute_scores`), `Scorecards` (`build_scorecard`: one card for each choice of
the row that wins a dimension, since the store promises no order), `Overall`,
`Remediations`. A score is the pair of counts the code divides, so no rounding is
involved; `Overall`, the mean of the dimensions, is one fraction over the product of
their counts (`Denominator`). The lemmas about them open BenchServiceProofs.

**BenchService** is the detailed specification. A member of `Calls` is one
facade call, made at most once; `pc[c]` is the store or publisher call it makes
next, so one action is one commit or one event. Local variables of the code are
`req` (arguments), `loaded` (the status of the `TestRun` object), `seen` (result
rows read), `scoreRows` (score rows read), `todo` (dimensions left in the loop).
The store is `catalog`, `runs`, `results`, `scores`, `evidence`, `reports`; what
leaves the process is `published`; `soc` is per replica.

| code | actions |
|---|---|
| register_test | CallRegisterTest, SaveTest |
| start_run | CallStartRun, SaveNewRun, PublishStarted |
| submit_result | CallSubmitResult, LoadMissing / LoadRefused / LoadRun, SaveResult |
| complete_run | CallOnRun, Load..., ReadResultsToEnd / ReadResultsRefused, SaveRun, AnnounceCompleted, ComputeScores, (SaveScore, PublishScore)*, PublishResults |
| fail_run | CallOnRun, Load..., SaveRun, AnnounceFailed |
| collect_evidence | CallOnRun, SaveEvidence, PublishEvidence |
| generate_report | CallOnRun, Load..., ReadResultsToReport, ReadScoresToReport, SaveReport, PublishReport |
| get_scorecard | CallOnRun, Load..., ReadScoresToAnswer |
| a store method raises | Abort (before the commit; the publisher never raises) |
| a process dies | Crash (its calls are lost, and its SOC) |

Left out: targets, suites, names, versions, artefacts, hashes, formats and times;
`list_*` and `get_*` reads that change nothing; the categories read one by one in
`compute_scores` are one step, because the category of a registered test never
changes. Ids are fresh, as uuids are. The service may come up on a store that
already holds tests and started runs.

**RunLedger** is the abstract specification: a run is opened, collects results,
ends once, is announced with the counts of what it collected, scored per
dimension, and reported when every dimension has its score. `BenchService`
implements it (`Ledger`, `ImplementsLedger`) when each run is driven by one
client, one call at a time (`OneDriver`). That is what `run_test_suite` of
`mcp.py` and the Kafka handler do: they start a run, submit and complete in one
thread. Two REST clients need not, and then the implementation fails; the
violation runs show how. Nothing in the abstract run depends on a call, so a
detailed row or event is mapped by dropping the call it came from.

**EventProducer** is `KafkaDomainEventPublisher` over `KafkaProducer.publish`:
threads of one process share the connected flag and the bounded buffer. Reading the
flag (Online, Offline) and sending (Send, SendRaises) are steps of their own, since
the flag is read without the lock and `send` may block for seconds: a thread that has
read it sends even if another clears it meanwhile. The
client library and the broker are external: a record may arrive late, be stored
again when its acknowledgement is lost, or be given up. `BenchService.published`
is what is handed to this publisher. **EventStream** is its abstract specification:
the log, the buffer and the answers, with no flag, future or client library. A
record is stored while all events of its thread before it were answered ok and it
is not; an event is answered ok when it is stored; from the first that was not,
the events of a thread go to the buffer only, which keeps the newest.
`EventProducer` implements it as it stands (`Stream`, `ImplementsStream`): Arrive is
Store, SendSucceeds is AnswerOk, Buffer is AnswerBuffered, the rest stutters.

**KafkaTrigger** is the consumer task of each replica and the asset-published
handler, in one consumer group over one partition. The handler is synchronous
code in the event loop, so a replica commits only between two handlers
(`LoopIsFree`) and may lose the partition while it handles (`Expire`). It does
not know: the iterator hands out what was fetched without a turn of the loop, so
the replica may take further messages (`Polls` asks for `assigned`, its own view,
not for `owner`), beside the replica that has the partition now, until its loop
runs and it is in the group again without the partition (`Rejoin`). The facade
calls a handler makes are one step each, with the error a store may raise.
**TriggerLedger** is its abstract specification: the log of messages, the
committed offset, the runs, the errors and the losses, with no replicas and no
positions. Messages are dealt with in their turn, the offset grows past settled
messages only, a message begins one run and one more for each loss, and a run
stores results in the order of the suite, is completed once and reported once.
`KafkaTrigger` implements it (`Ledger`, `ImplementsLedger`): AutoCommit, Choke
and Stop are Commit or change nothing, Rejoin changes nothing, Expire and Crash
are Lose, StartRun is Begin, HandlerRaises is Raise, and Submit, SaveCompleted
and Report are Store, Complete and Report of the run driven.

**DecisionReplay** is `DecisionReplayBench` and its REST handler: rules are
registered before the first package, a package is evaluated by its rule and by
the five checks, and an exception of the rule or of the comparison of a
timestamp with a zone to one without is an answer of its own (`error`). Packages
are enumerated, so TLC tries every one within the bounds; **DecisionReplayProofs**
does without them.

**TokenGate** is what a request meets before its handler, in one process and for
one JWKS URL. A request is a thread: `sent`, `fetching`, `fetched`, `admitted`,
`answered`. The realm is external; it publishes a set of keys, rotates it, and
answers a fetch with what it publishes at that moment, or not at all. A token is
what verification and policies tell apart: its kid, whether all the rest of it is
good, and its claims. Of a request body only the target and the environment count.

| code | actions |
|---|---|
| open endpoints, API metadata in dev | Pass |
| _extract_token without a bearer token | RefuseAnonymous |
| verify_token without a JWKS URL | RefuseUnconfigured |
| _fetch_jwks and verify_token | VerifyCached, or StartFetch, then FetchAnswers and StoreAndVerify, or FetchFails |
| _get_context of GraphQL when verification fails | NotVerified: admitted as `nobody` |
| require_role, _require_role, ABAC checks, the call of the service | Serve, Forbid |
| outside | Exchange (a client takes answers and asks), Rotate, Restart |

`GET /runs` asks for no token; GraphQL queries are served without a user. Both
are so in the code, and the model has them so. `Storing` has the operations that
change what is stored, and a report is stored by whoever reads it: `get_report` of
REST asks for any of the three roles, the `report` query of GraphQL for none
(`query_report`). `ChangesAreAuthorised` is about all of them but this last one.

**Dashboard** composes the page with the gate, other clients and as much of the
service as the page shows: the two lists and how far each run has come. A call of
an asynchronous function of `bench.js` is a task that runs from await to await:
OpenPage, then TestsLoadedFirst and Loaded; a form is Submit, then Posted and
Loaded, or PostFails; a click is Click (`loadRunDetails` sends both fetches), then
Render when both are answered, a failed one as "not available". `Exchange` of the
gate is how a task takes its answers and sends its next requests, and
`ServeList`, `ServeView` and `ServePost` add to `Serve` what the service does.
The report that its GET stores is `SaveReport` of BenchService and is not
repeated here. Every step of Dashboard is one of the gate or leaves it alone, so
Dashboard implements `GateSpec`.

**MCBenchService**, **MCDecisionReplay** and **MCDashboard** give the constants
values and symmetry sets for TLC. The theorems are in **BenchServiceProofs**,
**BenchSafetyProofs**, **BenchReadsProofs** and **BenchDriverProofs** (each extends
the one before, all about BenchService), **DashboardProofs** (about TokenGate and
Dashboard), **EventProducerProofs**, **KafkaTriggerProofs** and
**DecisionReplayProofs**. Operators called "a seeded defect" are not part of a
specification: each is the mutant of the definition below it, and `PROJECT.json`
names the property it breaks.

## 3. The runs

| run | asks |
|---|---|
| BenchConcurrent | four uncoordinated calls on one run, any of which may raise: is what is announced, scored and reported backed by the store, do the verdict and its score agree, and is the audit trail whole? |
| BenchCrash | three calls of all eight operations, with crashes: types, events after rows, no run reopened |
| BenchOneDriver | one driver per run: refinement of RunLedger, one end, frozen results, the store gives back the published card |
| BenchLiveness | no faults: every call is answered, every completed run is reported |
| PageBehindGate | the page's tasks and another client in front of the gate, with a rotation, a failed fetch and a restart: who is let through, who is refused, who may change what is stored, and does the page show what it says? |
| BenchLateResult | violated: a result joins a completed run |
| BenchDoubleEnd | violated: two ends, two bench.run.completed |
| BenchLostEnd | violated: a crash after save_run loses the bench.run.completed of a completed run |
| BenchAlert | violated: failed runs never count in the failure-rate signal |
| ProducerFallback | two threads through one producer with a late, repeating, silent broker: order, buffer, answers, refinement of EventStream |
| TriggerGroup | two replicas consume triggers with crashes, expiries, shutdowns, bad messages: nothing skipped, repeats from losses only, runs left behind by crashes and errors only, refinement of TriggerLedger |
| ReplayVerdicts | every package of up to two approvals, under every rule: what does a pass promise, and what can one more approval or rejection change? |

Bounds. The races of the facade are between calls on one run, so one run and one
registered test (plus an unknown one, hence two dimensions) are enough; two calls
are enough for each race, and four allow two results, a completion and a report,
or two results and two ends. BenchCrash has one replica: a crash takes all calls
in flight, and two replicas only let some survive, which BenchConcurrent's
exceptions show call by call. ProducerFallback has two threads with two events
each, so each thread can publish after a failure of its own and of the other, a
buffer of two for four events, and one retry. TriggerGroup has two messages of
every kind, one loss and one shutdown: enough for a repeat by another replica
while the first still handles, for a shutdown before and after it, and for a
replica that lost the partition and goes on behind the committed offset, with the
message it handles and with the next; a suite has one test there, and any number
in the theorems. ReplayVerdicts has two voters, two roles, two instants with a
zone and one without, quorums from 0 to 2 and two approvals (three, with the one
its properties append): enough for a double vote, a sealer who approves, a
missing role, an approval at, before and after the sealing, and mixed zones; the
theorems cover the rest. PageBehindGate has three tasks of the page, one request
of another client, two key sets, three tokens, one change of each run and four
events, where a task, another's request, a rotation and a restart count as one
each; at most three of them are tasks or requests, and failed fetches are free.
The other client asks for a mutation as a reader and with a token that does not
verify, for the GraphQL report query with such a token, for the API metadata
without one, and for a run of MCP in an environment it may not use. That is the
opening of the page with two forms or two clicks in flight at once, or one of
them with a rotation and a restart, a rotation between the fetch and the store of
two racing threads, and a run that goes on between the two fetches of a click.
The largest runs are BenchConcurrent and TriggerGroup (about a million states,
two to three minutes). No bound hides a counter overflow: Python integers have no
width.

CHECK_DEADLOCK is on everywhere. `Quiet`, `Done` and `Idle` are the states in
which the system really waits for somebody outside it.

Fairness. `FairSpec` of BenchService is weak fairness of the steps of each call:
a thread of the pool that is not blocked runs, and no step of a call waits for
another call. Nobody is forced to make a call, and faults are never fair, so
liveness is checked without faults (BenchLiveness), and with a crash where the
claim is that a completed run is announced (BenchLostEnd). BenchLiveness makes
the calls of the life of a run, from start_run to its end, and neither reports
nor evidence, whose calls `CallsEnd` covers. `FairSpec` of EventProducer is weak
fairness of the publishing threads and asks nothing of the broker: the wait has a
timeout. `FairSpec` of KafkaTrigger is weak fairness of a restarted process, of
the assignment of a free partition, of the automatic commit and of the consumer,
which polls or has its loop run, and its handler; crashes, expiries and shutdowns
are bounded. Dashboard states no fairness: a realm, a server or a browser may be
silent for ever. `AnsweredTasksGoOn` says instead that a task all of whose
requests are answered has a step it can take.

## 4. The proofs

### The service

TLAPS proves, from `ConstantsAssumption` alone and for any sets of calls, runs,
tests, categories and replicas, finite or not:

- `TypeCorrect`: `Spec => []TypeOK`. `TypeOK` is not inductive. The counts of an
  event are natural numbers only if the rows counted are finite, and a score or
  an event is well-typed only if the call that makes it has a known run and the
  operation its label belongs to. `TypeInv` adds that: every set of rows is finite
  (`Finite`), each label is one of the labels of the call's operation (`OnPath`),
  and from the first load on the run of a call is in the store (`Found`, `Saved`).
  `StepKeepsTypeInv` has one step per action, `RequestIsWellFormed` one per kind
  of call; `TypeInvariant` puts them together (BenchServiceProofs).
- **BenchSafetyProofs**, from `TypeInvariant`. `NextKeepsStore`: rows are never
  lost, and two steps change a status, `SaveNewRun` for a run nobody has (`Fresh`)
  and `SaveRun` to the end status its call carries (`Arguments`); hence
  `NeverReopened`. `EventsFollowed`: a new event has its row because its label
  says so (`Found`, `Saved`, and `Announcing` for evidence and reports), an old one
  because rows stay. `EveryOutcomeAudited`: `Audit` adds to `AuditTrail` that a
  call nobody has made has left no event, or it could start with an outcome;
  `MoveKeepsAudit` does the bookkeeping once and each step only says which label
  it moves to and which types it records.
- **BenchReadsProofs**: what a call has read stays backed. `Snapshot` (the rows
  seen are rows of the run), `Catalogued` (the tests of stored and submitted
  results are registered, so their categories are fixed) and `ToScore` (the loop
  has only dimensions of the rows seen) are inductive together; with them
  `CountsBacked` and `ScoresBacked` follow from the growth of the counts
  (`CountsGrow`). `ReportsCovered` needs to know who completed a run
  (`CompletionKnown`): a call past save_run (`HasCompleted`), whose `seen` never
  changes again; a report call that finds the run completed reads the results later,
  hence at least those (`ReportInFlight`). It is the order of the reads that makes
  this true. A crash between save_run and the announcement takes the completion and
  all it read, so the property is about services without one.
  `CompletionWhole`, that a published verdict comes after the end event and every
  score event of its completion, with the values of the card, needs `WholeInv`: a
  call past its announcement has its end in the stream (`EndPublished`), a stored
  score has the value of its dimension in the rows its call has seen
  (`ScoresOwned`), and a dimension no longer to do has its event (`DonePublished`).
- **BenchDriverProofs**, with the assumption `OneDriver` in each theorem: `OneEnd`,
  `Frozen`, `StoreCard` and `LedgerImplemented`. `DriverInv` says that a run has one
  driver (`Alone`); that until the driver saves the end the run is open, and from
  then on the store has the driver's status and just the rows it has read
  (`Ending`); that in the loop over the scores each dimension is still to do or has
  its one row (`Looping`); and that scores and verdicts are those of all the rows of
  the run (`ScoresExact`, `VerdictsExact`). Two lemmas carry the induction:
  `OnlyTheDriver` (nobody else changes what the store and the stream say of a run)
  and `EndedStays` (a run that has ended keeps its status and its results).
  The refinement mapping drops the call from every row and event. SaveTest is
  Register, SaveNewRun Open, SaveResult Collect, SaveRun End, AnnounceCompleted and
  AnnounceFailed are Announce, SaveScore is Score, PublishResults is Report, and
  every other step is a stutter (`StepMaps`). Without `OneDriver` this is false:
  BenchLateResult and BenchDoubleEnd are the counterexamples.
- the lemmas about Scoring: counts are bounded by the rows and grow with them, and
  `compute_scores` has one well-typed value per category present. `OverallBounded`:
  the mean of a finite scorecard is a fraction between 0 and 1, and 1 only if every
  dimension is all passed. `Overall` is made of folds, and a fold is a CHOOSE of a
  function defined by recursion on sets. The induction theorems of the library take
  an operator, so the induction here is over a set of sets instead
  (`SubsetInduction`: a set of subsets of a finite set that has the empty one, and
  has each one when it has all the subsets with one element less, has them all).
  With it `FoldExists` shows that the recursive function is there, `FoldAnyOrder`
  that an operation that commutes gives one value whichever element is chosen, and
  `DenominatorStep` and `NumeratorFolds` apply this to the product and the sum.
- `VerdictScored` (BenchReadsProofs): the verdict of bench.results is passed iff the
  score it carries is 1. The event is made from the rows its call has seen, its card
  is the score of each dimension of them (`ScoreOfRows`), and `OverallBounded` says
  the rest; no bound on results or dimensions.
- `CallsCanStep` and `CallsGetCloser` (BenchReadsProofs): what `EveryCallAnswered`
  needs besides fairness. `CanStep` has the guards of the actions of a call; one of
  them holds in every reachable state of a call in flight. `Closer` orders the
  states of a call by how far it is (`Stage`), and in the loop over the scores by
  the dimensions left (`Remaining`), which `LoopInv` shows finite and shrinking.
  Every step of a call gets closer, and no step of another call undoes it
  (`OthersLeaveCall`).
- `CompletionsTraced` and `ReportOnItsWay` (BenchReadsProofs): the same for
  `CompletedIsReported`. A run the store has as completed has its bench.results, or a
  completion of its own that is past save_run and keeps its rows
  (`CompletionTraced`), or one a fault has cut short (`CutShortByFault`).
- `CallsAreAnswered` and `CompletionsReport` (BenchReadsProofs) are liveness, see
  below: outside the loop at most seven steps are left, so a call is answered or
  comes to the loop; in the loop, with n steps to go, it is answered or has less
  than n to go. `CallsEnd` and `CompletionsAreReported` are the two properties
  themselves.
- `LedgerKeepsItsPromises` (BenchDriverProofs): what RunLedger promises follows from
  RunLedger alone, for whatever implements it. `LedgerAgrees`: the counts announced,
  the scores and the verdict of a run are those of the results it has, now and for
  ever; they come in their turn, and once. `ServiceKeepsLedger` carries it to the
  service through `LedgerImplemented`.

### The gate and the page

From `GateAssumption` and `DashboardAssumption`, for any requests, tasks, keys and
tokens (DashboardProofs):

- The lemma `GateKeepsItsPromises`: `GateSpec` implies `VerifiedByPublishedKey`,
  `RefusedForCause`, `ChangesAreAuthorised` and `CacheSettles`. The invariant is
  `KeysFromRealm`: every set of keys a request may be verified with, cached or just
  fetched, lies between the keys published all the time and those published at some
  time since the process started; a restart keeps this because it empties cache and
  fetches together. `UsersAreAdmitted` ties a verified user to a good token and to
  the place of the request; that the operations of `Storing` but `query_report` are
  served to verified users with a role only is in the guard of `Serve`.
- `PageUsesTheGate`: `Spec => GateSpec`. The one thing to show is that what a task
  takes and sends is an `Exchange` of requests (`AwaitIsExchange`). The gate's
  promises follow for the page (`KeysArePublished`, `RefusalsHaveCause`,
  `ChangesAllowed`, `KeysSettle`).
- `TypeCorrect`, `PanelsCorrect`, `FormsCorrect`, from `PageInv`: the requests of a
  task are those its step awaits (`RequestsOf`), an answer has what the service had
  at some time since it was asked (`AnswersTo`), and the panels have what the task
  that rendered them was answered (`PanelsInv`).
- `AnsweredTasksAreReady`: `AnsweredTasksGoOn` with the guards of the actions in the
  place of ENABLED. `AwaitHasGuard` takes the answers, `TaskStepHasGuard` goes
  through the places a task can be at.

### Producer, trigger and replay

- EventProducerProofs, from `ProducerAssumption`: `AcknowledgedStored`,
  `LogInOrder`, `BufferCorrect`, `FallbackIsFinal`, `TypeCorrect`. In `ProducerInv`
  the connected flag is the hinge: while it is set every answer given was "ok", so
  an event is sent only when all earlier ones of its thread are acknowledged, and a
  thread takes up sending (`Online`) only while no event was answered "buffered".
  `ProducerImplementsStream` follows from it step by step: what arrives or is
  acknowledged was sent after all-ok answers (`SentAfterOk`), and pushing on a
  bounded deque keeps the newest (`PushedIsNewest`). `PublishGoesOn` is the safety
  half of `EveryPublishReturns`: a thread that waits has sent (`WaitingIsSent`), so
  the future answers or the wait times out, and at most four steps are left.
  `PublishReturns` is the property itself, which follows from four applications of
  fairness, and `FairPublishReturns` states it for `FairSpec`.
- KafkaTriggerProofs, from `TriggerAssumption`, which has finitely many consumers:
  `NothingSkipped`, `RepeatsAreLosses`, `LeftByCrashes`, `TypeCorrect`. `TriggerInv`
  says that a handler drives a run of the message its replica took last
  (`HandlersInv`); that what is committed, and what any replica has taken but for the
  message at work, is settled, also where it lost the partition (`TakenAreSettled`);
  and counts. For each message the runs it started, the replicas that may still start
  one because they take the partition for their own and are before it (`MayStart`),
  and the one still owed while nobody has the partition (`Owed`) are together at most
  one more than the losses (`StartsBounded`): an expiry adds a reader, but the old one
  is still counted. The runs left behind are at most the crashes, since only a crash
  takes a replica away from its handler.
  `GroupImplementsLedger` needs more, `OrderInv`: the owner of the partition is not
  behind the committed offset (`CommitsBehind`), nobody is past an undecodable
  message, what is handled is a trigger, and each run has one handler, which knows
  what is stored (`DriversInv`). `StartsBounded` gives the guard of `Begin`, and
  `TakenAreSettled` its turn.
  `LedgerKeepsItsPromises` says that TriggerLedger alone skips no trigger, repeats
  none but for a loss and takes the messages in turn.
- What keeps a trigger from being forgotten, in the same module. `MembersInv` says
  that no consumer task has ended while a trigger is due. With it `TriggersCanGoOn`:
  while a trigger is due (`WorkIsDue`), before any undecodable message, some replica is
  down and can start, can take the free partition, can poll, has a loss to learn of, or
  is in a handler, unless no replica could start its consumer. `TriggersGetNearer`:
  each of these lowers a measure (`Nearer`) of five parts, in this order: the losses
  and shutdowns still to come, the replicas that are down, those that have lost the
  partition and do not know, the messages each replica has before it, and the steps
  left to each handler. A commit leaves it as it is (`AsNear`). `TriggersAdvance` and
  `TriggersSettle` are liveness, see below.
- DecisionReplayProofs, from `ReplayAssumption`: `PassedPackage`,
  `RejectionsIgnored`, `NothingRepaired` and `TypeCorrect`. `AnswerInv` says that the
  answer is the evaluation of the package by the rules of that state, which needs
  that no rule is registered after it. The rest is about the package: the
  comparison of two counts that the code uses for duplicates says that no two
  positive approvals have one voter (`DuplicatesCounted`, by a surjection between
  finite sets of one size), so each approver has one approval, and there are at
  least as many approvers as required roles (`RolesCounted`); `QuorumIsHeld` puts
  the five checks together. `Appended` and `RejectionIgnored` say what one more
  approval changes.

### Liveness

ENABLED is outside the prover, so the theorems on liveness state fairness with the
guard of an action where WF has ENABLED of it: `GuardFair(c)` says that a step of c
whose guard holds from some time on is taken, for ever again. The guards are those of
`CallsCanStep`, `PublishGoesOn` and `TriggersCanGoOn`, and `FairnessOfTheGuard` says
how the two relate: where the guards enable the steps (`GuardEnables`), `GuardFair`
follows from the `Fair` of `FairSpec`. `GroupFair` does the same for the replicas and
the assignment of the partition. Where the fairness of all members stands under one
box, as in `GroupFair` and in `CompletionsAreReported`, it says the same as without:
fairness begins with a box of its own.

With that, temporal logic (LS4) puts the safety halves together:

- `PublishReturns` is `EveryPublishReturns` with nothing left out.
- `CallsAreAnswered`, `CompletionsReport` and `TriggersAdvance` say that a call, a
  report and a group with a trigger due get closer as long as they are not done.
- That they are done in the end is well-founded induction: the measure is a tuple
  of natural numbers and finite sets, as large as the constants and the data make it.
  This is induction over data, which no theorem of the library can be instantiated for, so it
  is the hypothesis `NoDescent` of `CallsEnd`, `CompletionsAreReported` and
  `TriggersSettle`: nothing gets closer for ever. Every behaviour satisfies it, since
  no steps but these move the measure (`CallsGetCloser`, `TriggersGetNearer`);
  the three theorems then conclude `EveryCallAnswered`, `CompletedIsReported` (where
  `Faults = {}`) and `TriggersAreSettled` word for word.

### Only model-checked

`AnsweredTasksGoOn` as it stands, because of ENABLED: proved is
`AnsweredTasksAreReady`, which has the guards. Of the liveness properties, that a step
whose guard holds is enabled, and for the three with `NoDescent` the induction. TLC
checks all five properties as they stand on the small instances. And the four
violations, which are counterexamples.

## 5. Disagreements between the code and its documents

The four violation runs are findings: results on an ended run
(`runner.py:21-25` against its own message and a test), two ends of one run
(`runner.py:29-34`; two complete_run calls, or one with fail_run, which no handler
calls), a completed run that is never announced (`bench_service.py:83-86` against
`events.avsc:17`, "Emitted when a test run completes."), and the failure-rate alert of
ADR-008 that cannot rise (`soc.py:66-73`, `bench_service.py:110`).

What the models have and no property judges, since no document says what should be:
evidence of a run nobody started, the verdict of a run without results (passed, with
score 0.0), a result of a trigger the store refused, the triggers behind an
undecodable message, a package whose timestamps cannot be compared, keys that stay
cached after a rotation, and the report a GraphQL query stores without a role.

## 6. Not modelled

- Metrics, tracing and vault hold nothing a decision of the service reads.
- The OPA client, the Rego file, `require_permission` and the permission table of
  `rbac.py` have no caller in the handlers; neither have the dashboard, forensics and
  most responder actions of `soc.py`.
- Validation of request bodies, which answers before the service is called; texts
  of reports, pages and errors; SQL types; middleware and static files.
- What `run_test_suite` of MCP answers: it is the status of an object the call
  itself has outdated, but nothing says which status is meant.
- The one connection all threads share in the in-memory database of dev and tests:
  how two sessions interleave on it is up to the driver.
- Signature, expiry, audience and issuer checks are the JWT library's, one Boolean
  of a token here. Several JWKS URLs and several processes are independent caches.

## 7. What is left

1. A larger BenchConcurrent, with two runs or five calls, is past what TLC does in
   minutes; the safety theorems have no such bound.
2. A scorecard read in the middle of a completion is modelled (`ReadScoresToAnswer`)
   and nothing is claimed of it, since no document says what it should show.
3. The induction behind `NoDescent` and the step from a guard to ENABLED want a
   prover with both; the theorems are stated so that each would be one lemma.
