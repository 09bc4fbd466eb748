--------------------------- MODULE BenchService ---------------------------
(***************************************************************************)
(* The service facade of the bench (core/services/bench_service.py) with   *)
(* the run engine, the registry, the evidence collector and the report     *)
(* generator it calls, over one shared SQL store.                          *)
(*                                                                         *)
(* FastAPI runs the synchronous handlers in a thread pool, several         *)
(* replicas share the database, and the MCP tools, the GraphQL mutations   *)
(* and the Kafka trigger call the same facade.  Every facade call is a     *)
(* process here: Calls are the requests ever made, each takes its steps    *)
(* once, and the label pc[c] is the store or publisher call it makes next. *)
(* One store method is one session and one commit, hence one step; the     *)
(* code holds no lock and no transaction from one method to the next.      *)
(*                                                                         *)
(* An uuid the code draws is a member of Runs or Tests nobody used before, *)
(* and a row's uuid is the call that stored it (with the dimension, for a  *)
(* score).  Targets, artefacts, formats and times are left out.            *)
(***************************************************************************)
EXTENDS Scoring

CONSTANTS
  Calls,        \* the facade calls that may ever be made
  Runs,         \* the run ids start_run may draw
  Tests,        \* the test ids register_test may draw
  Categories,   \* the categories a test may be registered under
  Replicas,     \* the processes of the service, each with its own SOC
  Unknown,      \* an id, of a run or a test, that the service never issued
  Ops,          \* the facade operations the clients use
  OneDriver,    \* TRUE: a run is driven by one client, one call at a time
  Faults        \* what may interrupt a call: "exception", "crash"

Operations == {"register_test", "start_run", "submit_result", "complete_run",
               "fail_run", "collect_evidence", "generate_report",
               "get_scorecard"}

ASSUME ConstantsAssumption ==
  /\ Replicas # {}
  /\ Unknown \notin Runs \cup Tests
  /\ Absent \notin Categories
  /\ Ops \subseteq Operations
  /\ OneDriver \in BOOLEAN
  /\ Faults \subseteq {"exception", "crash"}

VARIABLES
  \* the store
  catalog,      \* test_cases: the category of each registered test
  runs,         \* test_runs: the status of each run
  results,      \* test_results
  scores,       \* scores
  evidence,     \* evidence
  reports,      \* reports
  \* what left the process, or stays in its memory
  published,    \* the domain events handed to the publisher
  soc,          \* the events each replica's SOC has collected
  \* the calls
  pc,           \* the next step of a call
  req,          \* its arguments
  loaded,       \* the status of the TestRun object it holds
  seen,         \* the result rows it has read
  scoreRows,    \* the score rows it has read
  todo          \* the dimensions it has still to score

store == <<catalog, runs, results, scores, evidence, reports>>
locals == <<req, loaded, seen, scoreRows, todo>>
vars == <<catalog, runs, results, scores, evidence, reports, published, soc,
          pc, req, loaded, seen, scoreRows, todo>>

-----------------------------------------------------------------------------
(* Types                                                                   *)

Status == {"started", "completed", "failed"}    \* RunStatus
Ended == {"completed", "failed"}
RunRows == Status \cup {Absent}

\* Steps at which a call uses the store, steps at which it only publishes.
StoreSteps == {"load", "save_test", "save_new_run", "save_result",
               "read_results", "save_run", "compute", "save_score",
               "save_evidence", "read_scores", "save_report"}
PublishSteps == {"publish_started", "announce_end", "publish_score",
                 "publish_results", "publish_evidence", "publish_report"}
InFlight == StoreSteps \cup PublishSteps
Answers == {"ok", "not_found", "conflict", "aborted"}

Lifecycle == {"submit_result", "complete_run", "fail_run"}

DimensionSet == Categories \cup {UnknownCategory}
Counts == [passed : Nat, total : Nat]
Requests ==
  [op : Operations \cup {"none"}, at : Replicas, run : Runs \cup {Unknown},
   test : Tests \cup {Unknown}, passed : BOOLEAN,
   category : DimensionSet]
ResultRow == [by : Calls, run : Runs, test : Tests \cup {Unknown},
              passed : BOOLEAN]
ScoreRow == [by : Calls, run : Runs, dim : DimensionSet, value : Counts]
EvidenceRow == [by : Calls, run : Runs \cup {Unknown}]
IsCard(card) ==
  /\ DOMAIN card \subseteq DimensionSet
  /\ card \in [DOMAIN card -> Counts]
RemediationItem == [result : Calls, test : Tests \cup {Unknown},
                    severity : {"high", "medium"}]
IsReportRow(row) ==
  /\ row \in [by : Calls, run : Runs, status : Status, card : {row.card},
             remediations : SUBSET RemediationItem]
  /\ IsCard(row.card)

(* Domain events, by topic (core/events/bench_events.py).                  *)
Events ==
  [topic : {"run_started", "report_generated"}, by : Calls, run : Runs]
  \cup [topic : {"evidence_collected"}, by : Calls, run : Runs \cup {Unknown}]
  \cup [topic : {"run_completed"}, by : Calls, run : Runs, status : Ended,
        passed_count : Nat, failed_count : Nat]
  \cup [topic : {"score_published"}, by : Calls, run : Runs,
        dim : DimensionSet, value : Counts]
IsResultsEvent(e) ==
  /\ e \in [topic : {"bench_results"}, by : Calls, run : Runs,
           passed : BOOLEAN, card : {e.card}]
  /\ IsCard(e.card)

SocTypes == {"operation_started", "operation_succeeded", "operation_failed",
             "test_registered", "run_started", "result_submitted",
             "run_completed", "run_failed", "evidence_collected",
             "report_generated", "incident_response"}
SocEvents == [type : SocTypes, by : Calls, status : RunRows]

(* A call that has not been made, on some replica.                         *)
NoRequest(rep) == [op |-> "none", at |-> rep, run |-> Unknown,
                   test |-> Unknown, passed |-> FALSE,
                   category |-> UnknownCategory]

-----------------------------------------------------------------------------
(* Audit and telemetry: audit_operation brackets every mutation, and each  *)
(* adds an event of its own to the SOC of the replica it runs on.          *)

Audited(c) == req[c].op # "get_scorecard"

SocEvent(c, type) ==
  [type |-> type, by |-> c,
   status |-> IF type = "run_completed" THEN loaded[c] ELSE Absent]

Record(c, types) ==
  soc' = [soc EXCEPT ![req[c].at] =
            @ \cup {SocEvent(c, t) : t \in IF Audited(c) THEN types ELSE {}}]

(* A seeded defect: the failure of an operation leaves no audit event.     *)
FailUnaudited(c, answer) ==
  pc' = [pc EXCEPT ![c] = answer] /\ UNCHANGED soc

Fail(c, answer) ==
  /\ pc' = [pc EXCEPT ![c] = answer]
  /\ Record(c, {"operation_failed"})

Goto(c, label) == pc' = [pc EXCEPT ![c] = label]

(* detect_anomaly("run_failure_rate", 0.1) on the events of one replica.   *)
Anomalous(events) ==
  LET recent == {e \in events : e.type = "run_completed"}
      failed == {e \in recent : e.status = "failed"}
  IN recent # {} /\ 10 * Cardinality(failed) > Cardinality(recent)

-----------------------------------------------------------------------------
(* A client makes a call.                                                  *)

Known(r) == runs[r] # Absent

Driving(c, r) ==
  /\ pc[c] \in InFlight
  /\ req[c].op \in Lifecycle
  /\ req[c].run = r

FirstStep(op) ==
  CASE op = "register_test"    -> "save_test"
    [] op = "start_run"        -> "save_new_run"
    [] op = "collect_evidence" -> "save_evidence"
    [] OTHER                   -> "load"

FreshTest(t) ==
  /\ catalog[t] = Absent
  /\ \A c \in Calls : req[c].test # t
FreshRun(r) ==
  /\ ~Known(r)
  /\ \A c \in Calls : req[c].run # r

Accept(c, request) ==
  /\ pc[c] = "idle"
  /\ req' = [req EXCEPT ![c] = request]
  /\ Goto(c, FirstStep(request.op))
  /\ soc' = [soc EXCEPT ![request.at] =
       @ \cup IF request.op = "get_scorecard" THEN {}
              ELSE {[type |-> "operation_started", by |-> c, status |-> Absent]}]
  /\ UNCHANGED <<store, published, loaded, seen, scoreRows, todo>>

CallRegisterTest(c) ==
  \E rep \in Replicas, t \in Tests, category \in Categories :
    /\ "register_test" \in Ops
    /\ FreshTest(t)
    /\ Accept(c, [NoRequest(rep) EXCEPT !.op = "register_test", !.test = t,
                                        !.category = category])

CallStartRun(c) ==
  \E rep \in Replicas, r \in Runs :
    /\ "start_run" \in Ops
    /\ FreshRun(r)
    /\ Accept(c, [NoRequest(rep) EXCEPT !.op = "start_run", !.run = r])

CallOnRun(c) ==
  \E rep \in Replicas, r \in Runs \cup {Unknown},
     op \in Ops \ {"register_test", "start_run", "submit_result"} :
    /\ r # Unknown => Known(r)
    /\ OneDriver /\ op \in Lifecycle => \A d \in Calls : ~Driving(d, r)
    /\ Accept(c, [NoRequest(rep) EXCEPT !.op = op, !.run = r])

CallSubmitResult(c) ==
  \E rep \in Replicas, r \in Runs \cup {Unknown}, t \in Tests \cup {Unknown},
     passed \in BOOLEAN :
    /\ "submit_result" \in Ops
    /\ r # Unknown => Known(r)
    /\ t # Unknown => catalog[t] # Absent
    /\ OneDriver => \A d \in Calls : ~Driving(d, r)
    /\ Accept(c, [NoRequest(rep) EXCEPT !.op = "submit_result", !.run = r,
                                        !.test = t, !.passed = passed])

-----------------------------------------------------------------------------
(* register_test and start_run.                                            *)

SaveTest(c) ==
  /\ pc[c] = "save_test"
  /\ catalog' = [catalog EXCEPT ![req[c].test] = req[c].category]
  /\ Goto(c, "ok")
  /\ Record(c, {"test_registered", "operation_succeeded"})
  /\ UNCHANGED <<runs, results, scores, evidence, reports, published, locals>>

SaveNewRun(c) ==
  /\ pc[c] = "save_new_run"
  /\ runs' = [runs EXCEPT ![req[c].run] = "started"]
  /\ loaded' = [loaded EXCEPT ![c] = "started"]
  /\ Goto(c, "publish_started")
  /\ UNCHANGED <<catalog, results, scores, evidence, reports, published, soc,
                 req, seen, scoreRows, todo>>

PublishStarted(c) ==
  /\ pc[c] = "publish_started"
  /\ published' = published \cup
       {[topic |-> "run_started", by |-> c, run |-> req[c].run]}
  /\ Goto(c, "ok")
  /\ Record(c, {"run_started", "operation_succeeded"})
  /\ UNCHANGED <<store, locals>>

-----------------------------------------------------------------------------
(* get_run, and what each operation does with the object it returns.       *)

(* A seeded defect: the status check is dropped.                           *)
StillOpenUnchecked(status) == TRUE

StillOpen(status) == status = "started"

(* submit_result refuses, and fail() raises, unless the run is started;    *)
(* complete() checks only after the results are read, a report and a       *)
(* scorecard never check.  fail() sets the status of the object in memory. *)
NeedsOpenRun == {"submit_result", "fail_run"}

(* Two seeded defects: fail_run forgets to save the run; a report is made  *)
(* without its results.                                                    *)
AfterLoadUnsaved(op) ==
  CASE op = "submit_result" -> "save_result"
    [] op = "fail_run"      -> "announce_end"
    [] op = "get_scorecard" -> "read_scores"
    [] OTHER                -> "read_results"
AfterLoadNoResults(op) ==
  CASE op = "submit_result" -> "save_result"
    [] op = "fail_run"      -> "save_run"
    [] op = "complete_run"  -> "read_results"
    [] OTHER                -> "read_scores"

AfterLoad(op) ==
  CASE op = "submit_result" -> "save_result"
    [] op = "fail_run"      -> "save_run"
    [] op = "get_scorecard" -> "read_scores"
    [] OTHER                -> "read_results"

(* The status complete() and fail() leave in the object.                   *)
(* A seeded defect: complete() is not called, so the run is saved as read. *)
EndStatusForgotten(op) == IF op = "fail_run" THEN "failed" ELSE "started"
EndStatus(op) == IF op = "fail_run" THEN "failed" ELSE "completed"

LoadMissing(c) ==
  /\ pc[c] = "load"
  /\ req[c].run = Unknown
  /\ Fail(c, "not_found")
  /\ UNCHANGED <<store, published, locals>>

LoadRefused(c) ==
  /\ pc[c] = "load"
  /\ req[c].run # Unknown
  /\ req[c].op \in NeedsOpenRun
  /\ ~StillOpen(runs[req[c].run])
  /\ loaded' = [loaded EXCEPT ![c] = runs[req[c].run]]
  /\ Fail(c, "conflict")
  /\ UNCHANGED <<store, published, req, seen, scoreRows, todo>>

LoadRun(c) ==
  /\ pc[c] = "load"
  /\ req[c].run # Unknown
  /\ req[c].op \in NeedsOpenRun => StillOpen(runs[req[c].run])
  /\ loaded' = [loaded EXCEPT ![c] =
       IF req[c].op = "fail_run"
       THEN EndStatus("fail_run") ELSE runs[req[c].run]]
  /\ Goto(c, AfterLoad(req[c].op))
  /\ UNCHANGED <<store, published, soc, req, seen, scoreRows, todo>>

SaveResult(c) ==
  /\ pc[c] = "save_result"
  /\ results' = results \cup
       {[by |-> c, run |-> req[c].run, test |-> req[c].test,
         passed |-> req[c].passed]}
  /\ Goto(c, "ok")
  /\ Record(c, {"result_submitted", "operation_succeeded"})
  /\ UNCHANGED <<catalog, runs, scores, evidence, reports, published, locals>>

-----------------------------------------------------------------------------
(* complete_run and fail_run: the end of a run.                            *)

RowsOf(r) == {row \in results : row.run = r}

(* get_results, then run.complete() on the object get_run returned.        *)
ReadResultsToEnd(c) ==
  /\ pc[c] = "read_results"
  /\ req[c].op = "complete_run"
  /\ StillOpen(loaded[c])
  /\ seen' = [seen EXCEPT ![c] = RowsOf(req[c].run)]
  /\ loaded' = [loaded EXCEPT ![c] = EndStatus("complete_run")]
  /\ Goto(c, "save_run")
  /\ UNCHANGED <<store, published, soc, req, scoreRows, todo>>

ReadResultsRefused(c) ==
  /\ pc[c] = "read_results"
  /\ req[c].op = "complete_run"
  /\ ~StillOpen(loaded[c])
  /\ seen' = [seen EXCEPT ![c] = RowsOf(req[c].run)]
  /\ Fail(c, "conflict")
  /\ UNCHANGED <<store, published, req, loaded, scoreRows, todo>>

(* save_run overwrites the status of the row, whatever it is by now.       *)
(* A seeded defect: the name of the event is stored in place of the status.*)
StatusSavedAsEvent(r, status) ==
  [runs EXCEPT ![r] = IF status = "failed" THEN "run_failed" ELSE status]

StatusSaved(r, status) == [runs EXCEPT ![r] = status]

SaveRun(c) ==
  /\ pc[c] = "save_run"
  /\ runs' = StatusSaved(req[c].run, loaded[c])
  /\ Goto(c, "announce_end")
  /\ UNCHANGED <<catalog, results, scores, evidence, reports, published, soc,
                 locals>>

(* What run_completed says: the counts of the rows the call has read, and  *)
(* 0, 0 for a failed run, whose rows fail_run does not read.               *)
(* A seeded defect: the two counts are swapped.                            *)
EndEventSwapped(c) ==
  LET counted == IF req[c].op = "complete_run" THEN seen[c] ELSE {}
  IN [topic |-> "run_completed", by |-> c, run |-> req[c].run,
      status |-> loaded[c],
      passed_count |-> Cardinality(FailedIn(counted)),
      failed_count |-> Cardinality(PassedIn(counted))]

EndEvent(c) ==
  LET counted == IF req[c].op = "complete_run" THEN seen[c] ELSE {}
  IN [topic |-> "run_completed", by |-> c, run |-> req[c].run,
      status |-> loaded[c],
      passed_count |-> Cardinality(PassedIn(counted)),
      failed_count |-> Cardinality(FailedIn(counted))]

AnnounceCompleted(c) ==
  /\ pc[c] = "announce_end"
  /\ req[c].op = "complete_run"
  /\ published' = published \cup {EndEvent(c)}
  /\ Record(c, {"run_completed"})
  /\ Goto(c, "compute")
  /\ UNCHANGED <<store, locals>>

AnnounceFailed(c) ==
  /\ pc[c] = "announce_end"
  /\ req[c].op = "fail_run"
  /\ published' = published \cup {EndEvent(c)}
  /\ Record(c, {"run_failed", "operation_succeeded"})
  /\ Goto(c, "ok")
  /\ UNCHANGED <<store, locals>>

-----------------------------------------------------------------------------
(* complete_run goes on: scores, the scorecard, bench.results.             *)

(* The loop over the scores: another one while any is left.                *)
(* Two seeded defects: the loop ends after one score; it never ends.       *)
NextScoreStepOnce(left) == "publish_results"
NextScoreStepStuck(left) == "save_score"
NextScoreStep(left) == IF left = {} THEN "publish_results" ELSE "save_score"

ComputeScores(c) ==
  /\ pc[c] = "compute"
  /\ todo' = [todo EXCEPT ![c] = Dimensions(catalog, seen[c])]
  /\ Goto(c, NextScoreStep(Dimensions(catalog, seen[c])))
  /\ UNCHANGED <<store, published, soc, req, loaded, seen, scoreRows>>

(* A seeded defect: the value of a dimension is that of all the results.   *)
ScoreOfUngrouped(c, d) ==
  [by |-> c, run |-> req[c].run, dim |-> d, value |-> ValueOf(seen[c])]

(* The tests of stored results never change in the catalog, so the value   *)
(* computed before the loop is the one computed here.                      *)
ScoreOf(c, d) ==
  [by |-> c, run |-> req[c].run, dim |-> d,
   value |-> ValueOf(Under(catalog, seen[c], d))]

(* One score row saved, then its event; a dimension leaves todo when both  *)
(* are done.                                                               *)
SaveScore(c) ==
  \E d \in todo[c] :
    /\ pc[c] = "save_score"
    /\ scores' = scores \cup {ScoreOf(c, d)}
    /\ Goto(c, "publish_score")
    /\ UNCHANGED <<catalog, runs, results, evidence, reports, published, soc,
                   locals>>

PublishScore(c) ==
  \E s \in scores :
    /\ pc[c] = "publish_score"
    /\ s.by = c /\ s.dim \in todo[c]
    /\ published' = published \cup
         {[topic |-> "score_published", by |-> c, run |-> s.run,
           dim |-> s.dim, value |-> s.value]}
    /\ todo' = [todo EXCEPT ![c] = @ \ {s.dim}]
    /\ Goto(c, NextScoreStep(todo[c] \ {s.dim}))
    /\ UNCHANGED <<store, soc, req, loaded, seen, scoreRows>>

(* bench.results: passed iff no result failed, and the scorecard whose     *)
(* mean is the score; then the failure-rate check of the replica's SOC.    *)
(* A seeded defect: the passed results are taken for the failed ones.      *)
ResultsEventSwapped(c) ==
  [topic |-> "bench_results", by |-> c, run |-> req[c].run,
   passed |-> PassedIn(seen[c]) = {},
   card |-> ScoresOf(catalog, seen[c])]

ResultsEvent(c) ==
  [topic |-> "bench_results", by |-> c, run |-> req[c].run,
   passed |-> FailedIn(seen[c]) = {},
   card |-> ScoresOf(catalog, seen[c])]

PublishResults(c) ==
  /\ pc[c] = "publish_results"
  /\ published' = published \cup {ResultsEvent(c)}
  /\ Record(c, {"operation_succeeded"} \cup
                 IF Anomalous(soc[req[c].at]) THEN {"incident_response"} ELSE {})
  /\ Goto(c, "ok")
  /\ UNCHANGED <<store, locals>>

-----------------------------------------------------------------------------
(* collect_evidence: no look at the run.                                   *)

SaveEvidence(c) ==
  /\ pc[c] = "save_evidence"
  /\ evidence' = evidence \cup {[by |-> c, run |-> req[c].run]}
  /\ Goto(c, "publish_evidence")
  /\ UNCHANGED <<catalog, runs, results, scores, reports, published, soc,
                 locals>>

PublishEvidence(c) ==
  /\ pc[c] = "publish_evidence"
  /\ published' = published \cup
       {[topic |-> "evidence_collected", by |-> c, run |-> req[c].run]}
  /\ Goto(c, "ok")
  /\ Record(c, {"evidence_collected", "operation_succeeded"})
  /\ UNCHANGED <<store, locals>>

-----------------------------------------------------------------------------
(* generate_report and get_scorecard: three reads, no snapshot.            *)

ReadResultsToReport(c) ==
  /\ pc[c] = "read_results"
  /\ req[c].op = "generate_report"
  /\ seen' = [seen EXCEPT ![c] = RowsOf(req[c].run)]
  /\ Goto(c, "read_scores")
  /\ UNCHANGED <<store, published, soc, req, loaded, scoreRows, todo>>

ScoreRowsOf(r) == {s \in scores : s.run = r}

ReadScoresToReport(c) ==
  /\ pc[c] = "read_scores"
  /\ req[c].op = "generate_report"
  /\ scoreRows' = [scoreRows EXCEPT ![c] = ScoreRowsOf(req[c].run)]
  /\ Goto(c, "save_report")
  /\ UNCHANGED <<store, published, soc, req, loaded, seen, todo>>

ReadScoresToAnswer(c) ==
  /\ pc[c] = "read_scores"
  /\ req[c].op = "get_scorecard"
  /\ scoreRows' = [scoreRows EXCEPT ![c] = ScoreRowsOf(req[c].run)]
  /\ Goto(c, "ok")
  /\ UNCHANGED <<store, published, soc, req, loaded, seen, todo>>

(* The report keeps the status, the failures and one of the scorecards the *)
(* three reads allow.                                                      *)
SaveReport(c) ==
  \E card \in Scorecards(scoreRows[c]) :
    /\ pc[c] = "save_report"
    /\ reports' = reports \cup
         {[by |-> c, run |-> req[c].run, status |-> loaded[c], card |-> card,
           remediations |-> Remediations(catalog, seen[c])]}
    /\ Goto(c, "publish_report")
    /\ UNCHANGED <<catalog, runs, results, scores, evidence, published, soc,
                   locals>>

PublishReport(c) ==
  /\ pc[c] = "publish_report"
  /\ published' = published \cup
       {[topic |-> "report_generated", by |-> c, run |-> req[c].run]}
  /\ Goto(c, "ok")
  /\ Record(c, {"report_generated", "operation_succeeded"})
  /\ UNCHANGED <<store, locals>>

-----------------------------------------------------------------------------
(* What may interrupt a call: a store method raises (the publisher never   *)
(* does), or the replica dies, with the calls it serves and its SOC.       *)

Abort(c) ==
  /\ "exception" \in Faults
  /\ pc[c] \in StoreSteps
  /\ Fail(c, "aborted")
  /\ UNCHANGED <<store, published, locals>>

Crash(rep) ==
  /\ "crash" \in Faults
  /\ pc' = [c \in Calls |->
              IF pc[c] \in InFlight /\ req[c].at = rep THEN "aborted" ELSE pc[c]]
  /\ soc' = [soc EXCEPT ![rep] = {}]
  /\ UNCHANGED <<store, published, locals>>

-----------------------------------------------------------------------------

(* The service comes up on a store that may already hold registered tests  *)
(* and started runs.                                                       *)
Init ==
  /\ catalog \in [Tests -> Categories \cup {Absent}]
  /\ runs \in [Runs -> {Absent, "started"}]
  /\ results = {} /\ scores = {} /\ evidence = {} /\ reports = {}
  /\ published = {}
  /\ soc = [rep \in Replicas |-> {}]
  /\ pc = [c \in Calls |-> "idle"]
  /\ req = [c \in Calls |-> NoRequest(CHOOSE rep \in Replicas : TRUE)]
  /\ loaded = [c \in Calls |-> Absent]
  /\ seen = [c \in Calls |-> {}]
  /\ scoreRows = [c \in Calls |-> {}]
  /\ todo = [c \in Calls |-> {}]

Request(c) ==
  \/ CallRegisterTest(c)
  \/ CallStartRun(c)
  \/ CallOnRun(c)
  \/ CallSubmitResult(c)

Step(c) ==
  \/ SaveTest(c)
  \/ SaveNewRun(c) \/ PublishStarted(c)
  \/ LoadMissing(c) \/ LoadRefused(c) \/ LoadRun(c)
  \/ SaveResult(c)
  \/ ReadResultsToEnd(c) \/ ReadResultsRefused(c)
  \/ SaveRun(c) \/ AnnounceCompleted(c) \/ AnnounceFailed(c)
  \/ ComputeScores(c) \/ SaveScore(c) \/ PublishScore(c) \/ PublishResults(c)
  \/ SaveEvidence(c) \/ PublishEvidence(c)
  \/ ReadResultsToReport(c) \/ ReadScoresToReport(c) \/ ReadScoresToAnswer(c)
  \/ SaveReport(c) \/ PublishReport(c)

(* No call is in flight: the service waits for the next one, if any.       *)
Quiet ==
  /\ \A c \in Calls : pc[c] \notin InFlight
  /\ UNCHANGED vars

Next ==
  \/ \E c \in Calls : Request(c) \/ Step(c) \/ Abort(c)
  \/ \E rep \in Replicas : Crash(rep)
  \/ Quiet

Spec == Init /\ [][Next]_vars

(* A thread of the pool that has a step to take takes it; nothing makes a  *)
(* client call and nothing makes a call fail.                              *)
Fair(c) == WF_vars(Step(c))

FairSpec == Spec /\ \A c \in Calls : Fair(c)

-----------------------------------------------------------------------------
(* Type invariant.                                                         *)

TypeOK ==
  /\ catalog \in [Tests -> Categories \cup {Absent}]
  /\ runs \in [Runs -> RunRows]
  /\ results \subseteq ResultRow
  /\ scores \subseteq ScoreRow
  /\ evidence \subseteq EvidenceRow
  /\ \A row \in reports : IsReportRow(row)
  /\ \A e \in published : e \in Events \/ IsResultsEvent(e)
  /\ soc \in [Replicas -> SUBSET SocEvents]
  /\ pc \in [Calls -> {"idle"} \cup InFlight \cup Answers]
  /\ req \in [Calls -> Requests]
  /\ loaded \in [Calls -> RunRows]
  /\ seen \in [Calls -> SUBSET ResultRow]
  /\ scoreRows \in [Calls -> SUBSET ScoreRow]
  /\ todo \in [Calls -> SUBSET DimensionSet]

-----------------------------------------------------------------------------
(* Properties of every interleaving, whatever fails on the way.            *)

(* save_run writes the status it has in memory over the status in the      *)
(* store, unchecked, yet no interleaving of two such calls reopens a run   *)
(* that ended or loses a run (runner.py, complete_run and fail_run).       *)
NeverReopens ==
  [][\A r \in Runs : /\ Known(r) => runs'[r] # Absent
                     /\ runs[r] \in Ended => runs'[r] \in Ended]_vars

(* A consumer never learns of a thing the store does not hold: the facade  *)
(* publishes after it saves, so a call that dies in between loses the      *)
(* event and never the row (bench_service.py, every publish).              *)
EventsFollowStore ==
  \A e \in published :
    CASE e.topic = "run_started"        -> Known(e.run)
      [] e.topic = "run_completed"      -> runs[e.run] \in Ended
      [] e.topic = "score_published"    ->
           \E s \in scores : s.by = e.by /\ s.dim = e.dim /\ s.value = e.value
      [] e.topic = "bench_results"      -> runs[e.run] \in Ended
      [] e.topic = "evidence_collected" -> \E row \in evidence : row.by = e.by
      [] e.topic = "report_generated"   -> \E row \in reports : row.by = e.by

(* The counts of a run_completed event never claim a passed or a failed    *)
(* result the store does not hold for that run, even when results are      *)
(* submitted while the run completes.                                      *)
CountsAreStored ==
  \A e \in published :
    e.topic = "run_completed" =>
      /\ e.passed_count <= Cardinality(PassedIn(RowsOf(e.run)))
      /\ e.failed_count <= Cardinality(FailedIn(RowsOf(e.run)))

(* A stored score belongs to a run that ended and rests on stored results  *)
(* of its own dimension: at least one, and no more passed or failed ones   *)
(* than the store holds.  So its value is a fraction in [0, 1].            *)
ScoresAreStored ==
  \A s \in scores :
    LET rows == Under(catalog, RowsOf(s.run), s.dim) IN
    /\ runs[s.run] \in Ended
    /\ 0 < s.value.total
    /\ s.value.passed <= Cardinality(PassedIn(rows))
    /\ s.value.total - s.value.passed <= Cardinality(FailedIn(rows))

(* When bench.results leaves, the whole completion is done: the same call  *)
(* has announced the end with the counts the verdict is made from, and has *)
(* saved and published one score for each dimension of the scorecard, with *)
(* the value the scorecard gives it (bench_service.py, complete_run).      *)
ResultsEventWhole ==
  \A e \in published :
    e.topic = "bench_results" =>
      /\ \E f \in published : /\ f.topic = "run_completed" /\ f.by = e.by
                              /\ f.run = e.run /\ f.status = "completed"
                              /\ e.passed <=> f.failed_count = 0
      /\ \A d \in DOMAIN e.card :
           \E f \in published : /\ f.topic = "score_published" /\ f.by = e.by
                                /\ f.dim = d /\ f.value = e.card[d]

(* The two ways bench.results says how a run went agree: it passed iff its *)
(* score, the mean over the dimensions, is 1.0, unless no result was read  *)
(* (bench_service.py, complete_run; scoring.py, build_scorecard).          *)
VerdictIsScore ==
  \A e \in published :
    e.topic = "bench_results" /\ DOMAIN e.card # {} =>
      LET score == Overall(e.card) IN e.passed <=> score.num = score.den

(* The call has saved the run as completed: it announces the end next, or  *)
(* has announced it.                                                       *)
HasCompleted(c, r) ==
  /\ req[c].op = "complete_run" /\ req[c].run = r
  /\ \/ pc[c] = "announce_end"
     \/ \E e \in published : e.topic = "run_completed" /\ e.by = c

(* A report that says its run is completed lists every failed result that  *)
(* a completion counted which saved the run before: generate_report reads  *)
(* the status before the results, without a snapshot, while results are    *)
(* submitted and others complete the run too (bench_service.py,            *)
(* generate_report and complete_run).                                      *)
ReportCoversCompletion ==
  "crash" \notin Faults =>
    \A rep \in reports :
      rep.status = "completed" =>
        \E c \in Calls :
          /\ HasCompleted(c, rep.run)
          /\ {row.by : row \in FailedIn(seen[c])}
               \subseteq {item.result : item \in rep.remediations}

(* Every mutation is audited: an operation in flight has its start in the  *)
(* trail of its replica, one that ended has exactly the matching outcome   *)
(* (soc.py, audit_operation).  A crash takes the trail with it.            *)
AuditTrail ==
  "crash" \notin Faults =>
    \A c \in Calls :
      LET mine == {e.type : e \in {f \in soc[req[c].at] : f.by = c}} IN
      pc[c] # "idle" /\ Audited(c) =>
        /\ "operation_started" \in mine
        /\ "operation_succeeded" \in mine <=> pc[c] = "ok"
        /\ "operation_failed" \in mine
             <=> pc[c] \in {"not_found", "conflict", "aborted"}

(* The alert of ADR-008: when more than a tenth of the runs a replica saw   *)
(* end has failed, the next completion on it finds or raises an incident   *)
(* (bench_service.py, complete_run; soc.py, detect_anomaly).               *)
FailureRateRaisesIncident ==
  [][\A c \in Calls :
       LET events == soc[req[c].at]
           failed == {e \in events : e.type = "run_failed"}
           ended == failed \cup {e \in events : e.type = "run_completed"}
       IN /\ pc[c] = "publish_results" /\ pc'[c] = "ok"
          /\ 10 * Cardinality(failed) > Cardinality(ended)
          => \E e \in soc'[req[c].at] : e.type = "incident_response"]_vars

-----------------------------------------------------------------------------
(* Properties of a run driven by one client, one call at a time.           *)

(* No result joins a run that ended, and none leaves it (runner.py,        *)
(* "cannot add results to a completed or failed run").                     *)
ResultsFrozen ==
  [][\A r \in Runs : runs[r] \in Ended => RowsOf(r)' = RowsOf(r)]_vars

(* A run ends once: every run_completed event of a run is one event, and   *)
(* tells the status the store holds (bench_service.py, complete_run and    *)
(* fail_run).                                                              *)
EndsOnce ==
  \A e \in published :
    e.topic = "run_completed" =>
      /\ e.status = runs[e.run]
      /\ \A f \in published :
           f.topic = "run_completed" /\ f.run = e.run => f = e

(* The scorecard the store gives back for a run is the one bench.results   *)
(* published, and it is made of all the results stored for the run.        *)
StoreReproducesCard ==
  \A e \in published :
    e.topic = "bench_results" =>
      /\ Scorecards(ScoreRowsOf(e.run)) = {e.card}
      /\ e.card = ScoresOf(catalog, RowsOf(e.run))

(* Driven so, the service implements the ledger of runs: an event or a row *)
(* of the ledger is one here without the call it came from.                *)
Ledger == INSTANCE RunLedger WITH
  announced <- {[run |-> e.run, status |-> e.status,
                 passed_count |-> e.passed_count,
                 failed_count |-> e.failed_count] :
                  e \in {f \in published : f.topic = "run_completed"}},
  scored <- {[run |-> s.run, dim |-> s.dim, value |-> s.value] : s \in scores},
  verdicts <- {[run |-> e.run, passed |-> e.passed, card |-> e.card] :
                  e \in {f \in published : f.topic = "bench_results"}}

ImplementsLedger == Ledger!Spec

-----------------------------------------------------------------------------
(* Liveness.                                                               *)

(* Every call made is answered: no label waits on another call.            *)
EveryCallAnswered ==
  \A c \in Calls : pc[c] \in InFlight ~> pc[c] \in Answers

(* The completion of a run is announced: "Emitted when a test run          *)
(* completes." (events.avsc, RunCompleted; bench_service.py, complete_run).*)
CompletedIsAnnounced ==
  \A r \in Runs :
    runs[r] = "completed" ~>
      \E e \in published : e.topic = "run_completed" /\ e.run = r

(* A run saved as completed is reported on bench.results.                  *)
CompletedIsReported ==
  \A r \in Runs :
    runs[r] = "completed" ~>
      \E e \in published : e.topic = "bench_results" /\ e.run = r
=============================================================================
