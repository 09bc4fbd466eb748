------------------------- MODULE BenchSafetyProofs -------------------------
(***************************************************************************)
(* What no interleaving, exception or crash of BenchService can break, for *)
(* any number of calls, runs, tests, categories and replicas.              *)
(***************************************************************************)
EXTENDS BenchServiceProofs

(* The labels and statuses are plain sets of strings.                      *)
USE DEF Absent, Status, Ended, RunRows, StoreSteps, PublishSteps, InFlight, Answers

-----------------------------------------------------------------------------
(* The store only grows: rows are added, and the status of a run changes   *)
(* only to that of its creation or of its end.                             *)

StatusesKept ==
  \A r \in Runs : /\ Known(r) => runs'[r] # Absent
                  /\ runs[r] \in Ended => runs'[r] \in Ended

RowsKept ==
  /\ results \subseteq results'
  /\ scores \subseteq scores'
  /\ evidence \subseteq evidence'
  /\ reports \subseteq reports'

(* Two steps change the status of a run: the run of one is nobody's yet,   *)
(* and the other writes the end status its call carries.                   *)
LEMMA StepKeepsStore ==
  ASSUME TypeInv, NEW c \in Calls, Step(c)
  PROVE  StatusesKept /\ RowsKept
<1>1. CASE SaveNewRun(c)
  <2>1. /\ req[c].run \in Runs
        /\ runs[req[c].run] = Absent
        /\ runs' = [runs EXCEPT ![req[c].run] = "started"]
    BY <1>1 DEF SaveNewRun, TypeInv, Arguments, Fresh
  <2>2. StatusesKept
    BY <2>1 DEF StatusesKept, Known, TypeInv, TypeOK
  <2> QED
    BY <1>1, <2>2 DEF SaveNewRun, RowsKept
<1>2. CASE SaveRun(c)
  <2>1. /\ runs' = [runs EXCEPT ![req[c].run] = loaded[c]]
        /\ loaded[c] \in Ended
    BY <1>2 DEF SaveRun, StatusSaved, TypeInv, Arguments, EndStatus
  <2>2. StatusesKept
    BY <2>1 DEF StatusesKept, Known, TypeInv, TypeOK
  <2> QED
    BY <1>2, <2>2 DEF SaveRun, RowsKept
<1>3. CASE SaveScore(c)
  BY <1>3 DEF SaveScore, StatusesKept, RowsKept, Known
<1>4. CASE SaveEvidence(c)
  BY <1>4 DEF SaveEvidence, StatusesKept, RowsKept, Known
<1>5. CASE SaveReport(c)
  BY <1>5 DEF SaveReport, StatusesKept, RowsKept, Known
<1>6. CASE SaveResult(c)
  BY <1>6 DEF SaveResult, StatusesKept, RowsKept, Known
<1>7. CASE \/ SaveTest(c) \/ PublishStarted(c) \/ LoadMissing(c)
           \/ LoadRefused(c) \/ LoadRun(c)
           \/ ReadResultsToEnd(c) \/ ReadResultsRefused(c)
           \/ AnnounceCompleted(c) \/ AnnounceFailed(c) \/ ComputeScores(c)
           \/ PublishScore(c) \/ PublishResults(c) \/ PublishEvidence(c)
           \/ ReadResultsToReport(c) \/ ReadScoresToReport(c)
           \/ ReadScoresToAnswer(c) \/ PublishReport(c)
  <2>1. UNCHANGED <<runs, results, scores, evidence, reports>>
    BY <1>7 DEF SaveTest, PublishStarted, LoadMissing, LoadRefused, LoadRun,
       ReadResultsToEnd, ReadResultsRefused, AnnounceCompleted,
       AnnounceFailed, ComputeScores, PublishScore, PublishResults,
       PublishEvidence, ReadResultsToReport, ReadScoresToReport,
       ReadScoresToAnswer, PublishReport, store
  <2> QED
    BY <2>1 DEF StatusesKept, RowsKept, Known
<1> QED
  BY <1>1, <1>2, <1>3, <1>4, <1>5, <1>6, <1>7 DEF Step

LEMMA NextKeepsStore ==
  ASSUME TypeInv, [Next]_vars
  PROVE  StatusesKept /\ RowsKept
<1>1. ASSUME NEW c \in Calls, Step(c) PROVE StatusesKept /\ RowsKept
  BY <1>1, StepKeepsStore
<1>2. ASSUME NEW c \in Calls, Request(c) \/ Abort(c)
      PROVE  StatusesKept /\ RowsKept
  <2>1. UNCHANGED store
    BY <1>2, RequestIsWellFormed DEF Accept, Abort
  <2> QED
    BY <2>1 DEF store, StatusesKept, RowsKept, Known
<1>3. ASSUME NEW rep \in Replicas, Crash(rep)
      PROVE  StatusesKept /\ RowsKept
  BY <1>3 DEF Crash, store, StatusesKept, RowsKept, Known
<1>4. CASE Quiet \/ UNCHANGED vars
  BY <1>4 DEF Quiet, vars, StatusesKept, RowsKept, Known
<1> QED
  BY <1>1, <1>2, <1>3, <1>4 DEF Next

(* A run that ended never starts again and no run is lost, though save_run *)
(* overwrites the row unchecked (runner.py, complete_run and fail_run).    *)
THEOREM NeverReopened == Spec => NeverReopens
<1>1. TypeInv /\ [Next]_vars =>
        [\A r \in Runs : /\ Known(r) => runs'[r] # Absent
                         /\ runs[r] \in Ended => runs'[r] \in Ended]_vars
  BY NextKeepsStore DEF StatusesKept
<1> QED
  BY <1>1, TypeInvariant, PTL DEF Spec, NeverReopens

-----------------------------------------------------------------------------
(* Events follow the rows they tell of.                                    *)

Backed(e) ==
  CASE e.topic = "run_started"        -> Known(e.run)
    [] e.topic = "run_completed"      -> runs[e.run] \in Ended
    [] e.topic = "score_published"    ->
         \E s \in scores : s.by = e.by /\ s.dim = e.dim /\ s.value = e.value
    [] e.topic = "bench_results"      -> runs[e.run] \in Ended
    [] e.topic = "evidence_collected" -> \E row \in evidence : row.by = e.by
    [] e.topic = "report_generated"   -> \E row \in reports : row.by = e.by

(* A call about to announce its evidence or its report has stored it.      *)
Announcing ==
  \A c \in Calls :
    /\ pc[c] = "publish_evidence" => \E row \in evidence : row.by = c
    /\ pc[c] = "publish_report" => \E row \in reports : row.by = c

EventsInv == EventsFollowStore /\ Announcing

LEMMA EventsAreBacked ==
  EventsFollowStore <=> \A e \in published : Backed(e)
BY DEF EventsFollowStore, Backed

(* What the store holds for an event it keeps.                             *)
LEMMA BackedStays ==
  ASSUME TypeInv, StatusesKept, RowsKept, NEW e \in published, Backed(e)
  PROVE  Backed(e)'
<1>1. e \in Events \/ IsResultsEvent(e)
  BY DEF TypeInv, TypeOK
<1>2. CASE e.topic = "run_started"
  <2>1. e.run \in Runs
    BY <1>1, <1>2 DEF Events, IsResultsEvent
  <2> QED
    BY <1>2, <2>1 DEF Backed, StatusesKept, Known
<1>3. CASE e.topic = "run_completed" \/ e.topic = "bench_results"
  <2>1. e.run \in Runs
    BY <1>1, <1>3 DEF Events, IsResultsEvent
  <2> QED
    BY <1>3, <2>1 DEF Backed, StatusesKept
<1>4. CASE e.topic = "score_published"
  BY <1>4 DEF Backed, RowsKept
<1>5. CASE e.topic = "evidence_collected"
  BY <1>5 DEF Backed, RowsKept
<1>6. CASE e.topic = "report_generated"
  BY <1>6 DEF Backed, RowsKept
<1>7. e.topic \in {"run_started", "run_completed", "score_published",
                   "bench_results", "evidence_collected", "report_generated"}
  BY <1>1 DEF Events, IsResultsEvent
<1> QED
  BY <1>2, <1>3, <1>4, <1>5, <1>6, <1>7

(* The events a step adds have their rows already.                         *)
LEMMA NewEventsBacked ==
  ASSUME TypeInv, EventsInv, NEW c \in Calls, Step(c)
  PROVE  \A e \in published' \ published : Backed(e)'
<1>1. CASE PublishStarted(c)
  <2>1. /\ published' = published \cup
             {[topic |-> "run_started", by |-> c, run |-> req[c].run]}
        /\ runs' = runs
        /\ runs[req[c].run] # Absent
    BY <1>1 DEF PublishStarted, store, TypeInv, Arguments, Found
  <2>2. ASSUME NEW e \in published' \ published
        PROVE  e.topic = "run_started" /\ e.run = req[c].run
    BY <2>1
  <2> QED
    BY <2>1, <2>2 DEF Backed, Known
<1>2. CASE AnnounceCompleted(c) \/ AnnounceFailed(c)
  <2>1. /\ published' = published \cup {EndEvent(c)}
        /\ runs' = runs
        /\ runs[req[c].run] \in Ended
    BY <1>2 DEF AnnounceCompleted, AnnounceFailed, store, TypeInv, Arguments,
       Saved
  <2>2. EndEvent(c).topic = "run_completed" /\ EndEvent(c).run = req[c].run
    BY DEF EndEvent
  <2> QED
    BY <2>1, <2>2 DEF Backed
<1>3. CASE PublishScore(c)
  <2>1. PICK s \in scores :
          /\ s.by = c
          /\ published' = published \cup
               {[topic |-> "score_published", by |-> c, run |-> s.run,
                 dim |-> s.dim, value |-> s.value]}
          /\ scores' = scores
    BY <1>3 DEF PublishScore, store
  <2>2. ASSUME NEW e \in published' \ published
        PROVE  /\ e.topic = "score_published"
               /\ e.by = s.by /\ e.dim = s.dim /\ e.value = s.value
    BY <2>1
  <2> QED
    BY <2>1, <2>2 DEF Backed
<1>4. CASE PublishResults(c)
  <2>1. /\ published' = published \cup {ResultsEvent(c)}
        /\ runs' = runs
        /\ runs[req[c].run] \in Ended
    BY <1>4 DEF PublishResults, store, TypeInv, Arguments, Saved
  <2>2. /\ ResultsEvent(c).topic = "bench_results"
        /\ ResultsEvent(c).run = req[c].run
    BY DEF ResultsEvent
  <2> QED
    BY <2>1, <2>2 DEF Backed
<1>5. CASE PublishEvidence(c)
  <2>1. /\ published' = published \cup
             {[topic |-> "evidence_collected", by |-> c, run |-> req[c].run]}
        /\ evidence' = evidence
        /\ \E row \in evidence : row.by = c
    BY <1>5 DEF PublishEvidence, store, EventsInv, Announcing
  <2>2. ASSUME NEW e \in published' \ published
        PROVE  e.topic = "evidence_collected" /\ e.by = c
    BY <2>1
  <2> QED
    BY <2>1, <2>2 DEF Backed
<1>6. CASE PublishReport(c)
  <2>1. /\ published' = published \cup
             {[topic |-> "report_generated", by |-> c, run |-> req[c].run]}
        /\ reports' = reports
        /\ \E row \in reports : row.by = c
    BY <1>6 DEF PublishReport, store, EventsInv, Announcing
  <2>2. ASSUME NEW e \in published' \ published
        PROVE  e.topic = "report_generated" /\ e.by = c
    BY <2>1
  <2> QED
    BY <2>1, <2>2 DEF Backed
<1>7. CASE \/ SaveTest(c) \/ SaveNewRun(c) \/ LoadMissing(c)
           \/ LoadRefused(c) \/ LoadRun(c) \/ SaveResult(c)
           \/ ReadResultsToEnd(c) \/ ReadResultsRefused(c) \/ SaveRun(c)
           \/ ComputeScores(c) \/ SaveScore(c) \/ SaveEvidence(c)
           \/ ReadResultsToReport(c) \/ ReadScoresToReport(c)
           \/ ReadScoresToAnswer(c) \/ SaveReport(c)
  <2>1. published' = published
    BY <1>7 DEF SaveTest, SaveNewRun, LoadMissing, LoadRefused, LoadRun,
       SaveResult, ReadResultsToEnd, ReadResultsRefused, SaveRun,
       ComputeScores, SaveScore, SaveEvidence, ReadResultsToReport,
       ReadScoresToReport, ReadScoresToAnswer, SaveReport
  <2> QED
    BY <2>1
<1> QED
  BY <1>1, <1>2, <1>3, <1>4, <1>5, <1>6, <1>7 DEF Step

(* A call comes to announce by storing its own row.                        *)
LEMMA StepKeepsAnnouncing ==
  ASSUME TypeInv, EventsInv, NEW c \in Calls, Step(c)
  PROVE  Announcing'
<1>1. RowsKept
  BY StepKeepsStore
<1>2. \A d \in Calls \ {c} : pc'[d] = pc[d]
  BY DEF Step, SaveTest, SaveNewRun, PublishStarted, LoadMissing, LoadRefused,
     LoadRun, SaveResult, ReadResultsToEnd, ReadResultsRefused, SaveRun,
     AnnounceCompleted, AnnounceFailed, ComputeScores, SaveScore,
     PublishScore, PublishResults, SaveEvidence, PublishEvidence,
     ReadResultsToReport, ReadScoresToReport, ReadScoresToAnswer, SaveReport,
     PublishReport, Goto, Fail, TypeInv, TypeOK
<1>3. pc'[c] = "publish_evidence" => \E row \in evidence' : row.by = c
  <2>1. pc'[c] = "publish_evidence" => SaveEvidence(c)
    BY DEF Step, SaveTest, SaveNewRun, PublishStarted, LoadMissing,
       LoadRefused, LoadRun, SaveResult, ReadResultsToEnd,
       ReadResultsRefused, SaveRun, AnnounceCompleted, AnnounceFailed,
       ComputeScores, SaveScore, PublishScore, PublishResults,
       PublishEvidence, ReadResultsToReport, ReadScoresToReport,
       ReadScoresToAnswer, SaveReport, PublishReport, Goto, Fail,
       AfterLoad, NextScoreStep, TypeInv, TypeOK
  <2>2. SaveEvidence(c) => [by |-> c, run |-> req[c].run] \in evidence'
    BY DEF SaveEvidence
  <2> QED
    BY <2>1, <2>2
<1>4. pc'[c] = "publish_report" => \E row \in reports' : row.by = c
  <2>1. pc'[c] = "publish_report" => SaveReport(c)
    BY DEF Step, SaveTest, SaveNewRun, PublishStarted, LoadMissing,
       LoadRefused, LoadRun, SaveResult, ReadResultsToEnd,
       ReadResultsRefused, SaveRun, AnnounceCompleted, AnnounceFailed,
       ComputeScores, SaveScore, PublishScore, PublishResults, SaveEvidence,
       PublishEvidence, ReadResultsToReport, ReadScoresToReport,
       ReadScoresToAnswer, PublishReport, Goto, Fail,
       AfterLoad, NextScoreStep, TypeInv, TypeOK
  <2>2. ASSUME SaveReport(c) PROVE \E row \in reports' : row.by = c
    <3>1. PICK card : [by |-> c, run |-> req[c].run, status |-> loaded[c],
                       card |-> card,
                       remediations |-> Remediations(catalog, seen[c])]
                        \in reports'
      BY <2>2 DEF SaveReport
    <3> QED
      BY <3>1
  <2> QED
    BY <2>1, <2>2
<1> QED
  BY <1>1, <1>2, <1>3, <1>4 DEF Announcing, EventsInv, RowsKept

LEMMA NextKeepsEventsInv ==
  ASSUME TypeInv, EventsInv, [Next]_vars
  PROVE  EventsInv'
<1>1. StatusesKept /\ RowsKept
  BY NextKeepsStore
<1>2. \A e \in published : Backed(e)'
  BY <1>1, BackedStays, EventsAreBacked DEF EventsInv
<1>3. ASSUME NEW c \in Calls, Step(c) PROVE EventsInv'
  <2>1. \A e \in published' : Backed(e)'
    BY <1>2, <1>3, NewEventsBacked
  <2>2. EventsFollowStore'
    BY <2>1 DEF EventsFollowStore, Backed
  <2> QED
    BY <1>3, <2>2, StepKeepsAnnouncing DEF EventsInv
<1>4. ASSUME published' = published,
             \A c \in Calls : \/ pc'[c] = pc[c]
                              \/ pc'[c] \notin {"publish_evidence", "publish_report"}
      PROVE  EventsInv'
  <2>1. EventsFollowStore'
    BY <1>2, <1>4 DEF EventsFollowStore, Backed
  <2>2. Announcing'
    BY <1>1, <1>4 DEF EventsInv, Announcing, RowsKept
  <2> QED
    BY <2>1, <2>2 DEF EventsInv
<1>5. ASSUME NEW c \in Calls, Request(c) \/ Abort(c) PROVE EventsInv'
  <2>1. published' = published
    BY <1>5, RequestIsWellFormed DEF Accept, Abort
  <2>2. \A d \in Calls :
          \/ pc'[d] = pc[d]
          \/ pc'[d] \notin {"publish_evidence", "publish_report"}
    BY <1>5, RequestIsWellFormed DEF Accept, Goto, FirstStep, Abort, Fail,
       TypeInv, TypeOK
  <2> QED
    BY <1>4, <2>1, <2>2
<1>6. ASSUME NEW rep \in Replicas, Crash(rep) PROVE EventsInv'
  BY <1>4, <1>6 DEF Crash
<1>7. CASE Quiet \/ UNCHANGED vars
  BY <1>4, <1>7 DEF Quiet, vars
<1> QED
  BY <1>3, <1>5, <1>6, <1>7 DEF Next

(* No event tells of a thing the store does not hold: every publish comes  *)
(* after the save, and what is saved stays (bench_service.py).             *)
THEOREM EventsFollowed == Spec => []EventsFollowStore
<1>1. Init => EventsInv
  BY DEF Init, EventsInv, EventsFollowStore, Announcing
<1>2. TypeInv /\ EventsInv /\ [Next]_vars => EventsInv'
  BY NextKeepsEventsInv
<1> QED
  BY <1>1, <1>2, TypeInvariant, PTL DEF Spec, EventsInv

-----------------------------------------------------------------------------
(* The audit trail.                                                        *)

(* The types of the events of call d on replica rep.                       *)
TrailOf(d, rep) == {e.type : e \in {f \in soc[rep] : f.by = d}}

(* What the trail of a call says of where the call is.                     *)
Audit(d) ==
  /\ pc[d] = "idle" => \A rep \in Replicas : TrailOf(d, rep) = {}
  /\ pc[d] # "idle" /\ Audited(d) =>
       /\ "operation_started" \in TrailOf(d, req[d].at)
       /\ "operation_succeeded" \in TrailOf(d, req[d].at) <=> pc[d] = "ok"
       /\ "operation_failed" \in TrailOf(d, req[d].at)
            <=> pc[d] \in {"not_found", "conflict", "aborted"}

AuditInv == \A d \in Calls : Audit(d)

(* A step adds to the trail of its own call, on the replica of the call.   *)
Recorded(c, types) ==
  \A d \in Calls, rep \in Replicas :
    TrailOf(d, rep)' = TrailOf(d, rep)
                         \cup {t \in types : d = c /\ rep = req[c].at /\ Audited(c)}

LEMMA RecordAddsToTrail ==
  ASSUME TypeInv, NEW c \in Calls, NEW types, Record(c, types)
  PROVE  Recorded(c, types)
<1>1. req[c].at \in Replicas /\ soc \in [Replicas -> SUBSET SocEvents]
  BY DEF TypeInv, TypeOK, Requests
<1>2. soc' = [soc EXCEPT ![req[c].at] =
                @ \cup {SocEvent(c, t) : t \in IF Audited(c) THEN types ELSE {}}]
  BY DEF Record
<1>3. \A t : SocEvent(c, t).by = c /\ SocEvent(c, t).type = t
  BY DEF SocEvent
<1> SUFFICES ASSUME NEW d \in Calls, NEW rep \in Replicas
             PROVE  TrailOf(d, rep)' = TrailOf(d, rep)
                      \cup {t \in types : d = c /\ rep = req[c].at /\ Audited(c)}
  BY DEF Recorded
<1>4. CASE d = c /\ rep = req[c].at /\ Audited(c)
  <2>1. soc'[rep] = soc[rep] \cup {SocEvent(c, t) : t \in types}
    BY <1>1, <1>2, <1>4
  <2> QED
    BY <1>3, <1>4, <2>1 DEF TrailOf
<1>5. CASE ~(d = c /\ rep = req[c].at /\ Audited(c))
  <2>1. {f \in soc'[rep] : f.by = d} = {f \in soc[rep] : f.by = d}
    <3>1. CASE rep = req[c].at /\ Audited(c)
      BY <1>1, <1>2, <1>3, <1>5, <3>1
    <3>2. CASE ~(rep = req[c].at /\ Audited(c))
      BY <1>1, <1>2, <3>2
    <3> QED
      BY <3>1, <3>2
  <2> QED
    BY <1>5, <2>1 DEF TrailOf
<1> QED
  BY <1>4, <1>5

(* A call whose trail grows by the outcome of the label it moves to keeps  *)
(* a trail that tells where it is; all other calls do.                     *)
LEMMA MoveKeepsAudit ==
  ASSUME TypeInv, AuditInv, NEW c \in Calls, NEW label, NEW types,
         pc[c] \in InFlight,
         req' = req,
         pc' = [pc EXCEPT ![c] = label],
         label # "idle",
         Recorded(c, types),
         "operation_succeeded" \in types <=> label = "ok",
         "operation_failed" \in types
           <=> label \in {"not_found", "conflict", "aborted"}
  PROVE  AuditInv'
<1> SUFFICES ASSUME NEW d \in Calls PROVE Audit(d)'
  BY DEF AuditInv
<1>1. /\ pc \in [Calls -> {"idle"} \cup InFlight \cup Answers]
      /\ req[c].at \in Replicas /\ req[d].at \in Replicas
  BY DEF TypeInv, TypeOK, Requests
<1>2. Audited(d)' <=> Audited(d)
  BY DEF Audited
<1>3. Audit(d)
  BY DEF AuditInv
<1>4. CASE d = c
  <2>1. pc'[c] = label
    BY <1>1
  <2>2. Audited(c) =>
          TrailOf(c, req[c].at)' = TrailOf(c, req[c].at) \cup types
    BY <1>1 DEF Recorded
  <2>3. pc[c] # "idle" /\ pc[c] # "ok"
          /\ pc[c] \notin {"not_found", "conflict", "aborted"}
    OBVIOUS
  <2> QED
    BY <1>2, <1>3, <1>4, <2>1, <2>2, <2>3 DEF Audit
<1>5. CASE d # c
  <2>1. pc'[d] = pc[d]
    BY <1>1, <1>5
  <2>2. \A rep \in Replicas : TrailOf(d, rep)' = TrailOf(d, rep)
    BY <1>5 DEF Recorded
  <2> QED
    BY <1>1, <1>2, <1>3, <2>1, <2>2 DEF Audit, TrailOf
<1> QED
  BY <1>4, <1>5

(* A step that records nothing adds nothing.                               *)
LEMMA NothingRecorded ==
  ASSUME NEW c \in Calls, UNCHANGED soc
  PROVE  Recorded(c, {})
BY DEF Recorded, TrailOf

LEMMA FailKeepsAudit ==
  ASSUME TypeInv, AuditInv, NEW c \in Calls, pc[c] \in InFlight,
         UNCHANGED req,
         NEW answer \in {"not_found", "conflict", "aborted"}, Fail(c, answer)
  PROVE  AuditInv'
<1>1. pc' = [pc EXCEPT ![c] = answer] /\ Recorded(c, {"operation_failed"})
  BY RecordAddsToTrail DEF Fail
<1> QED
  BY <1>1, MoveKeepsAudit

(* A label on the way: no outcome yet, and none recorded.                  *)
LEMMA GotoKeepsAudit ==
  ASSUME TypeInv, AuditInv, NEW c \in Calls, pc[c] \in InFlight,
         UNCHANGED <<req, soc>>, NEW label \in InFlight, Goto(c, label)
  PROVE  AuditInv'
<1>1. Recorded(c, {})
  BY NothingRecorded
<1> QED
  BY <1>1, MoveKeepsAudit DEF Goto

LEMMA DoneKeepsAudit ==
  ASSUME TypeInv, AuditInv, NEW c \in Calls, pc[c] \in InFlight,
         UNCHANGED req, NEW types, Goto(c, "ok"), Record(c, types),
         "operation_succeeded" \in types, "operation_failed" \notin types
  PROVE  AuditInv'
<1>1. Recorded(c, types)
  BY RecordAddsToTrail
<1> QED
  BY <1>1, MoveKeepsAudit DEF Goto

LEMMA StepKeepsAudit ==
  ASSUME TypeInv, AuditInv, NEW c \in Calls, Step(c)
  PROVE  AuditInv'
<1>1. pc[c] \in InFlight
  BY DEF Step, SaveTest, SaveNewRun, PublishStarted, LoadMissing, LoadRefused,
     LoadRun, SaveResult, ReadResultsToEnd, ReadResultsRefused, SaveRun,
     AnnounceCompleted, AnnounceFailed, ComputeScores, SaveScore,
     PublishScore, PublishResults, SaveEvidence, PublishEvidence,
     ReadResultsToReport, ReadScoresToReport, ReadScoresToAnswer, SaveReport,
     PublishReport
<1>2. CASE LoadMissing(c) \/ LoadRefused(c) \/ ReadResultsRefused(c)
  BY <1>1, <1>2, FailKeepsAudit DEF LoadMissing, LoadRefused,
     ReadResultsRefused, locals
<1>3. CASE SaveTest(c)
  BY <1>1, <1>3, DoneKeepsAudit DEF SaveTest, locals
<1>4. CASE PublishStarted(c)
  BY <1>1, <1>4, DoneKeepsAudit DEF PublishStarted, locals
<1>5. CASE SaveResult(c)
  BY <1>1, <1>5, DoneKeepsAudit DEF SaveResult, locals
<1>6. CASE AnnounceFailed(c)
  BY <1>1, <1>6, DoneKeepsAudit DEF AnnounceFailed, locals
<1>7. CASE PublishResults(c)
  <2>1. PICK types :
          /\ Record(c, types) /\ Goto(c, "ok") /\ UNCHANGED req
          /\ "operation_succeeded" \in types /\ "operation_failed" \notin types
    BY <1>7, Zenon DEF PublishResults, locals
  <2> QED
    BY <1>1, <2>1, DoneKeepsAudit
<1>8. CASE PublishEvidence(c)
  BY <1>1, <1>8, DoneKeepsAudit DEF PublishEvidence, locals
<1>9. CASE PublishReport(c)
  BY <1>1, <1>9, DoneKeepsAudit DEF PublishReport, locals
<1>10. CASE AnnounceCompleted(c)
  <2>1. pc' = [pc EXCEPT ![c] = "compute"] /\ Recorded(c, {"run_completed"})
    BY <1>10, RecordAddsToTrail DEF AnnounceCompleted, Goto
  <2> QED
    BY <1>1, <1>10, <2>1, MoveKeepsAudit DEF AnnounceCompleted, locals
<1>11. CASE ReadScoresToAnswer(c)
  <2>1. ~Audited(c)
    BY <1>11 DEF ReadScoresToAnswer, Audited
  <2>2. /\ \A d \in Calls \ {c} : pc'[d] = pc[d]
        /\ pc'[c] = "ok"
        /\ UNCHANGED <<req, soc>>
    BY <1>11 DEF ReadScoresToAnswer, Goto, TypeInv, TypeOK
  <2> QED
    BY <2>1, <2>2 DEF AuditInv, Audit, Audited, TrailOf
<1>12. CASE \/ SaveNewRun(c) \/ ReadResultsToEnd(c) \/ SaveRun(c)
            \/ SaveScore(c) \/ SaveEvidence(c) \/ ReadResultsToReport(c)
            \/ ReadScoresToReport(c) \/ SaveReport(c)
  BY <1>1, <1>12, GotoKeepsAudit DEF SaveNewRun, ReadResultsToEnd, SaveRun,
     SaveScore, SaveEvidence, ReadResultsToReport, ReadScoresToReport,
     SaveReport, locals
<1>13. CASE LoadRun(c)
  <2>1. AfterLoad(req[c].op) \in InFlight
    BY DEF AfterLoad
  <2> QED
    BY <1>1, <1>13, <2>1, GotoKeepsAudit DEF LoadRun
<1>14. CASE ComputeScores(c)
  <2>1. NextScoreStep(Dimensions(catalog, seen[c])) \in InFlight
    BY DEF NextScoreStep
  <2> QED
    BY <1>1, <1>14, <2>1, GotoKeepsAudit DEF ComputeScores
<1>15. CASE PublishScore(c)
  <2>1. PICK label \in InFlight : Goto(c, label) /\ UNCHANGED <<req, soc>>
    BY <1>15 DEF PublishScore, NextScoreStep
  <2> QED
    BY <1>1, <2>1, GotoKeepsAudit
<1> QED
  BY <1>2, <1>3, <1>4, <1>5, <1>6, <1>7, <1>8, <1>9, <1>10, <1>11, <1>12,
     <1>13, <1>14, <1>15 DEF Step

(* A call starts its trail when it is accepted, on its own replica.        *)
LEMMA AcceptKeepsAudit ==
  ASSUME TypeInv, AuditInv, NEW c \in Calls, NEW request,
         WellFormed(request), Accept(c, request)
  PROVE  AuditInv'
<1> DEFINE new == IF request.op = "get_scorecard" THEN {}
                  ELSE {[type |-> "operation_started", by |-> c,
                         status |-> Absent]}
<1>1. /\ pc \in [Calls -> {"idle"} \cup InFlight \cup Answers]
      /\ req \in [Calls -> Requests]
      /\ soc \in [Replicas -> SUBSET SocEvents]
      /\ \A d \in Calls : req[d].at \in Replicas
      /\ request.at \in Replicas
  BY DEF TypeInv, TypeOK, Requests, WellFormed
<1>2. /\ pc[c] = "idle"
      /\ pc' = [pc EXCEPT ![c] = FirstStep(request.op)]
      /\ req' = [req EXCEPT ![c] = request]
      /\ soc' = [soc EXCEPT ![request.at] = @ \cup new]
      /\ FirstStep(request.op) \in InFlight
  BY DEF Accept, Goto, FirstStep
<1>3. \A e \in new : e.by = c /\ e.type = "operation_started"
  OBVIOUS
<1>4. \A d \in Calls \ {c}, rep \in Replicas :
        TrailOf(d, rep)' = TrailOf(d, rep)
  BY <1>1, <1>2, <1>3 DEF TrailOf
<1>5. TrailOf(c, request.at) = {}
  BY <1>1, <1>2 DEF AuditInv, Audit
<1>6. request.op # "get_scorecard" =>
        TrailOf(c, request.at)' = {"operation_started"}
  <2>1. SUFFICES ASSUME request.op # "get_scorecard"
                 PROVE  TrailOf(c, request.at)' = {"operation_started"}
    OBVIOUS
  <2>2. soc'[request.at] = soc[request.at] \cup
          {[type |-> "operation_started", by |-> c, status |-> Absent]}
    BY <1>1, <1>2, <2>1
  <2>3. \A f \in soc[request.at] : f.by # c
    BY <1>5 DEF TrailOf
  <2>4. \A f \in soc'[request.at] : f.by = c => f.type = "operation_started"
    BY <2>2, <2>3
  <2>5. PICK start \in soc'[request.at] :
          start = [type |-> "operation_started", by |-> c, status |-> Absent]
    BY <2>2
  <2> QED
    BY <2>4, <2>5 DEF TrailOf
<1> SUFFICES ASSUME NEW d \in Calls PROVE Audit(d)'
  BY DEF AuditInv
<1>7. CASE d = c
  <2>1. pc'[c] = FirstStep(request.op) /\ req'[c] = request
    BY <1>1, <1>2
  <2> QED
    BY <1>2, <1>6, <1>7, <2>1 DEF Audit, Audited, TrailOf
<1>8. CASE d # c
  <2>1. pc'[d] = pc[d] /\ req'[d] = req[d]
    BY <1>1, <1>2, <1>8
  <2>2. \A rep \in Replicas : TrailOf(d, rep)' = TrailOf(d, rep)
    BY <1>4, <1>8
  <2>3. Audited(d)' <=> Audited(d)
    BY <2>1 DEF Audited
  <2>4. Audit(d)
    BY DEF AuditInv
  <2> QED
    BY <1>1, <2>1, <2>2, <2>3, <2>4 DEF Audit, TrailOf
<1> QED
  BY <1>7, <1>8

LEMMA NextKeepsAudit ==
  ASSUME TypeInv, AuditInv, "crash" \notin Faults, [Next]_vars
  PROVE  AuditInv'
<1>1. ASSUME NEW c \in Calls, Step(c) PROVE AuditInv'
  BY <1>1, StepKeepsAudit
<1>2. ASSUME NEW c \in Calls, Request(c) PROVE AuditInv'
  BY <1>2, RequestIsWellFormed, AcceptKeepsAudit
<1>3. ASSUME NEW c \in Calls, Abort(c) PROVE AuditInv'
  BY <1>3, FailKeepsAudit DEF Abort, locals
<1>4. CASE Quiet \/ UNCHANGED vars
  BY <1>4 DEF Quiet, vars, AuditInv, Audit, Audited, TrailOf
<1> QED
  BY <1>1, <1>2, <1>3, <1>4 DEF Next, Crash

(* Every audited operation leaves its start in the trail, and exactly the  *)
(* outcome it has (soc.py, audit_operation), as long as no process dies.   *)
THEOREM EveryOutcomeAudited == Spec => []AuditTrail
<1>1. CASE "crash" \notin Faults
  <2>1. Init => AuditInv
    BY DEF Init, AuditInv, Audit, TrailOf
  <2>2. TypeInv /\ AuditInv /\ [Next]_vars => AuditInv'
    BY <1>1, NextKeepsAudit
  <2>3. AuditInv => AuditTrail
    BY DEF AuditInv, Audit, AuditTrail, TrailOf
  <2> QED
    BY <2>1, <2>2, <2>3, TypeInvariant, PTL DEF Spec
<1>2. CASE "crash" \in Faults
  <2>1. AuditTrail
    BY <1>2 DEF AuditTrail
  <2> QED
    BY <2>1, PTL
<1> QED
  BY <1>1, <1>2
=============================================================================
