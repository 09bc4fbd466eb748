-------------------------- MODULE BenchReadsProofs --------------------------
(***************************************************************************)
(* What a call has read stays true of the store, though nothing is locked: *)
(* the counts it announces, the scores it saves and the report it makes    *)
(* are backed by the store for good.  For any number of calls, runs,       *)
(* tests, categories and replicas, whatever fails.                         *)
(***************************************************************************)
EXTENDS BenchSafetyProofs

(* The labels and statuses are plain sets of strings.                      *)
USE DEF Absent, Status, Ended, RunRows, StoreSteps, PublishSteps, InFlight, Answers

-----------------------------------------------------------------------------
(* What a step of a call leaves as it was.                                 *)

LEMMA StepIsLocal ==
  ASSUME TypeInv, NEW c \in Calls, Step(c)
  PROVE  /\ req' = req
         /\ pc[c] \in InFlight
         /\ \A d \in Calls \ {c} : /\ pc'[d] = pc[d]
                                   /\ loaded'[d] = loaded[d]
                                   /\ seen'[d] = seen[d]
                                   /\ todo'[d] = todo[d]
BY ZenonT(60) DEF Step, SaveTest, SaveNewRun, PublishStarted, LoadMissing, LoadRefused,
   LoadRun, SaveResult, ReadResultsToEnd, ReadResultsRefused, SaveRun,
   AnnounceCompleted, AnnounceFailed, ComputeScores, SaveScore, PublishScore,
   PublishResults, SaveEvidence, PublishEvidence, ReadResultsToReport,
   ReadScoresToReport, ReadScoresToAnswer, SaveReport, PublishReport, Goto,
   Fail, locals, TypeInv, TypeOK

(* The rows a call has seen change only where it reads them.               *)
LEMMA StepReadsRows ==
  ASSUME TypeInv, NEW c \in Calls, Step(c)
  PROVE  /\ pc[c] = "read_results" => seen'[c] = RowsOf(req[c].run)
         /\ pc[c] # "read_results" => seen'[c] = seen[c]
BY DEF Step, SaveTest, SaveNewRun, PublishStarted, LoadMissing, LoadRefused,
   LoadRun, SaveResult, ReadResultsToEnd, ReadResultsRefused, SaveRun,
   AnnounceCompleted, AnnounceFailed, ComputeScores, SaveScore, PublishScore,
   PublishResults, SaveEvidence, PublishEvidence, ReadResultsToReport,
   ReadScoresToReport, ReadScoresToAnswer, SaveReport, PublishReport, locals,
   TypeInv, TypeOK

(* A registered test keeps its category.                                   *)
CatalogKept == \A t \in Tests : catalog[t] # Absent => catalog'[t] = catalog[t]

LEMMA StepKeepsCatalog ==
  ASSUME TypeInv, NEW c \in Calls, Step(c)
  PROVE  CatalogKept
<1>1. CASE SaveTest(c)
  <2>1. /\ catalog' = [catalog EXCEPT ![req[c].test] = req[c].category]
        /\ catalog[req[c].test] = Absent
    BY <1>1 DEF SaveTest, TypeInv, Fresh
  <2> QED
    BY <2>1 DEF CatalogKept, TypeInv, TypeOK
<1>2. CASE ~SaveTest(c)
  <2>1. catalog' = catalog
    BY <1>2 DEF Step, SaveNewRun, PublishStarted, LoadMissing, LoadRefused,
       LoadRun, SaveResult, ReadResultsToEnd, ReadResultsRefused, SaveRun,
       AnnounceCompleted, AnnounceFailed, ComputeScores, SaveScore,
       PublishScore, PublishResults, SaveEvidence, PublishEvidence,
       ReadResultsToReport, ReadScoresToReport, ReadScoresToAnswer,
       SaveReport, PublishReport, store
  <2> QED
    BY <2>1 DEF CatalogKept
<1> QED
  BY <1>1, <1>2

-----------------------------------------------------------------------------
(* The rows a call has seen are rows of its run, and their tests are in    *)
(* the catalog or in none, so their categories are fixed.                  *)

Snapshot ==
  \A c \in Calls : /\ pc[c] = "idle" => seen[c] = {}
                   /\ seen[c] \subseteq RowsOf(req[c].run)

Catalogued ==
  /\ \A row \in results : row.test \in Tests => catalog[row.test] # Absent
  /\ \A c \in Calls : req[c].op = "submit_result" /\ req[c].test \in Tests
                        => catalog[req[c].test] # Absent

(* The dimensions left in the loop are dimensions of the rows.             *)
ToScore ==
  \A c \in Calls : pc[c] \in {"save_score", "publish_score"} =>
                     todo[c] \subseteq Dimensions(catalog, seen[c])

ReadsInv == Snapshot /\ Catalogued /\ ToScore

LEMMA CategoriesFixed ==
  ASSUME TypeInv, TypeInv', Catalogued, CatalogKept
  PROVE  \A row \in results :
           CategoryOf(catalog, row.test) = CategoryOf(catalog', row.test)
BY DEF TypeInv, TypeOK, Catalogued, CatalogKept, CategoryOf

LEMMA StepKeepsSnapshot ==
  ASSUME TypeInv, Snapshot, NEW c \in Calls, Step(c)
  PROVE  Snapshot'
<1>1. \A r : RowsOf(r) \subseteq RowsOf(r)'
  BY StepKeepsStore DEF RowsKept, RowsOf
<1>2. ASSUME NEW d \in Calls \ {c}
      PROVE  /\ pc'[d] = "idle" => seen'[d] = {}
             /\ seen'[d] \subseteq RowsOf(req[d].run)'
  BY <1>1, StepIsLocal DEF Snapshot
<1>3. seen'[c] \subseteq RowsOf(req[c].run)
  BY StepReadsRows DEF Snapshot
<1>4. pc'[c] # "idle"
  BY DEF Step, SaveTest, SaveNewRun, PublishStarted, LoadMissing, LoadRefused,
     LoadRun, SaveResult, ReadResultsToEnd, ReadResultsRefused, SaveRun,
     AnnounceCompleted, AnnounceFailed, ComputeScores, SaveScore,
     PublishScore, PublishResults, SaveEvidence, PublishEvidence,
     ReadResultsToReport, ReadScoresToReport, ReadScoresToAnswer, SaveReport,
     PublishReport, Goto, Fail, AfterLoad, NextScoreStep, TypeInv, TypeOK
<1> QED
  BY <1>1, <1>2, <1>3, <1>4, StepIsLocal DEF Snapshot

LEMMA StepKeepsCatalogued ==
  ASSUME TypeInv, Catalogued, NEW c \in Calls, Step(c)
  PROVE  Catalogued'
<1>1. CatalogKept /\ req' = req
  BY StepKeepsCatalog, StepIsLocal
<1>2. CASE SaveResult(c)
  <2>1. req[c].op = "submit_result"
    BY <1>2 DEF SaveResult, TypeInv, OnPath, PathOf, Operations
  <2>2. \A row \in results' \ results : row.test = req[c].test
    BY <1>2 DEF SaveResult
  <2> QED
    BY <1>1, <2>1, <2>2 DEF Catalogued, CatalogKept
<1>3. CASE ~SaveResult(c)
  <2>1. results' = results
    BY <1>3 DEF Step, SaveTest, SaveNewRun, PublishStarted, LoadMissing,
       LoadRefused, LoadRun, ReadResultsToEnd, ReadResultsRefused, SaveRun,
       AnnounceCompleted, AnnounceFailed, ComputeScores, SaveScore,
       PublishScore, PublishResults, SaveEvidence, PublishEvidence,
       ReadResultsToReport, ReadScoresToReport, ReadScoresToAnswer,
       SaveReport, PublishReport, store
  <2> QED
    BY <1>1, <2>1 DEF Catalogued, CatalogKept
<1> QED
  BY <1>2, <1>3

LEMMA StepKeepsToScore ==
  ASSUME TypeInv, TypeInv', ReadsInv, NEW c \in Calls, Step(c)
  PROVE  ToScore'
<1>1. CatalogKept
  BY StepKeepsCatalog
<1>2. \A d \in Calls : Dimensions(catalog, seen[d]) = Dimensions(catalog', seen[d])
  <2>1. \A d \in Calls : seen[d] \subseteq results
    BY DEF ReadsInv, Snapshot, RowsOf
  <2>2. \A row \in results :
          CategoryOf(catalog, row.test) = CategoryOf(catalog', row.test)
    BY <1>1, CategoriesFixed DEF ReadsInv
  <2> QED
    BY <2>1, <2>2 DEF Dimensions
<1>3. ASSUME NEW d \in Calls \ {c},
             pc'[d] \in {"save_score", "publish_score"}
      PROVE  todo'[d] \subseteq Dimensions(catalog', seen'[d])
  BY <1>2, <1>3, StepIsLocal DEF ReadsInv, ToScore
<1>4. ASSUME pc'[c] \in {"save_score", "publish_score"}
      PROVE  todo'[c] \subseteq Dimensions(catalog', seen'[c])
  <2>1. ComputeScores(c) \/ SaveScore(c) \/ PublishScore(c)
    BY <1>4 DEF Step, SaveTest, SaveNewRun, PublishStarted, LoadMissing,
       LoadRefused, LoadRun, SaveResult, ReadResultsToEnd,
       ReadResultsRefused, SaveRun, AnnounceCompleted, AnnounceFailed,
       PublishResults, SaveEvidence, PublishEvidence, ReadResultsToReport,
       ReadScoresToReport, ReadScoresToAnswer, SaveReport, PublishReport,
       Goto, Fail, AfterLoad, TypeInv, TypeOK
  <2>2. seen' = seen /\ catalog' = catalog
    BY <2>1 DEF ComputeScores, SaveScore, PublishScore, store, locals
  <2>3. CASE ComputeScores(c)
    BY <2>2, <2>3 DEF ComputeScores, TypeInv, TypeOK
  <2>4. CASE SaveScore(c)
    BY <2>2, <2>4 DEF SaveScore, locals, ReadsInv, ToScore
  <2>5. CASE PublishScore(c)
    <3>1. todo'[c] \subseteq todo[c] /\ pc[c] = "publish_score"
      BY <2>5 DEF PublishScore, TypeInv, TypeOK
    <3> QED
      BY <2>2, <3>1 DEF ReadsInv, ToScore
  <2> QED
    BY <2>1, <2>3, <2>4, <2>5
<1> QED
  BY <1>3, <1>4 DEF ToScore

LEMMA AcceptKeepsReads ==
  ASSUME TypeInv, ReadsInv, NEW c \in Calls, NEW request,
         WellFormed(request), Accept(c, request)
  PROVE  ReadsInv'
<1>1. /\ pc[c] = "idle"
      /\ pc'[c] \in {"save_test", "save_new_run", "save_evidence", "load"}
      /\ req'[c] = request
      /\ \A d \in Calls \ {c} : pc'[d] = pc[d] /\ req'[d] = req[d]
      /\ UNCHANGED <<catalog, results, seen, todo>>
  BY DEF Accept, Goto, FirstStep, store, TypeInv, TypeOK
<1>2. Snapshot'
  BY <1>1 DEF ReadsInv, Snapshot, RowsOf
<1>3. Catalogued'
  <2>1. request.op = "submit_result" /\ request.test \in Tests
          => catalog[request.test] # Absent
    BY ConstantsAssumption DEF WellFormed
  <2> QED
    BY <1>1, <2>1 DEF ReadsInv, Catalogued
<1>4. ToScore'
  BY <1>1 DEF ReadsInv, ToScore
<1> QED
  BY <1>2, <1>3, <1>4 DEF ReadsInv

(* A fault ends calls and leaves the rest as it is.                        *)
LEMMA FaultIsLocal ==
  ASSUME TypeInv,
         \/ \E c \in Calls : Abort(c)
         \/ \E rep \in Replicas : Crash(rep)
  PROVE  /\ UNCHANGED <<store, published, req, loaded, seen, todo>>
         /\ \A d \in Calls : \/ pc'[d] = pc[d]
                             \/ pc[d] \in InFlight /\ pc'[d] = "aborted"
BY DEF Abort, Crash, Fail, locals, TypeInv, TypeOK

LEMMA NextKeepsReads ==
  ASSUME TypeInv, TypeInv', ReadsInv, [Next]_vars
  PROVE  ReadsInv'
<1>1. ASSUME NEW c \in Calls, Step(c) PROVE ReadsInv'
  BY <1>1, StepKeepsSnapshot, StepKeepsCatalogued, StepKeepsToScore
     DEF ReadsInv
<1>2. ASSUME NEW c \in Calls, Request(c) PROVE ReadsInv'
  BY <1>2, RequestIsWellFormed, AcceptKeepsReads
<1>3. CASE (\E c \in Calls : Abort(c)) \/ \E rep \in Replicas : Crash(rep)
  BY <1>3, FaultIsLocal
     DEF store, ReadsInv, Snapshot, Catalogued, ToScore, RowsOf
<1>4. CASE Quiet \/ UNCHANGED vars
  BY <1>4 DEF Quiet, vars, ReadsInv, Snapshot, Catalogued, ToScore, RowsOf
<1> QED
  BY <1>1, <1>2, <1>3, <1>4 DEF Next

LEMMA ReadsInvariant == Spec => [](TypeInv /\ ReadsInv)
<1>1. Init => ReadsInv
  BY ConstantsAssumption
     DEF Init, NoRequest, ReadsInv, Snapshot, Catalogued, ToScore
<1>2. TypeInv /\ TypeInv' /\ ReadsInv /\ [Next]_vars => ReadsInv'
  BY NextKeepsReads
<1> QED
  BY <1>1, <1>2, TypeInvariant, PTL DEF Spec

-----------------------------------------------------------------------------
(* The counts of run_completed.                                            *)

LEMMA RowsGrow ==
  ASSUME TypeInv, TypeInv', RowsKept, NEW r
  PROVE  /\ IsFiniteSet(RowsOf(r)')
         /\ RowsOf(r) \subseteq RowsOf(r)'
<1>1. IsFiniteSet(results') /\ RowsOf(r)' \subseteq results'
  BY DEF TypeInv, Finite, RowsOf
<1>2. IsFiniteSet(RowsOf(r)')
  BY <1>1, FS_Subset
<1> QED
  BY <1>2 DEF RowsKept, RowsOf

LEMMA CountsOfRows ==
  ASSUME NEW rows, IsFiniteSet(rows)
  PROVE  Cardinality(PassedIn(rows)) \in Nat /\ Cardinality(FailedIn(rows)) \in Nat
BY PassedAndFailed

(* The counts of an event are no more than those of the rows.              *)
Counted(e, rows) ==
  /\ e.passed_count <= Cardinality(PassedIn(rows))
  /\ e.failed_count <= Cardinality(FailedIn(rows))

LEMMA CountedStays ==
  ASSUME NEW e, e.passed_count \in Nat, e.failed_count \in Nat,
         NEW rows, NEW more, IsFiniteSet(more), rows \subseteq more,
         Counted(e, rows)
  PROVE  Counted(e, more)
<1>1. /\ IsFiniteSet(rows)
      /\ Cardinality(PassedIn(rows)) <= Cardinality(PassedIn(more))
      /\ Cardinality(FailedIn(rows)) <= Cardinality(FailedIn(more))
  BY CountsGrow
<1>2. /\ Cardinality(PassedIn(rows)) \in Nat
      /\ Cardinality(FailedIn(rows)) \in Nat
      /\ Cardinality(PassedIn(more)) \in Nat
      /\ Cardinality(FailedIn(more)) \in Nat
  BY <1>1, CountsOfRows
<1> QED
  BY <1>1, <1>2 DEF Counted

LEMMA EndEventCounted ==
  ASSUME TypeInv, Snapshot, NEW c \in Calls
  PROVE  Counted(EndEvent(c), RowsOf(req[c].run))
<1> DEFINE counted == IF req[c].op = "complete_run" THEN seen[c] ELSE {}
<1>1. counted \subseteq RowsOf(req[c].run)
  BY DEF Snapshot
<1>2. IsFiniteSet(RowsOf(req[c].run))
  <2>1. IsFiniteSet(results) /\ RowsOf(req[c].run) \subseteq results
    BY DEF TypeInv, Finite, RowsOf
  <2> QED
    BY <2>1, FS_Subset
<1>3. /\ EndEvent(c).passed_count = Cardinality(PassedIn(counted))
      /\ EndEvent(c).failed_count = Cardinality(FailedIn(counted))
  BY DEF EndEvent
<1> HIDE DEF counted
<1>4. /\ Cardinality(PassedIn(counted)) <= Cardinality(PassedIn(RowsOf(req[c].run)))
      /\ Cardinality(FailedIn(counted)) <= Cardinality(FailedIn(RowsOf(req[c].run)))
  BY <1>1, <1>2, CountsGrow
<1> QED
  BY <1>3, <1>4 DEF Counted

(* The ends and the verdicts a step publishes.                             *)
LEMMA StepPublishes ==
  ASSUME NEW c \in Calls, Step(c)
  PROVE  /\ published \subseteq published'
         /\ \A e \in published' \ published :
              /\ e.topic = "run_completed" =>
                   AnnounceCompleted(c) \/ AnnounceFailed(c)
              /\ e.topic = "bench_results" => PublishResults(c)
<1>1. CASE AnnounceCompleted(c) \/ AnnounceFailed(c)
  <2>1. EndEvent(c).topic = "run_completed"
    BY DEF EndEvent
  <2> QED
    BY <1>1, <2>1 DEF AnnounceCompleted, AnnounceFailed
<1>2. CASE PublishStarted(c)
  BY <1>2 DEF PublishStarted
<1>3. CASE PublishScore(c)
  <2>1. PICK s \in scores :
          published' = published \cup
            {[topic |-> "score_published", by |-> c, run |-> s.run,
              dim |-> s.dim, value |-> s.value]}
    BY <1>3 DEF PublishScore
  <2> QED
    BY <2>1
<1>4. CASE PublishResults(c)
  <2>1. ResultsEvent(c).topic = "bench_results"
    BY DEF ResultsEvent
  <2> QED
    BY <1>4, <2>1 DEF PublishResults
<1>5. CASE PublishEvidence(c)
  BY <1>5 DEF PublishEvidence
<1>6. CASE PublishReport(c)
  BY <1>6 DEF PublishReport
<1>7. CASE \/ SaveTest(c) \/ SaveNewRun(c) \/ LoadMissing(c)
           \/ LoadRefused(c) \/ LoadRun(c) \/ SaveResult(c)
           \/ ReadResultsToEnd(c) \/ ReadResultsRefused(c) \/ SaveRun(c)
           \/ ComputeScores(c) \/ SaveScore(c) \/ SaveEvidence(c)
           \/ ReadResultsToReport(c) \/ ReadScoresToReport(c)
           \/ ReadScoresToAnswer(c) \/ SaveReport(c)
  BY <1>7 DEF SaveTest, SaveNewRun, LoadMissing, LoadRefused, LoadRun,
     SaveResult, ReadResultsToEnd, ReadResultsRefused, SaveRun,
     ComputeScores, SaveScore, SaveEvidence, ReadResultsToReport,
     ReadScoresToReport, ReadScoresToAnswer, SaveReport
<1> QED
  BY <1>1, <1>2, <1>3, <1>4, <1>5, <1>6, <1>7 DEF Step

(* The one kind of event this is about, when a step publishes any.         *)
LEMMA NewEndEvents ==
  ASSUME NEW c \in Calls, Step(c),
         NEW e \in published' \ published, e.topic = "run_completed"
  PROVE  e = EndEvent(c)
BY StepPublishes DEF AnnounceCompleted, AnnounceFailed

LEMMA NextKeepsCounts ==
  ASSUME TypeInv, TypeInv', ReadsInv, CountsAreStored, [Next]_vars
  PROVE  CountsAreStored'
<1>1. RowsKept
  BY NextKeepsStore
<1>2. ASSUME NEW e \in published, e.topic = "run_completed"
      PROVE  Counted(e, RowsOf(e.run)')
  <2>1. e.passed_count \in Nat /\ e.failed_count \in Nat
    BY <1>2 DEF TypeInv, TypeOK, Events, IsResultsEvent
  <2>2. Counted(e, RowsOf(e.run))
    BY <1>2 DEF CountsAreStored, Counted
  <2> QED
    BY <1>1, <2>1, <2>2, RowsGrow, CountedStays
<1>3. ASSUME NEW c \in Calls, Step(c),
             NEW e \in published' \ published, e.topic = "run_completed"
      PROVE  Counted(e, RowsOf(e.run)')
  <2>1. e = EndEvent(c) /\ e.run = req[c].run
    BY <1>3, NewEndEvents DEF EndEvent
  <2>2. Counted(e, RowsOf(e.run))
    BY <2>1, EndEventCounted DEF ReadsInv
  <2>3. e.passed_count \in Nat /\ e.failed_count \in Nat
    BY <1>3 DEF TypeInv, TypeOK, Events, IsResultsEvent
  <2> QED
    BY <1>1, <2>2, <2>3, RowsGrow, CountedStays
<1>4. (\A c \in Calls : ~Step(c)) => published' = published
  BY RequestIsWellFormed, FaultIsLocal DEF Next, Accept, Quiet, vars
<1>5. \A e \in published' :
        e.topic = "run_completed" => Counted(e, RowsOf(e.run)')
  BY <1>2, <1>3, <1>4
<1> QED
  BY <1>5 DEF CountsAreStored, Counted

(* No run_completed event ever claims a result the store does not hold     *)
(* (bench_service.py, complete_run).                                       *)
THEOREM CountsBacked == Spec => []CountsAreStored
<1>1. Init => CountsAreStored
  BY DEF Init, CountsAreStored
<1>2. /\ TypeInv /\ ReadsInv /\ (TypeInv /\ ReadsInv)'
      /\ CountsAreStored /\ [Next]_vars
      => CountsAreStored'
  BY NextKeepsCounts
<1> QED
  BY <1>1, <1>2, ReadsInvariant, PTL DEF Spec

-----------------------------------------------------------------------------
(* The score rows.                                                         *)

(* A score rests on rows of its dimension, at least one of them.           *)
RestsOn(s, rows) ==
  /\ 0 < s.value.total
  /\ s.value.passed <= Cardinality(PassedIn(rows))
  /\ s.value.total - s.value.passed <= Cardinality(FailedIn(rows))

LEMMA RestsOnMore ==
  ASSUME NEW s, s.value \in Counts, NEW rows, NEW more, IsFiniteSet(more),
         rows \subseteq more, RestsOn(s, rows)
  PROVE  RestsOn(s, more)
<1>1. /\ IsFiniteSet(rows)
      /\ Cardinality(PassedIn(rows)) <= Cardinality(PassedIn(more))
      /\ Cardinality(FailedIn(rows)) <= Cardinality(FailedIn(more))
  BY CountsGrow
<1>2. /\ Cardinality(PassedIn(rows)) \in Nat
      /\ Cardinality(FailedIn(rows)) \in Nat
      /\ Cardinality(PassedIn(more)) \in Nat
      /\ Cardinality(FailedIn(more)) \in Nat
  BY <1>1, CountsOfRows
<1>3. s.value.total \in Nat /\ s.value.passed \in Nat
  BY DEF Counts
<1> QED
  BY <1>1, <1>2, <1>3 DEF RestsOn

(* The value of some rows rests on them.                                   *)
LEMMA ValueRestsOnRows ==
  ASSUME NEW s, NEW rows, IsFiniteSet(rows), rows # {}, s.value = ValueOf(rows)
  PROVE  RestsOn(s, rows)
<1>1. /\ s.value.passed = Cardinality(PassedIn(rows))
      /\ s.value.total = Cardinality(rows)
  BY DEF ValueOf
<1>2. /\ Cardinality(PassedIn(rows)) \in Nat
      /\ Cardinality(FailedIn(rows)) \in Nat
      /\ Cardinality(rows)
           = Cardinality(PassedIn(rows)) + Cardinality(FailedIn(rows))
  BY PassedAndFailed
<1>3. ValueOf(rows).total > 0
  BY ValueBounds
<1> QED
  BY <1>1, <1>2, <1>3 DEF RestsOn

(* The rows of a dimension stay in it and more may join.                   *)
LEMMA UnderGrows ==
  ASSUME TypeInv, TypeInv', Catalogued, CatalogKept, RowsKept, NEW r, NEW d
  PROVE  /\ IsFiniteSet(Under(catalog, RowsOf(r), d)')
         /\ Under(catalog, RowsOf(r), d) \subseteq Under(catalog, RowsOf(r), d)'
<1>1. IsFiniteSet(RowsOf(r)') /\ RowsOf(r) \subseteq RowsOf(r)'
  BY RowsGrow
<1>2. Under(catalog, RowsOf(r), d)' \subseteq RowsOf(r)'
  BY DEF Under
<1>3. IsFiniteSet(Under(catalog, RowsOf(r), d)')
  BY <1>1, <1>2, FS_Subset
<1>4. \A row \in RowsOf(r) :
        CategoryOf(catalog, row.test) = CategoryOf(catalog', row.test)
  BY CategoriesFixed DEF RowsOf
<1> QED
  BY <1>1, <1>3, <1>4 DEF Under

(* A score saved now belongs to a run that ended and rests on the store.   *)
LEMMA NewScoreRests ==
  ASSUME TypeInv, ReadsInv, NEW c \in Calls, pc[c] = "save_score",
         NEW d \in todo[c]
  PROVE  /\ runs[req[c].run] \in Ended
         /\ ScoreOf(c, d).value \in Counts
         /\ RestsOn(ScoreOf(c, d), Under(catalog, RowsOf(req[c].run), d))
<1> DEFINE rows == Under(catalog, seen[c], d)
           more == Under(catalog, RowsOf(req[c].run), d)
<1>1. runs[req[c].run] \in Ended
  BY DEF TypeInv, Arguments, Saved
<1>2. rows \subseteq more
  BY DEF ReadsInv, Snapshot, Under
<1>3. IsFiniteSet(more) /\ IsFiniteSet(rows)
  <2>1. IsFiniteSet(results) /\ more \subseteq results
    BY DEF TypeInv, Finite, Under, RowsOf
  <2>2. IsFiniteSet(more)
    BY <2>1, FS_Subset
  <2> QED
    BY <1>2, <2>2, FS_Subset
<1>4. rows # {}
  <2>1. d \in Dimensions(catalog, seen[c])
    BY DEF ReadsInv, ToScore
  <2> QED
    BY <2>1 DEF Dimensions, Under
<1>5. ScoreOf(c, d).value = ValueOf(rows)
  BY DEF ScoreOf
<1> HIDE DEF rows, more
<1>6. ScoreOf(c, d).value \in Counts
  BY <1>3, <1>5, ValueBounds DEF Counts
<1>7. RestsOn(ScoreOf(c, d), rows)
  BY <1>3, <1>4, <1>5, ValueRestsOnRows
<1>8. RestsOn(ScoreOf(c, d), more)
  BY <1>2, <1>3, <1>6, <1>7, RestsOnMore
<1> QED
  BY <1>1, <1>6, <1>8 DEF more

LEMMA NextKeepsScores ==
  ASSUME TypeInv, TypeInv', ReadsInv, ReadsInv', ScoresAreStored, [Next]_vars
  PROVE  ScoresAreStored'
<1>1. StatusesKept /\ RowsKept
  BY NextKeepsStore
<1>2. CatalogKept
  <2>1. ASSUME NEW c \in Calls, Step(c) PROVE CatalogKept
    BY <2>1, StepKeepsCatalog
  <2>2. (\A c \in Calls : ~Step(c)) => catalog' = catalog
    BY RequestIsWellFormed, FaultIsLocal
       DEF Next, Accept, Quiet, vars, store
  <2> QED
    BY <2>1, <2>2 DEF CatalogKept
<1>3. ASSUME NEW s \in scores
      PROVE  /\ runs'[s.run] \in Ended
             /\ RestsOn(s, Under(catalog, RowsOf(s.run), s.dim)')
  <2>1. s.run \in Runs /\ s.value \in Counts
    BY DEF TypeInv, TypeOK, ScoreRow
  <2>2. /\ runs[s.run] \in Ended
        /\ RestsOn(s, Under(catalog, RowsOf(s.run), s.dim))
    BY DEF ScoresAreStored, RestsOn
  <2>3. runs'[s.run] \in Ended
    BY <1>1, <2>1, <2>2 DEF StatusesKept
  <2> QED
    BY <1>1, <1>2, <2>1, <2>2, <2>3, UnderGrows, RestsOnMore DEF ReadsInv
<1>4. ASSUME NEW s \in scores' \ scores
      PROVE  /\ runs'[s.run] \in Ended
             /\ RestsOn(s, Under(catalog, RowsOf(s.run), s.dim)')
  <2>1. PICK c \in Calls : Step(c) /\ scores' # scores
    BY <1>4, RequestIsWellFormed, FaultIsLocal
       DEF Next, Accept, Quiet, vars, store
  <2>2. SaveScore(c)
    BY <2>1 DEF Step, SaveTest, SaveNewRun, PublishStarted, LoadMissing,
       LoadRefused, LoadRun, SaveResult, ReadResultsToEnd,
       ReadResultsRefused, SaveRun, AnnounceCompleted, AnnounceFailed,
       ComputeScores, PublishScore, PublishResults, SaveEvidence,
       PublishEvidence, ReadResultsToReport, ReadScoresToReport,
       ReadScoresToAnswer, SaveReport, PublishReport, store
  <2>3. PICK d \in todo[c] :
          /\ pc[c] = "save_score"
          /\ scores' = scores \cup {ScoreOf(c, d)}
          /\ UNCHANGED <<catalog, runs, results>>
    BY <2>2 DEF SaveScore
  <2>4. s = ScoreOf(c, d) /\ s.run = req[c].run /\ s.dim = d
    BY <1>4, <2>3 DEF ScoreOf
  <2>5. /\ runs[s.run] \in Ended
        /\ RestsOn(s, Under(catalog, RowsOf(s.run), s.dim))
    BY <2>3, <2>4, NewScoreRests
  <2> QED
    BY <2>3, <2>5 DEF RowsOf
<1> QED
  BY <1>3, <1>4 DEF ScoresAreStored, RestsOn

(* Every score row belongs to a run that ended, and rests on at least one  *)
(* stored result of its dimension and on no more than there are, whatever  *)
(* is submitted or registered meanwhile (bench_service.py, complete_run;   *)
(* scoring.py, compute_scores).                                            *)
THEOREM ScoresBacked == Spec => []ScoresAreStored
<1>1. Init => ScoresAreStored
  BY DEF Init, ScoresAreStored
<1>2. /\ TypeInv /\ ReadsInv /\ (TypeInv /\ ReadsInv)'
      /\ ScoresAreStored /\ [Next]_vars
      => ScoresAreStored'
  BY NextKeepsScores
<1> QED
  BY <1>1, <1>2, ReadsInvariant, PTL DEF Spec

-----------------------------------------------------------------------------
(* Reports.                                                                *)

(* Nothing leaves the stream of published events.                          *)
LEMMA StreamGrows ==
  ASSUME TypeInv, [Next]_vars
  PROVE  published \subseteq published'
<1>1. ASSUME NEW c \in Calls, Step(c) PROVE published \subseteq published'
  BY <1>1, StepPublishes
<1>2. (\A c \in Calls : ~Step(c)) => published' = published
  BY RequestIsWellFormed, FaultIsLocal DEF Next, Accept, Quiet, vars
<1> QED
  BY <1>1, <1>2

(* A call that has saved run r as completed keeps what it has read; the    *)
(* failures of one such call are among rows.                               *)
CompletedBy(c, r) == HasCompleted(c, r) /\ pc[c] \in Saved \cup Answers

CompletedWith(r, rows) ==
  \E c \in Calls : CompletedBy(c, r) /\ FailedIn(seen[c]) \subseteq rows

(* A completed run has been completed by a call, a report call that found  *)
(* it completed has seen, or will see, what that call had seen, and so has *)
(* every report.                                                           *)
CompletionKnown ==
  \A r \in Runs : runs[r] = "completed" => CompletedWith(r, RowsOf(r))

ReportInFlight ==
  \A g \in Calls :
    req[g].op = "generate_report" /\ loaded[g] = "completed" =>
      /\ pc[g] = "read_results" => CompletedWith(req[g].run, RowsOf(req[g].run))
      /\ pc[g] \in {"read_scores", "save_report"} =>
           CompletedWith(req[g].run, seen[g])

ReportsCover ==
  \A rep \in reports : rep.status = "completed" =>
    \E c \in Calls : /\ CompletedBy(c, rep.run)
                     /\ {row.by : row \in FailedIn(seen[c])}
                          \subseteq {item.result : item \in rep.remediations}

NoCrash == "crash" \notin Faults
ReportInv == NoCrash => CompletionKnown /\ ReportInFlight /\ ReportsCover

(* A call past its reads stays so, and keeps what it has seen.             *)
LEMMA CompletionStays ==
  ASSUME TypeInv, [Next]_vars, NEW c \in Calls,
         pc[c] \in Saved \cup Answers
  PROVE  /\ req'[c] = req[c]
         /\ pc'[c] \in Saved \cup Answers
         /\ seen'[c] = seen[c]
<1>1. ASSUME NEW d \in Calls, Step(d)
      PROVE  /\ req'[c] = req[c]
             /\ pc'[c] \in Saved \cup Answers
             /\ seen'[c] = seen[c]
  <2>1. CASE d # c
    BY <1>1, <2>1, StepIsLocal
  <2>2. CASE d = c
    <3>1. pc[c] \in Saved
      BY <1>1, <2>2, StepIsLocal
    <3>2. seen'[c] = seen[c] /\ req' = req
      BY <1>1, <2>2, <3>1, StepIsLocal, StepReadsRows DEF Saved
    <3>3. pc'[c] \in Saved \cup Answers
      BY <1>1, <2>2, <3>1 DEF Saved, Step, SaveTest, SaveNewRun,
         PublishStarted, LoadMissing, LoadRefused, LoadRun, SaveResult,
         ReadResultsToEnd, ReadResultsRefused, SaveRun, AnnounceCompleted,
         AnnounceFailed, ComputeScores, SaveScore, PublishScore,
         PublishResults, SaveEvidence, PublishEvidence, ReadResultsToReport,
         ReadScoresToReport, ReadScoresToAnswer, SaveReport, PublishReport,
         Goto, NextScoreStep, TypeInv, TypeOK
    <3> QED
      BY <3>2, <3>3
  <2> QED
    BY <2>1, <2>2
<1>2. ASSUME NEW d \in Calls, Request(d)
      PROVE  req'[c] = req[c] /\ pc'[c] = pc[c] /\ seen'[c] = seen[c]
  <2>1. pc[c] # "idle"
    BY DEF Saved
  <2> QED
    BY <1>2, <2>1, RequestIsWellFormed DEF Accept, Goto, TypeInv, TypeOK
<1>3. CASE (\E d \in Calls : Abort(d)) \/ \E rep \in Replicas : Crash(rep)
  BY <1>3, FaultIsLocal
<1>4. CASE Quiet \/ UNCHANGED vars
  BY <1>4 DEF Quiet, vars
<1> QED
  BY <1>1, <1>2, <1>3, <1>4 DEF Next

(* What is saved is announced next, unless the replica dies.               *)
LEMMA CompletedByStays ==
  ASSUME NoCrash, TypeInv, [Next]_vars, NEW c \in Calls, NEW r, CompletedBy(c, r)
  PROVE  CompletedBy(c, r)' /\ seen'[c] = seen[c]
<1>1. /\ req'[c] = req[c]
      /\ pc'[c] \in Saved \cup Answers
      /\ seen'[c] = seen[c]
  BY CompletionStays DEF CompletedBy
<1>2. req[c].op = "complete_run" /\ req[c].run = r
  BY DEF CompletedBy, HasCompleted
<1>3. CASE \E e \in published : e.topic = "run_completed" /\ e.by = c
  <2>1. \E e \in published' : e.topic = "run_completed" /\ e.by = c
    BY <1>3, StreamGrows
  <2> QED
    BY <1>1, <1>2, <2>1 DEF CompletedBy, HasCompleted
<1>4. CASE pc[c] = "announce_end"
  <2>1. pc'[c] = "announce_end" \/ AnnounceCompleted(c)
    <3>1. ASSUME NEW d \in Calls, Step(d), d # c PROVE pc'[c] = pc[c]
      BY <3>1, StepIsLocal
    <3>2. Step(c) => AnnounceCompleted(c)
      BY <1>2, <1>4 DEF Step, SaveTest, SaveNewRun, PublishStarted, LoadMissing,
         LoadRefused, LoadRun, SaveResult, ReadResultsToEnd,
         ReadResultsRefused, SaveRun, AnnounceFailed, ComputeScores, SaveScore,
         PublishScore, PublishResults, SaveEvidence, PublishEvidence,
         ReadResultsToReport, ReadScoresToReport, ReadScoresToAnswer,
         SaveReport, PublishReport
    <3>3. ASSUME NEW d \in Calls, Request(d) PROVE pc'[c] = pc[c]
      BY <1>4, <3>3, RequestIsWellFormed DEF Accept, Goto, TypeInv, TypeOK
    <3>4. ASSUME NEW d \in Calls, Abort(d) PROVE pc'[c] = pc[c]
      <4>1. pc[d] \in StoreSteps /\ pc' = [pc EXCEPT ![d] = "aborted"]
        BY <3>4 DEF Abort, Fail, Goto
      <4>2. d # c
        BY <1>4, <4>1 DEF StoreSteps
      <4> QED
        BY <4>1, <4>2 DEF TypeInv, TypeOK
    <3>5. \A rep \in Replicas : ~Crash(rep)
      BY DEF NoCrash, Crash
    <3>6. Quiet \/ UNCHANGED vars => pc'[c] = pc[c]
      BY DEF Quiet, vars
    <3> QED
      BY <1>4, <3>1, <3>2, <3>3, <3>4, <3>5, <3>6 DEF Next
  <2>2. CASE AnnounceCompleted(c)
    <3>1. EndEvent(c) \in published'
      BY <2>2 DEF AnnounceCompleted
    <3>2. EndEvent(c).topic = "run_completed" /\ EndEvent(c).by = c
      BY DEF EndEvent
    <3> QED
      BY <1>1, <1>2, <3>1, <3>2 DEF CompletedBy, HasCompleted
  <2> QED
    BY <1>1, <1>2, <2>1, <2>2 DEF CompletedBy, HasCompleted
<1> QED
  BY <1>3, <1>4 DEF CompletedBy, HasCompleted

LEMMA CompletedWithMore ==
  ASSUME NoCrash, TypeInv, [Next]_vars, NEW r, NEW rows, NEW more,
         rows \subseteq more, CompletedWith(r, rows)
  PROVE  \E c \in Calls : CompletedBy(c, r)' /\ FailedIn(seen'[c]) \subseteq more
<1>1. PICK c \in Calls : CompletedBy(c, r) /\ FailedIn(seen[c]) \subseteq rows
  BY DEF CompletedWith
<1>2. CompletedBy(c, r)' /\ seen'[c] = seen[c]
  BY <1>1, CompletedByStays
<1> QED
  BY <1>1, <1>2

(* Only save_run completes a run, and its call is past its reads.          *)
LEMMA NextKeepsCompletion ==
  ASSUME NoCrash, TypeInv, TypeInv', ReadsInv, ReportInv, [Next]_vars
  PROVE  CompletionKnown'
<1>1. SUFFICES ASSUME NEW r \in Runs, runs'[r] = "completed"
               PROVE  \E c \in Calls : /\ CompletedBy(c, r)'
                                        /\ FailedIn(seen'[c]) \subseteq RowsOf(r)'
  BY DEF CompletionKnown, CompletedWith
<1>2. RowsOf(r) \subseteq RowsOf(r)'
  BY NextKeepsStore, RowsGrow
<1>3. CASE runs[r] = "completed"
  BY <1>2, <1>3, CompletedWithMore DEF ReportInv, CompletionKnown
<1>4. CASE runs[r] # "completed"
  <2>1. PICK c \in Calls : Step(c) /\ runs' # runs
    BY <1>1, <1>4, RequestIsWellFormed, FaultIsLocal
       DEF Next, Accept, Quiet, vars, store
  <2>2. SaveNewRun(c) \/ SaveRun(c)
    BY <2>1 DEF Step, SaveTest, PublishStarted, LoadMissing, LoadRefused,
       LoadRun, SaveResult, ReadResultsToEnd, ReadResultsRefused,
       AnnounceCompleted, AnnounceFailed, ComputeScores, SaveScore,
       PublishScore, PublishResults, SaveEvidence, PublishEvidence,
       ReadResultsToReport, ReadScoresToReport, ReadScoresToAnswer,
       SaveReport, PublishReport, store
  <2>3. SaveRun(c)
    BY <1>1, <1>4, <2>2 DEF SaveNewRun, TypeInv, TypeOK
  <2>4. /\ runs' = [runs EXCEPT ![req[c].run] = loaded[c]]
        /\ loaded[c] = EndStatus(req[c].op)
        /\ req[c].op \in {"complete_run", "fail_run"}
        /\ pc'[c] = "announce_end"
        /\ req' = req /\ seen' = seen
    BY <2>3 DEF SaveRun, StatusSaved, Goto, locals, TypeInv, TypeOK,
       Arguments, OnPath, PathOf, Operations
  <2>5. req[c].run = r /\ req[c].op = "complete_run"
    BY <1>1, <1>4, <2>4 DEF EndStatus, TypeInv, TypeOK
  <2>6. FailedIn(seen[c]) \subseteq RowsOf(r)
    BY <2>5 DEF ReadsInv, Snapshot, FailedIn
  <2> QED
    BY <1>2, <2>4, <2>5, <2>6 DEF CompletedBy, HasCompleted, Saved
<1> QED
  BY <1>3, <1>4

(* A report call finds its run completed before it reads the results, so   *)
(* it reads at least what the completion had read.                         *)
LEMMA NextKeepsReportInFlight ==
  ASSUME NoCrash, TypeInv, TypeInv', ReadsInv, ReportInv, [Next]_vars
  PROVE  ReportInFlight'
<1> DEFINE Covered(g, rows) ==
      \E c \in Calls : /\ CompletedBy(c, req[g].run)'
                       /\ FailedIn(seen'[c]) \subseteq rows
           Same(g) == /\ pc'[g] = pc[g] /\ req'[g] = req[g]
                      /\ loaded'[g] = loaded[g] /\ seen'[g] = seen[g]
<1>1. SUFFICES ASSUME NEW g \in Calls, req'[g].op = "generate_report",
                      loaded'[g] = "completed"
               PROVE  /\ pc'[g] = "read_results" =>
                           Covered(g, RowsOf(req[g].run)')
                      /\ pc'[g] \in {"read_scores", "save_report"} =>
                           Covered(g, seen'[g])
  BY DEF ReportInFlight, CompletedWith
<1>2. \A r : RowsOf(r) \subseteq RowsOf(r)'
  BY NextKeepsStore, RowsGrow
<1>3. \A rows, more :
        /\ rows \subseteq more
        /\ req'[g] = req[g]
        /\ CompletedWith(req[g].run, rows)
        => Covered(g, more)
  BY CompletedWithMore
<1> HIDE DEF Covered
<1>4. CASE Same(g)
  BY <1>1, <1>2, <1>3, <1>4 DEF ReportInv, ReportInFlight
<1>5. CASE Step(g)
  <2>1. req' = req
    BY <1>5, StepIsLocal
  <2>2. CASE LoadRun(g)
    <3>1. pc'[g] = "read_results" /\ runs[req[g].run] = "completed"
      BY <1>1, <2>1, <2>2 DEF LoadRun, Goto, AfterLoad, TypeInv, TypeOK
    <3>2. req[g].run \in Runs
      BY <2>2 DEF LoadRun, TypeInv, Arguments
    <3>3. CompletedWith(req[g].run, RowsOf(req[g].run))
      BY <3>1, <3>2 DEF ReportInv, CompletionKnown
    <3> QED
      BY <1>2, <1>3, <2>1, <3>1, <3>3
  <2>3. CASE ReadResultsToReport(g)
    <3>1. /\ pc[g] = "read_results" /\ pc'[g] = "read_scores"
          /\ loaded' = loaded /\ seen'[g] = RowsOf(req[g].run)
      BY <2>3 DEF ReadResultsToReport, Goto, TypeInv, TypeOK
    <3>2. CompletedWith(req[g].run, RowsOf(req[g].run))
      BY <1>1, <2>1, <3>1 DEF ReportInv, ReportInFlight
    <3> QED
      BY <1>3, <2>1, <3>1, <3>2
  <2>4. CASE ReadScoresToReport(g)
    <3>1. /\ pc[g] = "read_scores" /\ pc'[g] = "save_report"
          /\ loaded' = loaded /\ seen' = seen
      BY <2>4 DEF ReadScoresToReport, Goto, TypeInv, TypeOK
    <3>2. CompletedWith(req[g].run, seen[g])
      BY <1>1, <2>1, <3>1 DEF ReportInv, ReportInFlight
    <3> QED
      BY <1>3, <2>1, <3>1, <3>2
  <2>5. CASE ~(LoadRun(g) \/ ReadResultsToReport(g) \/ ReadScoresToReport(g))
    <3>1. pc'[g] \notin {"read_results", "read_scores", "save_report"}
      BY <1>1, <1>5, <2>1, <2>5 DEF Step, SaveTest, SaveNewRun,
         PublishStarted, LoadMissing, LoadRefused, SaveResult,
         ReadResultsToEnd, ReadResultsRefused, SaveRun, AnnounceCompleted,
         AnnounceFailed, ComputeScores, SaveScore, PublishScore,
         PublishResults, SaveEvidence, PublishEvidence, ReadScoresToAnswer,
         SaveReport, PublishReport, Goto, Fail, NextScoreStep, TypeInv, TypeOK
    <3> QED
      BY <3>1
  <2> QED
    BY <2>2, <2>3, <2>4, <2>5
<1>6. ASSUME NEW d \in Calls, Step(d) PROVE Same(g) \/ Step(g)
  BY <1>6, StepIsLocal
<1>7. ASSUME NEW d \in Calls, Request(d)
      PROVE  Same(g) \/ pc'[g] \notin {"read_results", "read_scores", "save_report"}
  BY <1>7, RequestIsWellFormed DEF Accept, Goto, FirstStep, TypeInv, TypeOK
<1>8. CASE (\E d \in Calls : Abort(d)) \/ \E rep \in Replicas : Crash(rep)
  BY <1>4, <1>8, FaultIsLocal
<1>9. CASE Quiet \/ UNCHANGED vars
  BY <1>4, <1>9 DEF Quiet, vars
<1> QED
  BY <1>4, <1>5, <1>6, <1>7, <1>8, <1>9 DEF Next

(* A report lists the failures of the results its call has seen.           *)
LEMMA NextKeepsReports ==
  ASSUME NoCrash, TypeInv, TypeInv', ReadsInv, ReportInv, [Next]_vars
  PROVE  ReportsCover'
<1>1. SUFFICES ASSUME NEW rep \in reports', rep.status = "completed"
               PROVE  \E c \in Calls :
                        /\ CompletedBy(c, rep.run)'
                        /\ {row.by : row \in FailedIn(seen'[c])}
                             \subseteq {item.result : item \in rep.remediations}
  BY DEF ReportsCover
<1>2. CASE rep \in reports
  <2>1. PICK c \in Calls : /\ CompletedBy(c, rep.run)
                           /\ {row.by : row \in FailedIn(seen[c])}
                                \subseteq {item.result : item \in rep.remediations}
    BY <1>1, <1>2 DEF ReportInv, ReportsCover
  <2> QED
    BY <2>1, CompletedByStays
<1>3. CASE rep \notin reports
  <2>1. PICK g \in Calls : Step(g) /\ reports' # reports
    BY <1>1, <1>3, RequestIsWellFormed, FaultIsLocal
       DEF Next, Accept, Quiet, vars, store
  <2>2. SaveReport(g)
    BY <2>1 DEF Step, SaveTest, SaveNewRun, PublishStarted, LoadMissing,
       LoadRefused, LoadRun, SaveResult, ReadResultsToEnd,
       ReadResultsRefused, SaveRun, AnnounceCompleted, AnnounceFailed,
       ComputeScores, SaveScore, PublishScore, PublishResults, SaveEvidence,
       PublishEvidence, ReadResultsToReport, ReadScoresToReport,
       ReadScoresToAnswer, PublishReport, store
  <2>3. /\ rep.run = req[g].run /\ rep.status = loaded[g]
        /\ rep.remediations = Remediations(catalog, seen[g])
        /\ pc[g] = "save_report"
    BY <1>1, <1>3, <2>2 DEF SaveReport
  <2>4. req[g].op = "generate_report"
    BY <2>3 DEF TypeInv, OnPath, PathOf, Operations
  <2>5. CompletedWith(rep.run, seen[g])
    BY <1>1, <2>3, <2>4 DEF ReportInv, ReportInFlight
  <2>6. PICK c \in Calls : /\ CompletedBy(c, rep.run)'
                           /\ FailedIn(seen'[c]) \subseteq seen[g]
    BY <2>5, CompletedWithMore
  <2>7. FailedIn(seen'[c]) \subseteq FailedIn(seen[g])
    BY <2>6 DEF FailedIn
  <2>8. \A row \in FailedIn(seen[g]) :
          row.by \in {item.result : item \in rep.remediations}
    BY <2>3, FailuresRemedied
  <2>9. {row.by : row \in FailedIn(seen'[c])}
          \subseteq {item.result : item \in rep.remediations}
    BY <2>7, <2>8
  <2> QED
    BY <2>6, <2>9
<1> QED
  BY <1>2, <1>3

(* A report that calls its run completed lists every failed result counted *)
(* by a completion that has saved the run, though status, results and      *)
(* scores are read apart (bench_service.py, generate_report).              *)
THEOREM ReportsCovered == Spec => []ReportCoversCompletion
<1>1. Init => ReportInv
  BY DEF Init, NoRequest, ReportInv, CompletionKnown, ReportInFlight,
     ReportsCover
<1>2. /\ TypeInv /\ ReadsInv /\ (TypeInv /\ ReadsInv)'
      /\ ReportInv /\ [Next]_vars
      => ReportInv'
  BY NextKeepsCompletion, NextKeepsReportInFlight, NextKeepsReports
     DEF ReportInv
<1>3. ReportInv => ReportCoversCompletion
  BY DEF ReportInv, NoCrash, ReportsCover, CompletedBy, ReportCoversCompletion
<1> QED
  BY <1>1, <1>2, <1>3, ReadsInvariant, PTL DEF Spec

-----------------------------------------------------------------------------
(* The verdict.                                                            *)

(* A call past its announcement has published the end it carries.          *)
EndPublished ==
  \A c \in Calls :
    pc[c] \in Saved \ {"announce_end"} => EndEvent(c) \in published

(* A stored score has the value of its dimension in the rows its call has  *)
(* seen, which are final.                                                  *)
Owned(s) ==
  /\ req[s.by].op = "complete_run" /\ pc[s.by] \in Saved \cup Answers
  /\ s.value = ValueOf(Under(catalog, seen[s.by], s.dim))

ScoresOwned == \A s \in scores : Owned(s)

(* A dimension that is not left in the loop has its score published.       *)
ScorePublished(c, d) ==
  \E f \in published :
    /\ f.topic = "score_published" /\ f.by = c /\ f.dim = d
    /\ f.value = ValueOf(Under(catalog, seen[c], d))

DonePublished ==
  \A c \in Calls :
    pc[c] \in {"save_score", "publish_score", "publish_results"} =>
      \A d \in Dimensions(catalog, seen[c]) :
        \/ pc[c] # "publish_results" /\ d \in todo[c]
        \/ ScorePublished(c, d)

WholeInv == EndPublished /\ ScoresOwned /\ DonePublished /\ ResultsEventWhole

(* A call not at these labels is not in the loop.                          *)
LoopLabels == {"save_score", "publish_score", "publish_results"}

(* A call that keeps its label and its rows keeps what it has published.   *)
LEMMA SameCallWhole ==
  ASSUME TypeInv, TypeInv', ReadsInv, CatalogKept, WholeInv, [Next]_vars,
         NEW d \in Calls, req'[d] = req[d], pc'[d] = pc[d],
         loaded'[d] = loaded[d], seen'[d] = seen[d], todo'[d] = todo[d]
  PROVE  /\ pc'[d] \in Saved \ {"announce_end"} => EndEvent(d)' \in published'
         /\ pc'[d] \in LoopLabels =>
              \A x \in Dimensions(catalog, seen[d])' :
                \/ pc'[d] # "publish_results" /\ x \in todo'[d]
                \/ ScorePublished(d, x)'
<1>1. EndEvent(d)' = EndEvent(d)
  BY DEF EndEvent
<1>2. /\ Dimensions(catalog, seen[d])' = Dimensions(catalog, seen[d])
      /\ \A x : Under(catalog, seen[d], x)' = Under(catalog, seen[d], x)
  <2>1. \A row \in seen[d] :
          CategoryOf(catalog, row.test) = CategoryOf(catalog', row.test)
    BY CategoriesFixed DEF ReadsInv, Snapshot, RowsOf
  <2> QED
    BY <2>1, SameCategories
<1>3. \A x : ScorePublished(d, x) => ScorePublished(d, x)'
  BY <1>2, StreamGrows DEF ScorePublished
<1> QED
  BY <1>1, <1>2, <1>3, StreamGrows
     DEF WholeInv, EndPublished, DonePublished, LoopLabels

(* The call that takes the step: it announces, then computes the scores,   *)
(* then saves and publishes them one at a time.                            *)
LEMMA StepKeepsOwnWhole ==
  ASSUME TypeInv, ReadsInv, WholeInv, NEW c \in Calls, Step(c)
  PROVE  /\ pc'[c] \in Saved \ {"announce_end"} => EndEvent(c)' \in published'
         /\ pc'[c] \in LoopLabels =>
              \A x \in Dimensions(catalog, seen[c])' :
                \/ pc'[c] # "publish_results" /\ x \in todo'[c]
                \/ ScorePublished(c, x)'
<1>1. CASE AnnounceCompleted(c)
  <2>1. /\ UNCHANGED <<req, loaded, seen>>
        /\ published' = published \cup {EndEvent(c)}
        /\ pc'[c] = "compute"
    BY <1>1 DEF AnnounceCompleted, Goto, locals, TypeInv, TypeOK
  <2>2. EndEvent(c)' = EndEvent(c)
    BY <2>1 DEF EndEvent
  <2> QED
    BY <2>1, <2>2 DEF LoopLabels
<1>2. CASE ComputeScores(c)
  <2>1. /\ UNCHANGED <<catalog, req, loaded, seen, published>>
        /\ pc[c] = "compute"
        /\ todo'[c] = Dimensions(catalog, seen[c])
        /\ pc'[c] = NextScoreStep(Dimensions(catalog, seen[c]))
    BY <1>2 DEF ComputeScores, Goto, store, TypeInv, TypeOK
  <2>2. EndEvent(c)' = EndEvent(c)
    BY <2>1 DEF EndEvent
  <2>3. EndEvent(c) \in published
    BY <2>1 DEF WholeInv, EndPublished, Saved
  <2>4. pc'[c] = "publish_results" => Dimensions(catalog, seen[c]) = {}
    BY <2>1 DEF NextScoreStep
  <2>5. Dimensions(catalog, seen[c])' = Dimensions(catalog, seen[c])
    BY <2>1
  <2> QED
    BY <2>1, <2>2, <2>3, <2>4, <2>5
<1>3. CASE SaveScore(c)
  <2>1. /\ UNCHANGED <<catalog, req, loaded, seen, published, todo>>
        /\ pc[c] = "save_score" /\ pc'[c] = "publish_score"
    BY <1>3 DEF SaveScore, Goto, locals, TypeInv, TypeOK
  <2>2. EndEvent(c)' = EndEvent(c) /\ \A x : ScorePublished(c, x)' = ScorePublished(c, x)
    BY <2>1 DEF EndEvent, ScorePublished
  <2>3. EndEvent(c) \in published
    BY <2>1 DEF WholeInv, EndPublished, Saved
  <2>4. Dimensions(catalog, seen[c])' = Dimensions(catalog, seen[c])
    BY <2>1
  <2> QED
    BY <2>1, <2>2, <2>3, <2>4 DEF WholeInv, DonePublished
<1>4. CASE PublishScore(c)
  <2>1. PICK s \in scores :
          /\ s.by = c /\ s.dim \in todo[c]
          /\ published' = published \cup
               {[topic |-> "score_published", by |-> c, run |-> s.run,
                 dim |-> s.dim, value |-> s.value]}
          /\ UNCHANGED <<catalog, req, loaded, seen>>
          /\ todo'[c] = todo[c] \ {s.dim}
          /\ pc[c] = "publish_score"
          /\ pc'[c] = NextScoreStep(todo[c] \ {s.dim})
    BY <1>4 DEF PublishScore, Goto, store, TypeInv, TypeOK
  <2>2. EndEvent(c)' = EndEvent(c) /\ EndEvent(c) \in published
    BY <2>1 DEF EndEvent, WholeInv, EndPublished, Saved
  <2>3. s.value = ValueOf(Under(catalog, seen[c], s.dim))
    BY <2>1 DEF WholeInv, ScoresOwned, Owned
  <2>4. ScorePublished(c, s.dim)'
    <3>1. \E f \in published' :
            /\ f.topic = "score_published" /\ f.by = c /\ f.dim = s.dim
            /\ f.value = ValueOf(Under(catalog, seen[c], s.dim))
      <4> DEFINE e == [topic |-> "score_published", by |-> c, run |-> s.run,
                       dim |-> s.dim, value |-> s.value]
      <4>1. /\ e.topic = "score_published" /\ e.by = c /\ e.dim = s.dim
            /\ e.value = s.value
        OBVIOUS
      <4>2. e \in published'
        BY <2>1
      <4> HIDE DEF e
      <4> QED
        BY <2>3, <4>1, <4>2
    <3> QED
      BY <2>1, <3>1 DEF ScorePublished
  <2>5. \A x : ScorePublished(c, x) => ScorePublished(c, x)'
    BY <2>1 DEF ScorePublished
  <2>6. pc'[c] = "publish_results" => todo'[c] = {}
    BY <2>1 DEF NextScoreStep
  <2>7. Dimensions(catalog, seen[c])' = Dimensions(catalog, seen[c])
    BY <2>1
  <2>8. \A x \in Dimensions(catalog, seen[c]) :
          x \in todo[c] \/ ScorePublished(c, x)
    BY <2>1 DEF WholeInv, DonePublished
  <2>9. \A x \in Dimensions(catalog, seen[c]) :
          x \in todo'[c] \/ ScorePublished(c, x)'
    BY <2>1, <2>4, <2>5, <2>8
  <2>10. EndEvent(c)' \in published'
    BY <2>1, <2>2
  <2> QED
    BY <2>6, <2>7, <2>9, <2>10
<1>5. CASE SaveRun(c)
  BY <1>5 DEF SaveRun, Goto, LoopLabels, TypeInv, TypeOK
<1>6. CASE /\ ~AnnounceCompleted(c) /\ ~ComputeScores(c) /\ ~SaveScore(c)
           /\ ~PublishScore(c) /\ ~SaveRun(c)
  <2>1. pc'[c] \notin Saved
    BY <1>6 DEF Step, SaveTest, SaveNewRun, PublishStarted, LoadMissing,
       LoadRefused, LoadRun, AfterLoad, SaveResult, ReadResultsToEnd,
       ReadResultsRefused, AnnounceFailed, PublishResults, SaveEvidence,
       PublishEvidence, ReadResultsToReport, ReadScoresToReport,
       ReadScoresToAnswer, SaveReport, PublishReport, Goto, Fail, Saved,
       TypeInv, TypeOK
  <2> QED
    BY <2>1 DEF Saved, LoopLabels
<1> QED
  BY <1>1, <1>2, <1>3, <1>4, <1>5, <1>6

LEMMA NextKeepsPublished ==
  ASSUME TypeInv, TypeInv', ReadsInv, WholeInv, CatalogKept, [Next]_vars
  PROVE  EndPublished' /\ DonePublished'
<1> SUFFICES ASSUME NEW d \in Calls
             PROVE  /\ pc'[d] \in Saved \ {"announce_end"} =>
                         EndEvent(d)' \in published'
                    /\ pc'[d] \in LoopLabels =>
                         \A x \in Dimensions(catalog, seen[d])' :
                           \/ pc'[d] # "publish_results" /\ x \in todo'[d]
                           \/ ScorePublished(d, x)'
  BY DEF EndPublished, DonePublished, LoopLabels
<1>1. CASE Step(d)
  BY <1>1, StepKeepsOwnWhole
<1>2. CASE /\ req'[d] = req[d] /\ pc'[d] = pc[d] /\ loaded'[d] = loaded[d]
           /\ seen'[d] = seen[d] /\ todo'[d] = todo[d]
  BY <1>2, SameCallWhole
<1>3. CASE pc'[d] \notin Saved
  BY <1>3 DEF Saved, LoopLabels
<1>4. ASSUME NEW c \in Calls, Request(c)
      PROVE  \/ pc'[d] \notin Saved
             \/ /\ req'[d] = req[d] /\ pc'[d] = pc[d]
                /\ loaded'[d] = loaded[d] /\ seen'[d] = seen[d]
                /\ todo'[d] = todo[d]
  <2>1. PICK request : Accept(c, request)
    BY <1>4, RequestIsWellFormed
  <2> QED
    BY <2>1 DEF Accept, Goto, FirstStep, Saved, TypeInv, TypeOK
<1>5. ASSUME \/ \E c \in Calls : Abort(c)
             \/ \E rep \in Replicas : Crash(rep)
      PROVE  \/ pc'[d] \notin Saved
             \/ /\ req'[d] = req[d] /\ pc'[d] = pc[d]
                /\ loaded'[d] = loaded[d] /\ seen'[d] = seen[d]
                /\ todo'[d] = todo[d]
  BY <1>5, FaultIsLocal DEF Saved
<1>6. ASSUME NEW c \in Calls, Step(c), c # d
      PROVE  /\ req'[d] = req[d] /\ pc'[d] = pc[d]
             /\ loaded'[d] = loaded[d] /\ seen'[d] = seen[d]
             /\ todo'[d] = todo[d]
  BY <1>6, StepIsLocal
<1> QED
  BY <1>1, <1>2, <1>3, <1>4, <1>5, <1>6 DEF Next, Quiet, vars

LEMMA NextKeepsOwned ==
  ASSUME TypeInv, TypeInv', ReadsInv, WholeInv, CatalogKept, [Next]_vars
  PROVE  ScoresOwned'
<1>1. ASSUME NEW s \in scores PROVE Owned(s)'
  <2>1. s.by \in Calls
    BY DEF TypeInv, TypeOK, ScoreRow
  <2>2. Owned(s)
    BY DEF WholeInv, ScoresOwned
  <2>3. /\ req'[s.by] = req[s.by]
        /\ pc'[s.by] \in Saved \cup Answers
        /\ seen'[s.by] = seen[s.by]
    BY <2>1, <2>2, CompletionStays DEF Owned
  <2>4. \A row \in seen[s.by] :
          CategoryOf(catalog, row.test) = CategoryOf(catalog', row.test)
    BY <2>1, CategoriesFixed DEF ReadsInv, Snapshot, RowsOf
  <2>5. \A x : Under(catalog', seen[s.by], x) = Under(catalog, seen[s.by], x)
    BY <2>4 DEF Under
  <2> QED
    BY <2>2, <2>3, <2>5 DEF Owned
<1>2. ASSUME NEW s \in scores' \ scores PROVE Owned(s)'
  <2>1. PICK c \in Calls : Step(c) /\ scores' # scores
    BY <1>2, RequestIsWellFormed, FaultIsLocal
       DEF Next, Accept, Quiet, vars, store
  <2>2. SaveScore(c)
    BY <2>1 DEF Step, SaveTest, SaveNewRun, PublishStarted, LoadMissing,
       LoadRefused, LoadRun, SaveResult, ReadResultsToEnd,
       ReadResultsRefused, SaveRun, AnnounceCompleted, AnnounceFailed,
       ComputeScores, PublishScore, PublishResults, SaveEvidence,
       PublishEvidence, ReadResultsToReport, ReadScoresToReport,
       ReadScoresToAnswer, SaveReport, PublishReport, store
  <2>3. PICK d \in todo[c] :
          /\ pc[c] = "save_score" /\ pc'[c] = "publish_score"
          /\ scores' = scores \cup {ScoreOf(c, d)}
          /\ UNCHANGED <<catalog, req, seen>>
    BY <2>2 DEF SaveScore, Goto, locals, TypeInv, TypeOK
  <2>4. s.by = c /\ s.value = ValueOf(Under(catalog, seen[c], s.dim))
    BY <1>2, <2>3 DEF ScoreOf
  <2>5. req[c].op = "complete_run"
    BY <2>3 DEF TypeInv, OnPath, PathOf, Operations
  <2> QED
    BY <2>3, <2>4, <2>5 DEF Owned, Saved
<1> QED
  BY <1>1, <1>2 DEF ScoresOwned

(* The completion behind one verdict, with the events that are out.        *)
Whole(e) ==
  /\ \E f \in published : /\ f.topic = "run_completed" /\ f.by = e.by
                          /\ f.run = e.run /\ f.status = "completed"
                          /\ e.passed <=> f.failed_count = 0
  /\ \A d \in DOMAIN e.card :
       \E f \in published : /\ f.topic = "score_published" /\ f.by = e.by
                            /\ f.dim = d /\ f.value = e.card[d]

(* The call that publishes a verdict has published all that it rests on.   *)
LEMMA NewVerdictWhole ==
  ASSUME TypeInv, WholeInv, NEW c \in Calls, pc[c] = "publish_results"
  PROVE  Whole(ResultsEvent(c))
<1> DEFINE e == ResultsEvent(c)
           f == EndEvent(c)
<1>1. /\ e.by = c /\ e.run = req[c].run
      /\ e.passed = (FailedIn(seen[c]) = {})
      /\ e.card = ScoresOf(catalog, seen[c])
  BY DEF ResultsEvent
<1>2. req[c].op = "complete_run" /\ loaded[c] = "completed"
  BY DEF TypeInv, OnPath, PathOf, Operations, Arguments, EndStatus, Saved
<1>3. /\ f.topic = "run_completed" /\ f.by = c /\ f.run = req[c].run
      /\ f.status = "completed"
      /\ f.failed_count = Cardinality(FailedIn(seen[c]))
  BY <1>2 DEF EndEvent
<1>4. f \in published
  BY DEF WholeInv, EndPublished, Saved
<1>5. Cardinality(FailedIn(seen[c])) = 0 <=> FailedIn(seen[c]) = {}
  <2>1. IsFiniteSet(FailedIn(seen[c]))
    <3>1. IsFiniteSet(seen[c]) /\ FailedIn(seen[c]) \subseteq seen[c]
      BY DEF TypeInv, Finite, FailedIn
    <3> QED
      BY <3>1, FS_Subset
  <2> QED
    BY <2>1, FS_EmptySet
<1>6. ASSUME NEW d \in DOMAIN e.card
      PROVE  \E g \in published :
               /\ g.topic = "score_published" /\ g.by = e.by
               /\ g.dim = d /\ g.value = e.card[d]
  <2>1. d \in Dimensions(catalog, seen[c])
    BY <1>1 DEF ScoresOf
  <2>2. e.card[d] = ValueOf(Under(catalog, seen[c], d))
    BY <1>1, <2>1 DEF ScoresOf
  <2>3. ScorePublished(c, d)
    BY <2>1 DEF WholeInv, DonePublished
  <2> HIDE DEF e
  <2> QED
    BY <1>1, <2>2, <2>3 DEF ScorePublished
<1>7. e.passed <=> f.failed_count = 0
  BY <1>1, <1>3, <1>5
<1> HIDE DEF e, f
<1> QED
  BY <1>1, <1>3, <1>4, <1>6, <1>7 DEF Whole, e

(* The one verdict a step publishes.                                       *)
LEMMA NewVerdicts ==
  ASSUME NEW c \in Calls, Step(c),
         NEW e \in published' \ published, e.topic = "bench_results"
  PROVE  e = ResultsEvent(c) /\ pc[c] = "publish_results"
BY StepPublishes DEF PublishResults

LEMMA NextKeepsVerdicts ==
  ASSUME TypeInv, WholeInv, [Next]_vars
  PROVE  ResultsEventWhole'
<1>1. published \subseteq published'
  BY StreamGrows
<1>2. ASSUME NEW e, Whole(e) PROVE Whole(e)'
  BY <1>1, <1>2 DEF Whole
<1>3. ASSUME NEW e \in published', e.topic = "bench_results"
      PROVE  Whole(e)
  <2>1. CASE e \in published
    BY <1>3, <2>1 DEF WholeInv, ResultsEventWhole, Whole
  <2>2. CASE e \notin published
    <3>1. PICK c \in Calls : Step(c)
      BY <2>2, RequestIsWellFormed, FaultIsLocal DEF Next, Accept, Quiet, vars
    <3>2. e = ResultsEvent(c) /\ pc[c] = "publish_results"
      BY <1>3, <2>2, <3>1, NewVerdicts
    <3> QED
      BY <3>2, NewVerdictWhole
  <2> QED
    BY <2>1, <2>2
<1>4. \A e \in published' : e.topic = "bench_results" => Whole(e)'
  BY <1>2, <1>3
<1> QED
  BY <1>4 DEF ResultsEventWhole, Whole

(* When bench.results leaves, the same call has announced the end with the *)
(* counts its verdict is made from and has published the score of each     *)
(* dimension, whatever the other calls do (bench_service.py,               *)
(* complete_run).                                                          *)
THEOREM CompletionWhole == Spec => []ResultsEventWhole
<1>1. Init => WholeInv
  BY DEF Init, WholeInv, EndPublished, ScoresOwned, DonePublished,
     ResultsEventWhole, Saved
<1>2. TypeInv /\ [Next]_vars => CatalogKept
  <2>1. ASSUME TypeInv, NEW c \in Calls, Step(c) PROVE CatalogKept
    BY <2>1, StepKeepsCatalog
  <2>2. TypeInv /\ [Next]_vars /\ (\A c \in Calls : ~Step(c))
          => catalog' = catalog
    BY RequestIsWellFormed, FaultIsLocal
       DEF Next, Accept, Quiet, vars, store
  <2> QED
    BY <2>1, <2>2 DEF CatalogKept
<1>3. /\ TypeInv /\ ReadsInv /\ (TypeInv /\ ReadsInv)'
      /\ WholeInv /\ [Next]_vars
      => WholeInv'
  BY <1>2, NextKeepsPublished, NextKeepsOwned, NextKeepsVerdicts DEF WholeInv
<1>4. WholeInv => ResultsEventWhole
  BY DEF WholeInv
<1> QED
  BY <1>1, <1>3, <1>4, ReadsInvariant, PTL DEF Spec

-----------------------------------------------------------------------------
(* The verdict and the score of bench.results agree.                       *)

(* A scorecard of the rows a call has read: each of its dimensions has a   *)
(* row, so the code never divides by zero, and its overall score is 1 iff  *)
(* no row failed.                                                          *)
LEMMA ScoreOfRows ==
  ASSUME NEW cat, NEW rows, IsFiniteSet(rows)
  PROVE  LET card == ScoresOf(cat, rows) IN
         /\ IsFiniteSet(DOMAIN card)
         /\ \A d \in DOMAIN card : /\ card[d].total \in Nat \ {0}
                                  /\ card[d].passed \in 0 .. card[d].total
         /\ (\A d \in DOMAIN card : card[d].passed = card[d].total)
              <=> FailedIn(rows) = {}
<1> DEFINE card == ScoresOf(cat, rows)
<1>1. DOMAIN card = Dimensions(cat, rows)
  BY ScoresType
<1>2. IsFiniteSet(DOMAIN card)
  <2> DEFINE f == [row \in rows |-> CategoryOf(cat, row.test)]
  <2>1. f \in Surjection(rows, Dimensions(cat, rows))
    BY DEF Surjection, Dimensions
  <2> HIDE DEF f
  <2> QED
    BY <1>1, <2>1, FS_Surjection
<1>3. ASSUME NEW d \in DOMAIN card
      PROVE  LET under == Under(cat, rows, d) IN
             /\ card[d].total = Cardinality(under)
             /\ card[d].passed = Cardinality(PassedIn(under))
             /\ IsFiniteSet(under) /\ under # {}
  <2>1. card[d] = ValueOf(Under(cat, rows, d))
    BY <1>1 DEF ScoresOf
  <2>2. Under(cat, rows, d) \subseteq rows /\ Under(cat, rows, d) # {}
    BY <1>1 DEF Under, Dimensions
  <2>3. IsFiniteSet(Under(cat, rows, d))
    BY <2>2, FS_Subset
  <2> QED
    BY <2>1, <2>2, <2>3 DEF ValueOf
<1>4. ASSUME NEW d \in DOMAIN card
      PROVE  /\ card[d].total \in Nat \ {0}
             /\ card[d].passed \in 0 .. card[d].total
             /\ card[d].passed = card[d].total
                  <=> FailedIn(Under(cat, rows, d)) = {}
  <2> DEFINE under == Under(cat, rows, d)
  <2>1. /\ card[d].total = Cardinality(under)
        /\ card[d].passed = Cardinality(PassedIn(under))
        /\ IsFiniteSet(under) /\ under # {}
    BY <1>3
  <2>2. FailedIn(under) \subseteq under
    BY DEF FailedIn
  <2> HIDE DEF under
  <2>3. /\ Cardinality(PassedIn(under)) \in Nat
        /\ Cardinality(FailedIn(under)) \in Nat
        /\ Cardinality(under)
             = Cardinality(PassedIn(under)) + Cardinality(FailedIn(under))
    BY <2>1, PassedAndFailed
  <2>4. Cardinality(FailedIn(under)) = 0 <=> FailedIn(under) = {}
    BY <2>1, <2>2, FS_Subset, FS_EmptySet
  <2>5. Cardinality(under) # 0
    BY <2>1, FS_EmptySet
  <2> QED
    BY <2>1, <2>3, <2>4, <2>5 DEF under
<1>5. (\A d \in DOMAIN card : FailedIn(Under(cat, rows, d)) = {})
        <=> FailedIn(rows) = {}
  BY <1>1 DEF Dimensions, Under, FailedIn
<1> HIDE DEF card
<1> QED
  BY <1>2, <1>4, <1>5 DEF card

(* What the verdict of a call in flight will say.                          *)
LEMMA NewVerdictScored ==
  ASSUME TypeInv, NEW c \in Calls, DOMAIN ResultsEvent(c).card # {}
  PROVE  LET e == ResultsEvent(c)
         IN  e.passed <=> Overall(e.card).num = Overall(e.card).den
<1> DEFINE card == ScoresOf(catalog, seen[c])
<1>1. ResultsEvent(c).card = card /\ ResultsEvent(c).passed = (FailedIn(seen[c]) = {})
  BY DEF ResultsEvent
<1>2. IsFiniteSet(seen[c])
  BY DEF TypeInv, Finite
<1>3. /\ IsFiniteSet(DOMAIN card) /\ DOMAIN card # {}
      /\ \A d \in DOMAIN card : /\ card[d].total \in Nat \ {0}
                               /\ card[d].passed \in 0 .. card[d].total
      /\ (\A d \in DOMAIN card : card[d].passed = card[d].total)
           <=> FailedIn(seen[c]) = {}
  BY <1>1, <1>2, ScoreOfRows
<1> HIDE DEF card
<1>4. Overall(card).num = Overall(card).den
        <=> \A d \in DOMAIN card : card[d].passed = card[d].total
  BY <1>3, OverallBounded
<1> QED
  BY <1>1, <1>3, <1>4

(* The two ways bench.results says how a run went agree, for any number of *)
(* results, dimensions and concurrent calls: it passed iff its score, the  *)
(* mean over the dimensions, is 1.0 (bench_service.py, complete_run;       *)
(* scoring.py, build_scorecard).                                           *)
THEOREM VerdictScored == Spec => []VerdictIsScore
<1>1. Init => VerdictIsScore
  BY DEF Init, VerdictIsScore
<1>2. ASSUME TypeInv, VerdictIsScore, [Next]_vars PROVE VerdictIsScore'
  <2>1. SUFFICES ASSUME NEW e \in published', e.topic = "bench_results",
                        DOMAIN e.card # {}
                 PROVE  e.passed <=> Overall(e.card).num = Overall(e.card).den
    BY DEF VerdictIsScore
  <2>2. CASE e \in published
    BY <1>2, <2>1, <2>2 DEF VerdictIsScore
  <2>3. CASE e \notin published
    <3>1. PICK c \in Calls : Step(c)
      BY <1>2, <2>3, RequestIsWellFormed, FaultIsLocal
         DEF Next, Accept, Quiet, vars
    <3>2. e = ResultsEvent(c)
      BY <2>1, <2>3, <3>1, NewVerdicts
    <3> QED
      BY <1>2, <2>1, <3>2, NewVerdictScored
  <2> QED
    BY <2>2, <2>3
<1> QED
  BY <1>1, <1>2, TypeInvariant, PTL DEF Spec

-----------------------------------------------------------------------------
(* Why every call is answered.  EveryCallAnswered is a property of fair    *)
(* behaviours; here is what it rests on, said of single states and steps:  *)
(* a call in flight has a step whose guard holds, and each of its steps    *)
(* brings it nearer to its answer.                                         *)

(* How far a call is from its answer: the labels it has before it, and, in *)
(* the loop over the scores, the steps it has left there.                  *)
Stage(label) ==
  CASE label = "load"                          -> 7
    [] label = "read_results"                  -> 6
    [] label \in {"read_scores", "save_run"}   -> 5
    [] label = "announce_end"                  -> 4
    [] label = "compute"                       -> 3
    [] label \in {"save_new_run", "save_evidence", "save_report",
                  "save_score", "publish_score"} -> 2
    [] label \in {"save_test", "save_result", "publish_started",
                  "publish_evidence", "publish_report",
                  "publish_results"}           -> 1
    [] OTHER                                   -> 0

Remaining(c) ==
  2 * Cardinality(todo[c]) - (IF pc[c] = "publish_score" THEN 1 ELSE 0)

Closer(c) ==
  \/ Stage(pc'[c]) < Stage(pc[c])
  \/ /\ Stage(pc'[c]) = Stage(pc[c])
     /\ 0 <= Remaining(c)' /\ Remaining(c)' < Remaining(c)

(* The guards of the steps of a call: the labels at which there is none,   *)
(* then those at which the call may depend on what it or the store holds.  *)
Unguarded == {"save_test", "save_new_run", "publish_started", "save_result",
              "save_run", "compute", "publish_results", "save_evidence",
              "publish_evidence", "publish_report"}

CanStep(c) ==
  \/ pc[c] \in Unguarded
  \/ /\ pc[c] = "load"
     /\ \/ req[c].run = Unknown
        \/ /\ req[c].run # Unknown
           /\ req[c].op \in NeedsOpenRun
           /\ ~StillOpen(runs[req[c].run])
        \/ /\ req[c].run # Unknown
           /\ req[c].op \in NeedsOpenRun => StillOpen(runs[req[c].run])
  \/ pc[c] = "read_results" /\ req[c].op \in {"complete_run", "generate_report"}
  \/ pc[c] = "announce_end" /\ req[c].op \in {"complete_run", "fail_run"}
  \/ pc[c] = "save_score" /\ todo[c] # {}
  \/ pc[c] = "publish_score" /\ \E s \in scores : s.by = c /\ s.dim \in todo[c]
  \/ pc[c] = "read_scores" /\ req[c].op \in {"generate_report", "get_scorecard"}
  \/ pc[c] = "save_report" /\ Scorecards(scoreRows[c]) # {}

(* The loop over the scores: a dimension is left to save, or the one just  *)
(* saved is left to publish.                                               *)
LoopInv ==
  \A c \in Calls :
    /\ pc[c] = "save_score" => todo[c] # {}
    /\ pc[c] = "publish_score" => \E s \in scores : s.by = c /\ s.dim \in todo[c]

(* Any set of score rows makes at least one scorecard.                     *)
LEMMA ScorecardExists ==
  ASSUME NEW rows
  PROVE  Scorecards(rows) # {}
<1> DEFINE dims == {s.dim : s \in rows}
           row(d) == CHOOSE s \in rows : s.dim = d
           card == [d \in dims |-> row(d).value]
<1>1. \A d \in dims : row(d) \in rows /\ row(d).dim = d
  OBVIOUS
<1>2. card \in [dims -> {s.value : s \in rows}]
  BY <1>1
<1>3. \A d \in dims : \E s \in rows : s.dim = d /\ s.value = card[d]
  BY <1>1
<1> HIDE DEF card
<1> QED
  BY <1>2, <1>3 DEF Scorecards

(* No step of a call is taken but where CanStep says so.                   *)
LEMMA StepHasGuard ==
  ASSUME NEW c \in Calls, Step(c)
  PROVE  CanStep(c)
<1>1. CASE \/ SaveTest(c) \/ SaveNewRun(c) \/ PublishStarted(c) \/ SaveResult(c)
           \/ SaveRun(c) \/ ComputeScores(c) \/ PublishResults(c)
           \/ SaveEvidence(c) \/ PublishEvidence(c) \/ PublishReport(c)
  BY <1>1 DEF SaveTest, SaveNewRun, PublishStarted, SaveResult, SaveRun,
     ComputeScores, PublishResults, SaveEvidence, PublishEvidence,
     PublishReport, CanStep, Unguarded
<1>2. CASE LoadMissing(c) \/ LoadRefused(c) \/ LoadRun(c)
  BY <1>2 DEF LoadMissing, LoadRefused, LoadRun, CanStep
<1>3. CASE \/ ReadResultsToEnd(c) \/ ReadResultsRefused(c) \/ ReadResultsToReport(c)
           \/ AnnounceCompleted(c) \/ AnnounceFailed(c)
           \/ ReadScoresToReport(c) \/ ReadScoresToAnswer(c)
  BY <1>3 DEF ReadResultsToEnd, ReadResultsRefused, ReadResultsToReport,
     AnnounceCompleted, AnnounceFailed, ReadScoresToReport,
     ReadScoresToAnswer, CanStep
<1>4. CASE SaveScore(c) \/ PublishScore(c) \/ SaveReport(c)
  BY <1>4 DEF SaveScore, PublishScore, SaveReport, CanStep
<1> QED
  BY <1>1, <1>2, <1>3, <1>4 DEF Step

LEMMA InLoopFinite ==
  ASSUME TypeInv, ReadsInv, NEW c \in Calls,
         pc[c] \in {"save_score", "publish_score"}
  PROVE  IsFiniteSet(todo[c])
<1>1. IsFiniteSet(Dimensions(catalog, seen[c]))
  BY ScoreOfRows, ScoresType DEF TypeInv, Finite
<1>2. todo[c] \subseteq Dimensions(catalog, seen[c])
  BY DEF ReadsInv, ToScore
<1> QED
  BY <1>1, <1>2, FS_Subset

(* The three steps of the loop.                                            *)
LEMMA LoopSteps ==
  ASSUME TypeInv, ReadsInv, LoopInv, NEW c \in Calls,
         ComputeScores(c) \/ SaveScore(c) \/ PublishScore(c)
  PROVE  /\ Closer(c)
         /\ pc'[c] = "save_score" => todo'[c] # {}
         /\ pc'[c] = "publish_score" =>
              \E s \in scores' : s.by = c /\ s.dim \in todo'[c]
<1>1. CASE ComputeScores(c)
  <2>1. /\ pc[c] = "compute"
        /\ todo'[c] = Dimensions(catalog, seen[c])
        /\ pc'[c] = NextScoreStep(todo'[c])
    BY <1>1 DEF ComputeScores, Goto, TypeInv, TypeOK
  <2> QED
    BY <2>1 DEF NextScoreStep, Closer, Stage
<1>2. CASE SaveScore(c)
  <2>1. PICK d \in todo[c] : /\ pc[c] = "save_score" /\ pc'[c] = "publish_score"
                             /\ scores' = scores \cup {ScoreOf(c, d)}
                             /\ todo' = todo
    BY <1>2 DEF SaveScore, Goto, locals, TypeInv, TypeOK
  <2>2. ScoreOf(c, d).by = c /\ ScoreOf(c, d).dim = d
    BY DEF ScoreOf
  <2>3. Cardinality(todo[c]) \in Nat /\ Cardinality(todo[c]) # 0
    BY <2>1, InLoopFinite, FS_CardinalityType, FS_EmptySet
  <2>4. /\ Remaining(c) = 2 * Cardinality(todo[c])
        /\ Remaining(c)' = 2 * Cardinality(todo[c]) - 1
    BY <2>1, <2>3 DEF Remaining
  <2>5. Closer(c)
    BY <2>1, <2>3, <2>4 DEF Closer, Stage
  <2> QED
    BY <2>1, <2>2, <2>5
<1>3. CASE PublishScore(c)
  <2>1. PICK s \in scores : /\ pc[c] = "publish_score"
                            /\ s.dim \in todo[c]
                            /\ todo'[c] = todo[c] \ {s.dim}
                            /\ pc'[c] = NextScoreStep(todo'[c])
    BY <1>3 DEF PublishScore, Goto, TypeInv, TypeOK
  <2>2. CASE todo'[c] = {}
    BY <2>1, <2>2 DEF NextScoreStep, Closer, Stage
  <2>3. CASE todo'[c] # {}
    <3>1. IsFiniteSet(todo[c])
      BY <2>1, InLoopFinite
    <3>2. /\ Cardinality(todo[c]) \in Nat
          /\ Cardinality(todo'[c]) = Cardinality(todo[c]) - 1
      <4>1. Cardinality(todo[c] \ {s.dim}) = Cardinality(todo[c]) - 1
        BY <2>1, <3>1, FS_RemoveElement
      <4> QED
        BY <2>1, <3>1, <4>1, FS_CardinalityType
    <3>3. Cardinality(todo[c]) >= 1
      BY <2>1, <3>1, <3>2, FS_EmptySet
    <3>4. pc'[c] = "save_score"
      BY <2>1, <2>3 DEF NextScoreStep
    <3>5. /\ Remaining(c) = 2 * Cardinality(todo[c]) - 1
          /\ Remaining(c)' = 2 * (Cardinality(todo[c]) - 1)
      BY <2>1, <3>2, <3>4 DEF Remaining
    <3>6. Stage(pc'[c]) = Stage(pc[c])
      BY <2>1, <3>4 DEF Stage
    <3> QED
      BY <2>3, <3>2, <3>3, <3>4, <3>5, <3>6 DEF Closer
  <2> QED
    BY <2>2, <2>3
<1> QED
  BY <1>1, <1>2, <1>3

LEMMA StepIsCloser ==
  ASSUME TypeInv, ReadsInv, LoopInv, NEW c \in Calls, Step(c)
  PROVE  /\ Closer(c)
         /\ pc'[c] = "save_score" => todo'[c] # {}
         /\ pc'[c] = "publish_score" =>
              \E s \in scores' : s.by = c /\ s.dim \in todo'[c]
<1>1. CASE ComputeScores(c) \/ SaveScore(c) \/ PublishScore(c)
  BY <1>1, LoopSteps
<1>2. CASE ~(ComputeScores(c) \/ SaveScore(c) \/ PublishScore(c))
  <2>1. CASE \/ SaveTest(c) \/ SaveNewRun(c) \/ PublishStarted(c) \/ SaveResult(c)
             \/ PublishResults(c) \/ SaveEvidence(c) \/ PublishEvidence(c)
             \/ PublishReport(c) \/ SaveReport(c)
    <3>1. /\ Stage(pc'[c]) < Stage(pc[c])
          /\ pc'[c] \notin {"save_score", "publish_score"}
      BY <2>1 DEF SaveTest, SaveNewRun, PublishStarted, SaveResult, SaveReport,
         PublishResults, SaveEvidence, PublishEvidence, PublishReport, Goto,
         Stage, TypeInv, TypeOK
    <3> QED
      BY <3>1 DEF Closer
  <2>2. CASE LoadMissing(c) \/ LoadRefused(c) \/ LoadRun(c)
    <3>1. /\ pc[c] = "load"
          /\ pc'[c] \in {"not_found", "conflict", "save_result", "save_run",
                         "read_scores", "read_results"}
      BY <2>2 DEF LoadMissing, LoadRefused, LoadRun, Goto, Fail, AfterLoad,
         TypeInv, TypeOK
    <3> QED
      BY <3>1 DEF Closer, Stage
  <2>3. CASE \/ ReadResultsToEnd(c) \/ ReadResultsRefused(c) \/ ReadResultsToReport(c)
             \/ SaveRun(c) \/ AnnounceCompleted(c) \/ AnnounceFailed(c)
             \/ ReadScoresToReport(c) \/ ReadScoresToAnswer(c)
    <3>1. /\ Stage(pc'[c]) < Stage(pc[c])
          /\ pc'[c] \notin {"save_score", "publish_score"}
      BY <2>3 DEF ReadResultsToEnd, ReadResultsRefused, ReadResultsToReport,
         SaveRun, AnnounceCompleted, AnnounceFailed, ReadScoresToReport,
         ReadScoresToAnswer, Goto, Fail, Stage, TypeInv, TypeOK
    <3> QED
      BY <3>1 DEF Closer
  <2> QED
    BY <1>2, <2>1, <2>2, <2>3 DEF Step
<1> QED
  BY <1>1, <1>2

(* The other steps: a call in flight stays where it is, or is aborted.     *)
LEMMA OthersLeaveCall ==
  ASSUME TypeInv, [Next]_vars, NEW d \in Calls, ~Step(d), pc[d] \in InFlight
  PROVE  \/ pc'[d] = pc[d] /\ todo'[d] = todo[d]
         \/ pc'[d] = "aborted"
<1>1. ASSUME NEW c \in Calls, Step(c)
      PROVE  pc'[d] = pc[d] /\ todo'[d] = todo[d]
  BY <1>1, StepIsLocal
<1>2. ASSUME NEW c \in Calls, Request(c)
      PROVE  pc'[d] = pc[d] /\ todo'[d] = todo[d]
  <2>1. PICK request : Accept(c, request)
    BY <1>2, RequestIsWellFormed
  <2> QED
    BY <2>1 DEF Accept, Goto, TypeInv, TypeOK
<1>3. CASE (\E c \in Calls : Abort(c)) \/ \E rep \in Replicas : Crash(rep)
  BY <1>3, FaultIsLocal
<1>4. CASE Quiet \/ UNCHANGED vars
  BY <1>4 DEF Quiet, vars
<1> QED
  BY <1>1, <1>2, <1>3, <1>4 DEF Next

(* Scores are never taken back.                                            *)
LEMMA ScoresGrow ==
  ASSUME TypeInv, [Next]_vars
  PROVE  scores \subseteq scores'
<1>1. ASSUME NEW c \in Calls, Step(c) PROVE scores \subseteq scores'
  BY <1>1 DEF Step, SaveTest, SaveNewRun, PublishStarted, LoadMissing,
     LoadRefused, LoadRun, SaveResult, ReadResultsToEnd, ReadResultsRefused,
     SaveRun, AnnounceCompleted, AnnounceFailed, ComputeScores, SaveScore,
     PublishScore, PublishResults, SaveEvidence, PublishEvidence,
     ReadResultsToReport, ReadScoresToReport, ReadScoresToAnswer, SaveReport,
     PublishReport, store
<1>2. (\A c \in Calls : ~Step(c)) => scores' = scores
  BY RequestIsWellFormed, FaultIsLocal DEF Next, Accept, Quiet, vars, store
<1> QED
  BY <1>1, <1>2

LEMMA NextKeepsLoop ==
  ASSUME TypeInv, TypeInv', ReadsInv, LoopInv, [Next]_vars
  PROVE  LoopInv'
<1> SUFFICES ASSUME NEW d \in Calls
             PROVE  /\ pc'[d] = "save_score" => todo'[d] # {}
                    /\ pc'[d] = "publish_score" =>
                         \E s \in scores' : s.by = d /\ s.dim \in todo'[d]
  BY DEF LoopInv
<1>1. CASE Step(d)
  BY <1>1, StepIsCloser
<1>2. CASE ~Step(d) /\ pc[d] \in InFlight
  BY <1>2, OthersLeaveCall, ScoresGrow DEF LoopInv
<1>3. CASE ~Step(d) /\ pc[d] \notin InFlight
  <2>1. ASSUME NEW c \in Calls, Step(c) PROVE pc'[d] = pc[d]
    BY <1>3, <2>1, StepIsLocal
  <2>2. ASSUME NEW c \in Calls, Request(c)
        PROVE  pc'[d] = pc[d] \/ pc'[d] \notin {"save_score", "publish_score"}
    <3>1. PICK request : Accept(c, request)
      BY <2>2, RequestIsWellFormed
    <3> QED
      BY <3>1 DEF Accept, Goto, FirstStep, TypeInv, TypeOK
  <2>3. ASSUME (\E c \in Calls : Abort(c)) \/ \E rep \in Replicas : Crash(rep)
        PROVE  pc'[d] = pc[d]
    BY <1>3, <2>3, FaultIsLocal
  <2>4. ASSUME Quiet \/ UNCHANGED vars PROVE pc'[d] = pc[d]
    BY <2>4 DEF Quiet, vars
  <2>5. pc'[d] = pc[d] \/ pc'[d] \notin {"save_score", "publish_score"}
    BY <2>1, <2>2, <2>3, <2>4 DEF Next
  <2> QED
    BY <1>3, <2>5
<1> QED
  BY <1>1, <1>2, <1>3

LEMMA LoopInvariant == Spec => [](TypeInv /\ ReadsInv /\ LoopInv)
<1>1. Init => LoopInv
  BY DEF Init, LoopInv
<1>2. TypeInv /\ TypeInv' /\ ReadsInv /\ LoopInv /\ [Next]_vars => LoopInv'
  BY NextKeepsLoop
<1> QED
  BY <1>1, <1>2, ReadsInvariant, PTL DEF Spec

LEMMA InFlightCanStep ==
  ASSUME TypeInv, LoopInv, NEW c \in Calls, pc[c] \in InFlight
  PROVE  CanStep(c)
<1>1. CASE pc[c] \in Unguarded
  BY <1>1 DEF CanStep
<1>2. CASE pc[c] = "load"
  BY <1>2 DEF CanStep
<1>3. CASE pc[c] \in {"read_results", "announce_end", "read_scores"}
  BY <1>3 DEF CanStep, TypeInv, OnPath, PathOf, Operations
<1>4. CASE pc[c] \in {"save_score", "publish_score"}
  BY <1>4 DEF CanStep, LoopInv
<1>5. CASE pc[c] = "save_report"
  BY <1>5, ScorecardExists DEF CanStep
<1> QED
  BY <1>1, <1>2, <1>3, <1>4, <1>5 DEF Unguarded

(* A call in flight has a step whose guard holds, whatever the other calls *)
(* did to the store since its last one: none waits for another call, and   *)
(* there is no deadlock (bench_service.py, every operation).               *)
THEOREM CallsCanStep ==
  Spec => [](\A c \in Calls : pc[c] \in InFlight => CanStep(c))
<1>1. TypeInv /\ LoopInv => \A c \in Calls : pc[c] \in InFlight => CanStep(c)
  BY InFlightCanStep
<1> QED
  BY <1>1, LoopInvariant, PTL

(* Every step of a call brings it closer to its answer, and no other step  *)
(* takes a call back: with n dimensions to score complete_run takes at     *)
(* most 2n steps between its scores and its answer, even while other calls *)
(* add results, scores and events of the same run (bench_service.py,       *)
(* complete_run).                                                          *)
THEOREM CallsGetCloser ==
  Spec => [][\A c \in Calls :
               /\ Step(c) => Closer(c)
               /\ pc[c] \in InFlight =>
                    \/ pc'[c] = pc[c] /\ todo'[c] = todo[c]
                    \/ Closer(c)]_vars
<1>1. ASSUME TypeInv, ReadsInv, LoopInv, [Next]_vars, NEW c \in Calls
      PROVE  /\ Step(c) => Closer(c)
             /\ pc[c] \in InFlight =>
                  \/ pc'[c] = pc[c] /\ todo'[c] = todo[c]
                  \/ Closer(c)
  <2>1. Step(c) => Closer(c)
    BY <1>1, StepIsCloser
  <2>2. ASSUME pc[c] \in InFlight, pc'[c] = "aborted" PROVE Closer(c)
    <3>1. Stage(pc[c]) \in 1 .. 7
      BY <2>2 DEF Stage
    <3>2. Stage(pc'[c]) = 0
      BY <2>2 DEF Stage
    <3> QED
      BY <3>1, <3>2 DEF Closer
  <2>3. ~Step(c) /\ pc[c] \in InFlight =>
          \/ pc'[c] = pc[c] /\ todo'[c] = todo[c]
          \/ pc'[c] = "aborted"
    BY <1>1, OthersLeaveCall
  <2> QED
    BY <2>1, <2>2, <2>3
<1>2. TypeInv /\ ReadsInv /\ LoopInv /\ [Next]_vars =>
        \A c \in Calls :
          /\ Step(c) => Closer(c)
          /\ pc[c] \in InFlight =>
               \/ pc'[c] = pc[c] /\ todo'[c] = todo[c]
               \/ Closer(c)
  BY <1>1
<1>3. Spec => [][Next]_vars
  BY DEF Spec
<1> QED
  BY <1>2, <1>3, LoopInvariant, PTL

-----------------------------------------------------------------------------
(* Why a completed run is reported.  CompletedIsReported is a property of  *)
(* fair behaviours without faults; this is its safety half.                *)

RunReported(r) == \E e \in published : e.topic = "bench_results" /\ e.run = r

(* A completion of run r that has ended the run it holds and has not yet   *)
(* reported it, or was cut short.                                          *)
Completing(c, r) ==
  /\ req[c].op = "complete_run" /\ req[c].run = r
  /\ loaded[c] = "completed"
  /\ pc[c] \in Saved \cup {"aborted"}

CompletionTraced ==
  \A r \in Runs : runs[r] = "completed" =>
    RunReported(r) \/ \E c \in Calls : Completing(c, r)

(* Only an exception or a crash cuts a call short.                         *)
CutShortByFault == Faults = {} => \A c \in Calls : pc[c] # "aborted"

(* A completion stays until it reports, and its run with it.               *)
LEMMA CompletingStays ==
  ASSUME TypeInv, [Next]_vars, NEW c \in Calls, NEW r \in Runs, Completing(c, r)
  PROVE  Completing(c, r)' \/ RunReported(r)'
<1>1. CASE Step(c)
  <2>1. req' = req /\ pc[c] \in Saved
    BY <1>1, StepIsLocal DEF Completing
  <2>2. CASE PublishResults(c)
    <3>1. ResultsEvent(c).topic = "bench_results" /\ ResultsEvent(c).run = r
      BY DEF ResultsEvent, Completing
    <3>2. ResultsEvent(c) \in published'
      BY <2>2 DEF PublishResults
    <3> QED
      BY <3>1, <3>2 DEF RunReported
  <2>3. CASE ~PublishResults(c)
    <3>1. \/ AnnounceCompleted(c) \/ ComputeScores(c) \/ SaveScore(c)
          \/ PublishScore(c)
      BY <1>1, <2>1, <2>3 DEF Completing, Saved, Step, SaveTest, SaveNewRun,
         PublishStarted, LoadMissing, LoadRefused, LoadRun, SaveResult,
         ReadResultsToEnd, ReadResultsRefused, SaveRun, AnnounceFailed,
         SaveEvidence, PublishEvidence, ReadResultsToReport,
         ReadScoresToReport, ReadScoresToAnswer, SaveReport, PublishReport
    <3>2. pc'[c] \in Saved /\ loaded' = loaded
      BY <3>1 DEF AnnounceCompleted, ComputeScores, SaveScore, PublishScore,
         Goto, NextScoreStep, locals, Saved, TypeInv, TypeOK
    <3> QED
      BY <2>1, <3>2 DEF Completing
  <2> QED
    BY <2>2, <2>3
<1>2. ASSUME NEW d \in Calls \ {c}, Step(d) PROVE Completing(c, r)'
  BY <1>2, StepIsLocal DEF Completing
<1>3. ASSUME NEW d \in Calls, Request(d) PROVE Completing(c, r)'
  <2>1. PICK request : Accept(d, request)
    BY <1>3, RequestIsWellFormed
  <2>2. pc[c] # "idle"
    BY DEF Completing, Saved
  <2> QED
    BY <2>1, <2>2 DEF Accept, Goto, Completing, TypeInv, TypeOK
<1>4. ASSUME (\E d \in Calls : Abort(d)) \/ \E rep \in Replicas : Crash(rep)
      PROVE  Completing(c, r)'
  BY <1>4, FaultIsLocal DEF Completing
<1>5. CASE Quiet \/ UNCHANGED vars
  BY <1>5 DEF Quiet, vars, Completing
<1> QED
  BY <1>1, <1>2, <1>3, <1>4, <1>5 DEF Next

(* Only save_run completes a run, for a call that goes on to report it.    *)
LEMMA CompletedBySaveRun ==
  ASSUME TypeInv, [Next]_vars, NEW r \in Runs,
         runs[r] # "completed", runs'[r] = "completed"
  PROVE  \E c \in Calls : Completing(c, r)'
<1>1. PICK c \in Calls : Step(c) /\ runs' # runs
  BY RequestIsWellFormed, FaultIsLocal DEF Next, Accept, Quiet, vars, store
<1>2. SaveNewRun(c) \/ SaveRun(c)
  BY <1>1 DEF Step, SaveTest, PublishStarted, LoadMissing, LoadRefused,
     LoadRun, SaveResult, ReadResultsToEnd, ReadResultsRefused,
     AnnounceCompleted, AnnounceFailed, ComputeScores, SaveScore,
     PublishScore, PublishResults, SaveEvidence, PublishEvidence,
     ReadResultsToReport, ReadScoresToReport, ReadScoresToAnswer,
     SaveReport, PublishReport, store
<1>3. SaveRun(c)
  BY <1>2 DEF SaveNewRun, TypeInv, TypeOK
<1>4. /\ runs' = [runs EXCEPT ![req[c].run] = loaded[c]]
      /\ loaded[c] = EndStatus(req[c].op)
      /\ req[c].op \in {"complete_run", "fail_run"}
      /\ pc'[c] = "announce_end"
      /\ req' = req /\ loaded' = loaded
  BY <1>3 DEF SaveRun, StatusSaved, Goto, locals, TypeInv, TypeOK,
     Arguments, OnPath, PathOf, Operations
<1>5. req[c].run = r /\ req[c].op = "complete_run" /\ loaded[c] = "completed"
  BY <1>4 DEF EndStatus, TypeInv, TypeOK
<1> QED
  BY <1>4, <1>5 DEF Completing, Saved

LEMMA NextKeepsTrace ==
  ASSUME TypeInv, CompletionTraced, [Next]_vars
  PROVE  CompletionTraced'
<1> SUFFICES ASSUME NEW r \in Runs, runs'[r] = "completed"
             PROVE  RunReported(r)' \/ \E c \in Calls : Completing(c, r)'
  BY DEF CompletionTraced
<1>1. CASE runs[r] # "completed"
  BY <1>1, CompletedBySaveRun
<1>2. CASE runs[r] = "completed" /\ RunReported(r)
  BY <1>2, StreamGrows DEF RunReported
<1>3. CASE runs[r] = "completed" /\ \E c \in Calls : Completing(c, r)
  BY <1>3, CompletingStays
<1> QED
  BY <1>1, <1>2, <1>3 DEF CompletionTraced

LEMMA NextCutsByFault ==
  ASSUME TypeInv, CutShortByFault, [Next]_vars
  PROVE  CutShortByFault'
<1> SUFFICES ASSUME Faults = {}, NEW d \in Calls PROVE pc'[d] # "aborted"
  BY DEF CutShortByFault
<1>1. pc[d] # "aborted"
  BY DEF CutShortByFault
<1>2. ASSUME NEW c \in Calls, Step(c) PROVE pc'[d] # "aborted"
  <2>1. CASE d # c
    BY <1>1, <1>2, <2>1, StepIsLocal
  <2>2. CASE d = c
    BY <1>2, <2>2 DEF Step, SaveTest, SaveNewRun, PublishStarted, LoadMissing,
       LoadRefused, LoadRun, SaveResult, ReadResultsToEnd, ReadResultsRefused,
       SaveRun, AnnounceCompleted, AnnounceFailed, ComputeScores, SaveScore,
       PublishScore, PublishResults, SaveEvidence, PublishEvidence,
       ReadResultsToReport, ReadScoresToReport, ReadScoresToAnswer, SaveReport,
       PublishReport, Goto, Fail, AfterLoad, NextScoreStep, TypeInv, TypeOK
  <2> QED
    BY <2>1, <2>2
<1>3. ASSUME NEW c \in Calls, Request(c) PROVE pc'[d] # "aborted"
  <2>1. PICK request : Accept(c, request)
    BY <1>3, RequestIsWellFormed
  <2> QED
    BY <1>1, <2>1 DEF Accept, Goto, FirstStep, TypeInv, TypeOK
<1>4. (\A c \in Calls : ~Abort(c)) /\ \A rep \in Replicas : ~Crash(rep)
  BY DEF Abort, Crash
<1>5. CASE Quiet \/ UNCHANGED vars
  BY <1>1, <1>5 DEF Quiet, vars
<1> QED
  BY <1>2, <1>3, <1>4, <1>5 DEF Next

LEMMA TraceInvariant ==
  Spec => [](TypeInv /\ LoopInv /\ CompletionTraced /\ CutShortByFault)
<1>1. Init => CompletionTraced /\ CutShortByFault
  BY DEF Init, CompletionTraced, CutShortByFault
<1>2. TypeInv /\ CompletionTraced /\ CutShortByFault /\ [Next]_vars
        => (CompletionTraced /\ CutShortByFault)'
  BY NextKeepsTrace, NextCutsByFault
<1> QED
  BY <1>1, <1>2, LoopInvariant, PTL DEF Spec

(* A run the store has as completed has its bench.results, or a completion *)
(* of its own that is past save_run and will publish it, or one an         *)
(* exception or a crash has cut short: no other way loses the report       *)
(* (bench_service.py, complete_run).                                       *)
THEOREM CompletionsTraced == Spec => []CompletionTraced
BY TraceInvariant, PTL

(* Without faults the report of a completed run is published or on its     *)
(* way: a call past save_run has a step whose guard holds, and each of its *)
(* steps brings it closer (CallsGetCloser), the last one to bench.results  *)
(* (bench_service.py, complete_run).                                       *)
THEOREM ReportOnItsWay ==
  ASSUME Faults = {}
  PROVE  Spec => [](\A r \in Runs : runs[r] = "completed" =>
                      \/ RunReported(r)
                      \/ \E c \in Calls : /\ req[c].op = "complete_run"
                                          /\ req[c].run = r
                                          /\ pc[c] \in Saved /\ CanStep(c))
<1>1. ASSUME TypeInv, LoopInv, NEW c \in Calls, pc[c] \in Saved
      PROVE  CanStep(c)
  BY <1>1, InFlightCanStep DEF Saved
<1>2. TypeInv /\ LoopInv /\ CompletionTraced /\ CutShortByFault =>
        \A r \in Runs : runs[r] = "completed" =>
          \/ RunReported(r)
          \/ \E c \in Calls : /\ req[c].op = "complete_run"
                              /\ req[c].run = r
                              /\ pc[c] \in Saved /\ CanStep(c)
  BY <1>1 DEF CompletionTraced, CutShortByFault, Completing
<1> QED
  BY <1>2, TraceInvariant, PTL

-----------------------------------------------------------------------------
(* Liveness.  The fairness of a call is stated with the guard of its step  *)
(* where WF has ENABLED; FairnessOfTheGuard relates the two.               *)

GuardFair(c) == []([]CanStep(c) => <><<Step(c)>>_vars)

GuardEnables(c) == [](CanStep(c) => ENABLED <<Step(c)>>_vars)

Answered(c) == pc[c] \in Answers

InLoop(c) == pc[c] \in {"save_score", "publish_score"}

(* Outside the loop, with at most n labels to go.                          *)
Outside(c, n) == pc[c] \in InFlight /\ ~InLoop(c) /\ Stage(pc[c]) <= n

Other(c) == pc[c] \in InFlight /\ req[c].op # "complete_run"

(* A step outside the loop goes on to a lower label, or into the loop.     *)
LEMMA StepGoesDown ==
  ASSUME TypeInv, NEW c \in Calls, Step(c), ~InLoop(c)
  PROVE  Stage(pc'[c]) < Stage(pc[c]) /\ pc'[c] \in InFlight \cup Answers
<1>1. CASE \/ SaveTest(c) \/ SaveNewRun(c) \/ PublishStarted(c) \/ SaveResult(c)
           \/ PublishResults(c) \/ SaveEvidence(c) \/ PublishEvidence(c)
           \/ PublishReport(c) \/ SaveReport(c)
  BY <1>1 DEF SaveTest, SaveNewRun, PublishStarted, SaveResult, SaveReport,
     PublishResults, SaveEvidence, PublishEvidence, PublishReport, Goto,
     Stage, TypeInv, TypeOK
<1>2. CASE LoadMissing(c) \/ LoadRefused(c) \/ LoadRun(c)
  <2>1. /\ pc[c] = "load"
        /\ pc'[c] \in {"not_found", "conflict", "save_result", "save_run",
                       "read_scores", "read_results"}
    BY <1>2 DEF LoadMissing, LoadRefused, LoadRun, Goto, Fail, AfterLoad,
       TypeInv, TypeOK
  <2> QED
    BY <2>1 DEF Stage
<1>3. CASE \/ ReadResultsToEnd(c) \/ ReadResultsRefused(c) \/ ReadResultsToReport(c)
           \/ SaveRun(c) \/ AnnounceCompleted(c) \/ AnnounceFailed(c)
           \/ ReadScoresToReport(c) \/ ReadScoresToAnswer(c)
  BY <1>3 DEF ReadResultsToEnd, ReadResultsRefused, ReadResultsToReport,
     SaveRun, AnnounceCompleted, AnnounceFailed, ReadScoresToReport,
     ReadScoresToAnswer, Goto, Fail, Stage, TypeInv, TypeOK
<1>4. CASE ComputeScores(c)
  <2>1. pc[c] = "compute" /\ pc'[c] \in {"publish_results", "save_score"}
    BY <1>4 DEF ComputeScores, Goto, NextScoreStep, TypeInv, TypeOK
  <2> QED
    BY <2>1 DEF Stage
<1>5. ~(SaveScore(c) \/ PublishScore(c))
  BY DEF SaveScore, PublishScore, InLoop
<1> QED
  BY <1>1, <1>2, <1>3, <1>4, <1>5 DEF Step

LEMMA OutsideGetsCloser ==
  ASSUME TypeInv, [Next]_vars, NEW c \in Calls, NEW n \in Nat, Outside(c, n)
  PROVE  /\ Outside(c, n)' \/ InLoop(c)' \/ Answered(c)'
         /\ Step(c) => Outside(c, n - 1)' \/ InLoop(c)' \/ Answered(c)'
<1>1. Stage(pc[c]) \in 0 .. 7
  BY DEF Stage
<1>2. CASE Step(c)
  <2>1. Stage(pc'[c]) < Stage(pc[c]) /\ pc'[c] \in InFlight \cup Answers
    BY <1>2, StepGoesDown DEF Outside
  <2>2. Stage(pc'[c]) \in 0 .. 7
    BY DEF Stage
  <2>3. Stage(pc'[c]) <= n - 1 /\ Stage(pc'[c]) <= n
    BY <1>1, <2>1, <2>2 DEF Outside
  <2> QED
    BY <2>1, <2>3 DEF Outside, InLoop, Answered
<1>3. CASE ~Step(c)
  <2>1. pc'[c] = pc[c] \/ pc'[c] = "aborted"
    BY <1>3, OthersLeaveCall DEF Outside
  <2> QED
    BY <1>3, <2>1 DEF Outside, InLoop, Answered
<1> QED
  BY <1>2, <1>3

LEMMA OtherStaysOther ==
  ASSUME TypeInv, [Next]_vars, NEW c \in Calls, Other(c)
  PROVE  Other(c)' \/ ~(pc'[c] \in InFlight)
<1>1. ASSUME NEW d \in Calls, Step(d) PROVE req'[c] = req[c]
  BY <1>1, StepIsLocal
<1>2. ASSUME NEW d \in Calls, Request(d) PROVE req'[c] = req[c]
  <2>1. PICK request : Accept(d, request)
    BY <1>2, RequestIsWellFormed
  <2>2. d # c
    BY <2>1 DEF Accept, Other
  <2> QED
    BY <2>1, <2>2 DEF Accept, TypeInv, TypeOK
<1>3. CASE (\E d \in Calls : Abort(d)) \/ \E rep \in Replicas : Crash(rep)
  BY <1>3 DEF Abort, Crash, locals, Other
<1>4. CASE Quiet \/ UNCHANGED vars
  BY <1>4 DEF Quiet, vars, Other
<1>5. CASE req'[c] = req[c]
  BY <1>5 DEF Other
<1> QED
  BY <1>1, <1>2, <1>3, <1>4, <1>5 DEF Next

LEMMA StepInLoop ==
  ASSUME NEW c \in Calls, Step(c), InLoop(c)
  PROVE  SaveScore(c) \/ PublishScore(c)
BY DEF InLoop, Step, SaveTest, SaveNewRun, PublishStarted, LoadMissing,
   LoadRefused, LoadRun, SaveResult, ReadResultsToEnd, ReadResultsRefused,
   SaveRun, AnnounceCompleted, AnnounceFailed, ComputeScores, PublishResults,
   SaveEvidence, PublishEvidence, ReadResultsToReport, ReadScoresToReport,
   ReadScoresToAnswer, SaveReport, PublishReport

(* The loop, from one step to the next: the steps left shrink, or the loop *)
(* is over and bench.results is next.                                      *)
LEMMA LoopGetsCloser ==
  ASSUME TypeInv, ReadsInv, LoopInv, [Next]_vars, NEW c \in Calls, InLoop(c)
  PROVE  /\ Step(c) => \/ InLoop(c)' /\ 0 <= Remaining(c)' /\ Remaining(c)' < Remaining(c)
                       \/ pc'[c] = "publish_results"
         /\ ~Step(c) => \/ pc'[c] = pc[c] /\ Remaining(c)' = Remaining(c)
                        \/ Answered(c)'
<1>1. CASE Step(c)
  <2>1. SaveScore(c) \/ PublishScore(c)
    BY <1>1, StepInLoop
  <2>2. pc'[c] \in {"save_score", "publish_score", "publish_results"}
    BY <2>1 DEF SaveScore, PublishScore, NextScoreStep, Goto, TypeInv, TypeOK
  <2>3. Closer(c)
    BY <1>1, StepIsCloser
  <2> QED
    BY <1>1, <2>2, <2>3 DEF Closer, InLoop, Stage
<1>2. CASE ~Step(c)
  <2>1. \/ pc'[c] = pc[c] /\ todo'[c] = todo[c]
        \/ pc'[c] = "aborted"
    BY <1>2, OthersLeaveCall DEF InLoop
  <2> QED
    BY <1>2, <2>1 DEF Remaining, Answered
<1> QED
  BY <1>1, <1>2

(* A call outside the loop is answered or gets into it, which only a       *)
(* completion does.                                                        *)
Arrives(c) ==
  /\ pc[c] \in InFlight ~> Answered(c) \/ InLoop(c)
  /\ Other(c) ~> Answered(c)

LEMMA OneCallArrives ==
  ASSUME NEW c \in Calls
  PROVE  Spec /\ GuardFair(c) => Arrives(c)
<1> DEFINE InF == pc[c] \in InFlight
<1>1. TypeInv /\ [Next]_vars /\ Outside(c, 7) =>
        /\ Outside(c, 7)' \/ InLoop(c)' \/ Answered(c)'
        /\ Step(c) => Outside(c, 6)' \/ InLoop(c)' \/ Answered(c)'
  BY OutsideGetsCloser
<1>2. TypeInv /\ [Next]_vars /\ Outside(c, 6) =>
        /\ Outside(c, 6)' \/ InLoop(c)' \/ Answered(c)'
        /\ Step(c) => Outside(c, 5)' \/ InLoop(c)' \/ Answered(c)'
  BY OutsideGetsCloser
<1>3. TypeInv /\ [Next]_vars /\ Outside(c, 5) =>
        /\ Outside(c, 5)' \/ InLoop(c)' \/ Answered(c)'
        /\ Step(c) => Outside(c, 4)' \/ InLoop(c)' \/ Answered(c)'
  BY OutsideGetsCloser
<1>4. TypeInv /\ [Next]_vars /\ Outside(c, 4) =>
        /\ Outside(c, 4)' \/ InLoop(c)' \/ Answered(c)'
        /\ Step(c) => Outside(c, 3)' \/ InLoop(c)' \/ Answered(c)'
  BY OutsideGetsCloser
<1>5. TypeInv /\ [Next]_vars /\ Outside(c, 3) =>
        /\ Outside(c, 3)' \/ InLoop(c)' \/ Answered(c)'
        /\ Step(c) => Outside(c, 2)' \/ InLoop(c)' \/ Answered(c)'
  BY OutsideGetsCloser
<1>6. TypeInv /\ [Next]_vars /\ Outside(c, 2) =>
        /\ Outside(c, 2)' \/ InLoop(c)' \/ Answered(c)'
        /\ Step(c) => Outside(c, 1)' \/ InLoop(c)' \/ Answered(c)'
  BY OutsideGetsCloser
<1>7. TypeInv /\ [Next]_vars /\ Outside(c, 1) =>
        /\ Outside(c, 1)' \/ InLoop(c)' \/ Answered(c)'
        /\ Step(c) => Outside(c, 0)' \/ InLoop(c)' \/ Answered(c)'
  BY OutsideGetsCloser
<1>8. ~Outside(c, 0) /\ (InF => Outside(c, 7) \/ InLoop(c))
  BY DEF Outside, Stage
<1>9. TypeInv /\ LoopInv /\ InF => CanStep(c)
  BY InFlightCanStep
<1>10. Outside(c, 7) \/ Outside(c, 6) \/ Outside(c, 5) \/ Outside(c, 4)
         \/ Outside(c, 3) \/ Outside(c, 2) \/ Outside(c, 1) => InF
  BY DEF Outside
<1>11. TypeInv /\ [Next]_vars /\ Other(c) => Other(c)' \/ ~InF'
  BY OtherStaysOther
<1>12. TypeInv /\ Other(c) => InF /\ ~InLoop(c)
  BY DEF TypeInv, OnPath, PathOf, Operations, Other, InLoop
<1>13. InLoop(c) => InF
  BY DEF InLoop
<1>14. Spec => [][Next]_vars
  BY DEF Spec
<1>15. Spec => [](TypeInv /\ LoopInv)
  BY LoopInvariant, PTL
<1> HIDE DEF InF
<1>16. Spec /\ GuardFair(c) => /\ InF ~> Answered(c) \/ InLoop(c)
                               /\ Other(c) ~> Answered(c)
  BY <1>1, <1>2, <1>3, <1>4, <1>5, <1>6, <1>7, <1>8, <1>9, <1>10, <1>11, <1>12,
     <1>13, <1>14, <1>15, PTL DEF GuardFair
<1> QED
  BY <1>16, PTL DEF Arrives, InF

(* In the loop with n steps to go, and not more.                           *)
Loops(c, n) == InLoop(c) /\ Remaining(c) = n

LoopsLess(c, n) == InLoop(c) /\ 0 <= Remaining(c) /\ Remaining(c) < n

LoopsOn(c, n) == Loops(c, n) ~> Answered(c) \/ LoopsLess(c, n)

LEMMA OneCallLoops ==
  ASSUME NEW c \in Calls, NEW n \in Nat
  PROVE  Spec /\ GuardFair(c) => LoopsOn(c, n)
<1> DEFINE Last == pc[c] = "publish_results"
<1>1. TypeInv /\ ReadsInv /\ LoopInv /\ [Next]_vars /\ Loops(c, n) =>
        /\ Loops(c, n)' \/ LoopsLess(c, n)' \/ Last' \/ Answered(c)'
        /\ Step(c) => LoopsLess(c, n)' \/ Last'
  BY LoopGetsCloser DEF Loops, LoopsLess, InLoop
<1>2. TypeInv /\ [Next]_vars /\ Last =>
        /\ Last' \/ Answered(c)'
        /\ Step(c) => Answered(c)'
  <2>1. ASSUME TypeInv, [Next]_vars, Last, Step(c) PROVE Answered(c)'
    <3>1. Stage(pc'[c]) < 1 /\ pc'[c] \in InFlight \cup Answers
      BY <2>1, StepGoesDown DEF InLoop, Stage
    <3> QED
      BY <3>1 DEF Stage, Answered
  <2>2. ASSUME TypeInv, [Next]_vars, Last, ~Step(c) PROVE Last' \/ Answered(c)'
    BY <2>2, OthersLeaveCall DEF Answered
  <2> QED
    BY <2>1, <2>2
<1>3. TypeInv /\ LoopInv /\ (Last \/ Loops(c, n)) => CanStep(c)
  BY InFlightCanStep DEF Loops, InLoop
<1>4. Spec => [][Next]_vars
  BY DEF Spec
<1> HIDE DEF Last
<1> QED
  BY <1>1, <1>2, <1>3, <1>4, LoopInvariant, PTL DEF GuardFair, LoopsOn

(* EveryCallAnswered of every call but a completion; a completion is       *)
(* answered or gets to its loop over the scores, and there, with n steps   *)
(* to go, is answered or has less than n to go.  What is left to           *)
(* EveryCallAnswered is the induction on n (bench_service.py).             *)
THEOREM CallsAreAnswered ==
  Spec /\ (\A c \in Calls : GuardFair(c)) =>
    \A c \in Calls : Arrives(c) /\ \A n \in Nat : LoopsOn(c, n)
<1>1. ASSUME NEW c \in Calls
      PROVE  Spec /\ GuardFair(c) => Arrives(c)
  BY OneCallArrives
<1>2. ASSUME NEW c \in Calls, NEW n \in Nat
      PROVE  Spec /\ GuardFair(c) => LoopsOn(c, n)
  BY OneCallLoops
<1> QED
  BY <1>1, <1>2

LEMMA FairnessOfTheGuard ==
  ASSUME NEW c \in Calls
  PROVE  Fair(c) /\ GuardEnables(c) => GuardFair(c)
<1> QED
  BY PTL DEF Fair, GuardEnables, GuardFair

(* What the same comes to for a completion past save_run.                  *)
CutShort(c) == pc[c] = "aborted"

Reports(c, r) ==
  Completing(c, r) ~> RunReported(r) \/ CutShort(c) \/ (Completing(c, r) /\ InLoop(c))

ReportsFrom(c, r, n) ==
  Completing(c, r) /\ Loops(c, n)
    ~> RunReported(r) \/ CutShort(c) \/ (Completing(c, r) /\ LoopsLess(c, n))

LEMMA OneCompletionReports ==
  ASSUME NEW c \in Calls, NEW r \in Runs, NEW n \in Nat
  PROVE  Spec /\ GuardFair(c) => Reports(c, r) /\ ReportsFrom(c, r, n)
<1> DEFINE InF == pc[c] \in InFlight
<1>1. TypeInv /\ [Next]_vars /\ Completing(c, r) => Completing(c, r)' \/ RunReported(r)'
  BY CompletingStays
<1>2. Completing(c, r) => InF \/ CutShort(c)
  BY DEF Completing, Saved, CutShort
<1>3. Completing(c, r) /\ Answered(c) => CutShort(c)
  BY DEF Completing, Saved, CutShort, Answered
<1>4. Spec => [][Next]_vars
  BY DEF Spec
<1>5. Spec => []TypeInv
  BY LoopInvariant, PTL
<1>6. Spec /\ GuardFair(c) => (InF ~> Answered(c) \/ InLoop(c))
  BY OneCallArrives, PTL DEF Arrives
<1> HIDE DEF InF
<1>7. Spec /\ GuardFair(c) => Reports(c, r)
  BY <1>1, <1>2, <1>3, <1>4, <1>5, <1>6, PTL DEF Reports
<1>8. Spec /\ GuardFair(c) => ReportsFrom(c, r, n)
  BY <1>1, <1>3, <1>4, <1>5, OneCallLoops, PTL DEF ReportsFrom, LoopsOn
<1> QED
  BY <1>7, <1>8

(* CompletedIsReported, but for the same induction: a completion past      *)
(* save_run reports its run, is cut short by a fault, or gets to the loop; *)
(* and in the loop, with n steps to go, it reports, is cut short, or has   *)
(* less than n to go (bench_service.py, complete_run).                     *)
THEOREM CompletionsReport ==
  Spec /\ (\A c \in Calls : GuardFair(c)) =>
    \A c \in Calls, r \in Runs : Reports(c, r) /\ \A n \in Nat : ReportsFrom(c, r, n)
<1>1. ASSUME NEW c \in Calls, NEW r \in Runs, NEW n \in Nat
      PROVE  Spec /\ GuardFair(c) => Reports(c, r) /\ ReportsFrom(c, r, n)
  BY OneCompletionReports
<1>2. 0 \in Nat
  OBVIOUS
<1> QED
  BY <1>1, <1>2

(* A call in flight does not get closer for ever: Closer lowers two        *)
(* numbers in lexicographic order, and no step raises them                 *)
(* (CallsGetCloser).  The induction this needs is over data; with it, the  *)
(* two properties of calls and completions hold as they stand.             *)
NoDescent(c) == <>[][~(pc[c] \in InFlight /\ Closer(c))]_vars

AnsweredInTheEnd(c) == pc[c] \in InFlight ~> pc[c] \in Answers

LEMMA InFlightOrAnswered ==
  ASSUME TypeInv, [Next]_vars, NEW c \in Calls, pc[c] \in InFlight
  PROVE  pc'[c] \in InFlight \/ Answered(c)'
<1>1. CASE Step(c) /\ ~InLoop(c)
  BY <1>1, StepGoesDown DEF Answered
<1>2. CASE Step(c) /\ InLoop(c)
  <2>1. SaveScore(c) \/ PublishScore(c)
    BY <1>2, StepInLoop
  <2> QED
    BY <2>1 DEF SaveScore, PublishScore, NextScoreStep, Goto, TypeInv, TypeOK
<1>3. CASE ~Step(c)
  BY <1>3, OthersLeaveCall DEF Answered
<1> QED
  BY <1>1, <1>2, <1>3

LEMMA OneCallIsAnswered ==
  ASSUME NEW c \in Calls
  PROVE  Spec /\ GuardFair(c) /\ NoDescent(c) => AnsweredInTheEnd(c)
<1> DEFINE InF == pc[c] \in InFlight
<1>1. TypeInv /\ [Next]_vars /\ InF => InF' \/ Answered(c)'
  BY InFlightOrAnswered
<1>2. TypeInv /\ LoopInv /\ InF => CanStep(c)
  BY InFlightCanStep
<1>3. TypeInv /\ ReadsInv /\ LoopInv /\ Step(c) => InF /\ Closer(c)
  BY StepIsCloser, StepIsLocal
<1>4. Spec => [][Next]_vars
  BY DEF Spec
<1>5. Spec /\ GuardFair(c) /\ NoDescent(c) => (InF ~> Answered(c))
  BY <1>1, <1>2, <1>3, <1>4, LoopInvariant, PTL DEF GuardFair, NoDescent, InF
<1> QED
  BY <1>5, PTL DEF AnsweredInTheEnd, InF, Answered

(* EveryCallAnswered, for any number of calls, runs and dimensions and     *)
(* whatever fails (bench_service.py, every operation).                     *)
THEOREM CallsEnd ==
  Spec /\ (\A c \in Calls : GuardFair(c) /\ NoDescent(c)) => EveryCallAnswered
<1>1. ASSUME NEW c \in Calls
      PROVE  Spec /\ GuardFair(c) /\ NoDescent(c) => AnsweredInTheEnd(c)
  BY OneCallIsAnswered
<1>2. (\A c \in Calls : AnsweredInTheEnd(c)) => EveryCallAnswered
  BY DEF EveryCallAnswered, AnsweredInTheEnd
<1> QED
  BY <1>1, <1>2

(* The completion that the trace of a completed run leads to reports it.   *)
ServiceRuns ==
  [][Next]_vars /\ [](TypeInv /\ ReadsInv /\ LoopInv /\ CompletionTraced /\ CutShortByFault)

CallFair(c) == GuardFair(c) /\ NoDescent(c)

ReportsSoon(c, r) == Completing(c, r) => <>RunReported(r)

ReportedInTheEnd(r) ==
  runs[r] = "completed" ~> \E e \in published : e.topic = "bench_results" /\ e.run = r

LEMMA CompletionReportsSoon ==
  ASSUME Faults = {}, NEW c \in Calls, NEW r \in Runs
  PROVE  ServiceRuns /\ CallFair(c) => ReportsSoon(c, r)
<1> DEFINE InF == pc[c] \in InFlight
<1>1. TypeInv /\ [Next]_vars /\ Completing(c, r) => Completing(c, r)' \/ RunReported(r)'
  BY CompletingStays
<1>2. CutShortByFault /\ Completing(c, r) => InF
  BY DEF Completing, Saved, CutShortByFault
<1>3. TypeInv /\ LoopInv /\ InF => CanStep(c)
  BY InFlightCanStep
<1>4. TypeInv /\ ReadsInv /\ LoopInv /\ Step(c) => InF /\ Closer(c)
  BY StepIsCloser, StepIsLocal
<1>5. ServiceRuns /\ CallFair(c) => (Completing(c, r) => <>RunReported(r))
  BY <1>1, <1>2, <1>3, <1>4, PTL DEF ServiceRuns, CallFair, GuardFair, NoDescent, InF
<1> QED
  BY <1>5, PTL DEF ReportsSoon

(* CompletedIsReported, without faults, for any number of calls and runs   *)
(* (bench_service.py, complete_run).  The fairness of all calls stands     *)
(* under one box, which says the same.                                     *)
THEOREM CompletionsAreReported ==
  ASSUME Faults = {}
  PROVE  Spec /\ [](\A c \in Calls : CallFair(c)) => CompletedIsReported
<1>1. ASSUME NEW r \in Runs
      PROVE  Spec /\ [](\A c \in Calls : CallFair(c)) => ReportedInTheEnd(r)
  <2> DEFINE Complete == runs[r] = "completed"
  <2>1. CompletionTraced => (Complete => RunReported(r) \/ \E c \in Calls : Completing(c, r))
    BY DEF CompletionTraced
  <2>2. ServiceRuns => (Complete => RunReported(r) \/ \E c \in Calls : Completing(c, r))
    BY <2>1, PTL DEF ServiceRuns
  <2>3. ASSUME NEW c \in Calls
        PROVE  ServiceRuns /\ CallFair(c) => (Completing(c, r) => <>RunReported(r))
    BY CompletionReportsSoon DEF ReportsSoon
  <2>4. ServiceRuns /\ (\A c \in Calls : CallFair(c)) =>
          (Complete => RunReported(r) \/ <>RunReported(r))
    BY <2>2, <2>3
  <2>5. Spec => ServiceRuns
    BY LoopInvariant, TraceInvariant, PTL DEF Spec, ServiceRuns
  <2> HIDE DEF Complete
  <2>6. Spec /\ [](\A c \in Calls : CallFair(c)) => (Complete ~> RunReported(r))
    BY <2>4, <2>5, PTL DEF ServiceRuns
  <2> QED
    BY <2>6, PTL DEF ReportedInTheEnd, RunReported, Complete
<1>2. (\A r \in Runs : ReportedInTheEnd(r)) => CompletedIsReported
  BY DEF CompletedIsReported, ReportedInTheEnd
<1> QED
  BY <1>1, <1>2
=============================================================================
