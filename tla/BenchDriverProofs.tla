------------------------- MODULE BenchDriverProofs -------------------------
(***************************************************************************)
(* A run driven by one client, one call at a time (OneDriver), ends once,  *)
(* keeps the results it ended with, gives back the scorecard it published, *)
(* and so implements the ledger of runs (RunLedger), whatever else the     *)
(* other calls do and whatever fails.  TypeInvariant, ReadsInvariant,      *)
(* EventsFollowed and ScoresBacked are what these proofs start from.       *)
(***************************************************************************)
EXTENDS BenchReadsProofs

\* The labels and statuses are plain sets of strings.
USE DEF Absent, Status, Ended, RunRows, StoreSteps, PublishSteps, InFlight, Answers

Base == TypeInv /\ ReadsInv /\ EventsFollowStore /\ ScoresAreStored

LEMMA BaseInvariant == Spec => []Base
BY TypeInvariant, ReadsInvariant, EventsFollowed, ScoresBacked, PTL DEF Base

-----------------------------------------------------------------------------
(* What the driver of a run knows.                                         *)

EndsOf(r) == {e \in published : e.topic = "run_completed" /\ e.run = r}
VerdictsOf(r) == {e \in published : e.topic = "bench_results" /\ e.run = r}

(* A run has at most one driver.                                           *)
Alone ==
  \A c, d \in Calls : \A r : Driving(c, r) /\ Driving(d, r) => c = d

(* A call that has found its run open and has not saved its end.           *)
BeforeEnd(c) ==
  \/ pc[c] \in {"save_result", "save_run"}
  \/ /\ pc[c] = "read_results" /\ req[c].op = "complete_run"
     /\ loaded[c] = "started"

(* Until its driver saves the end a run is open; from then on the store    *)
(* has the driver's status and the rows it has read, and the end is        *)
(* announced once.                                                         *)
Ending(c) ==
  LET r == req[c].run IN
  /\ BeforeEnd(c) => runs[r] = "started"
  /\ pc[c] \in Saved => runs[r] = loaded[c] /\ VerdictsOf(r) = {}
  /\ pc[c] \in {"save_run"} \cup Saved /\ req[c].op = "complete_run" =>
       seen[c] = RowsOf(r)
  /\ pc[c] = "announce_end" => EndsOf(r) = {}
  /\ pc[c] \in Saved \ {"announce_end"} => EndsOf(r) # {}

(* In the loop over the scores, each dimension of the rows has its row or  *)
(* is still to do, and none has both but the one about to be published.    *)
Looping(c) ==
  LET mine == ScoreRowsOf(req[c].run) IN
  /\ pc[c] \in {"announce_end", "compute"} => mine = {}
  /\ pc[c] = "save_score" => \A s \in mine : s.dim \notin todo[c]
  /\ pc[c] = "publish_score" =>
       \A s, t \in mine : s.dim \in todo[c] /\ t.dim \in todo[c] => s.dim = t.dim
  /\ pc[c] \in {"save_score", "publish_score", "publish_results"} =>
       \A d \in Dimensions(catalog, seen[c]) :
         \/ pc[c] # "publish_results" /\ d \in todo[c]
         \/ \E s \in mine : s.dim = d

(* A score is the value of its dimension in all the rows of its run.       *)
ScoreExact(s) ==
  LET rows == RowsOf(s.run) IN
  /\ pc[s.by] # "idle" /\ s.run = req[s.by].run
  /\ s.dim \in Dimensions(catalog, rows)
  /\ s.value = ValueOf(Under(catalog, rows, s.dim))

ScoresExact == \A s \in scores : ScoreExact(s)

(* A verdict has the scorecard of all the rows of its run, each dimension  *)
(* of which is in the store.                                               *)
VerdictExact(e) ==
  /\ e.card = ScoresOf(catalog, RowsOf(e.run))
  /\ \A d \in DOMAIN e.card : \E s \in ScoreRowsOf(e.run) : s.dim = d

VerdictsExact ==
  \A e \in published : e.topic = "bench_results" => VerdictExact(e)

(* A call that has stored its result is over.                              *)
SavedOnce == \A row \in results : pc[row.by] \in Answers

DriverInv ==
  /\ Alone
  /\ \A c \in Calls : Ending(c) /\ Looping(c)
  /\ ScoresExact /\ VerdictsExact /\ SavedOnce /\ EndsOnce

-----------------------------------------------------------------------------
(* What a step changes.                                                    *)

LEMMA StepEffects ==
  ASSUME NEW c \in Calls, Step(c)
  PROVE  /\ catalog' # catalog => SaveTest(c)
         /\ runs' # runs => SaveNewRun(c) \/ SaveRun(c)
         /\ results' # results => SaveResult(c)
         /\ scores' # scores => SaveScore(c)
BY DEF Step, SaveTest, SaveNewRun, PublishStarted, LoadMissing, LoadRefused,
   LoadRun, SaveResult, ReadResultsToEnd, ReadResultsRefused, SaveRun,
   AnnounceCompleted, AnnounceFailed, ComputeScores, SaveScore, PublishScore,
   PublishResults, SaveEvidence, PublishEvidence, ReadResultsToReport,
   ReadScoresToReport, ReadScoresToAnswer, SaveReport, PublishReport, store

(* A call past its load, with a run it may end or add to, drives it.       *)
LEMMA ActiveDrives ==
  ASSUME TypeInv, NEW c \in Calls, BeforeEnd(c) \/ pc[c] \in Saved
  PROVE  /\ Driving(c, req[c].run)
         /\ req[c].run \in Runs
         /\ runs[req[c].run] \in Status
<1>1. pc[c] \in Found
  BY DEF BeforeEnd, Found
<1>2. req[c].op \in Lifecycle
  BY DEF TypeInv, OnPath, PathOf, Operations, BeforeEnd, Saved, Lifecycle
<1> QED
  BY <1>1, <1>2 DEF TypeInv, Arguments, Driving, Found, Saved

(* What the store and the stream say of a run.                             *)
SameRun(r) ==
  /\ runs'[r] = runs[r]
  /\ RowsOf(r)' = RowsOf(r) /\ ScoreRowsOf(r)' = ScoreRowsOf(r)
  /\ EndsOf(r)' = EndsOf(r) /\ VerdictsOf(r)' = VerdictsOf(r)

(* Only its driver changes what the store and the stream say of a run.     *)
LEMMA OnlyTheDriver ==
  ASSUME TypeInv, NEW c \in Calls, Step(c), NEW r \in Runs,
         runs[r] \in Status, ~Driving(c, r)
  PROVE  SameRun(r)
<1>1. BeforeEnd(c) \/ pc[c] \in Saved => req[c].run # r
  BY ActiveDrives
<1>2. runs'[r] = runs[r]
  <2>1. CASE SaveNewRun(c)
    BY <2>1 DEF SaveNewRun, TypeInv, TypeOK, Fresh
  <2>2. CASE SaveRun(c)
    BY <1>1, <2>2 DEF SaveRun, StatusSaved, BeforeEnd, TypeInv, TypeOK
  <2> QED
    BY <2>1, <2>2, StepEffects
<1>3. RowsOf(r)' = RowsOf(r)
  <2>1. CASE SaveResult(c)
    <3>1. req[c].run # r
      BY <1>1, <2>1 DEF SaveResult, BeforeEnd
    <3> QED
      BY <2>1, <3>1 DEF SaveResult, RowsOf
  <2> QED
    BY <2>1, StepEffects DEF RowsOf
<1>4. ScoreRowsOf(r)' = ScoreRowsOf(r)
  <2>1. CASE SaveScore(c)
    <3>1. req[c].run # r
      BY <1>1, <2>1 DEF SaveScore, Saved
    <3>2. PICK d : scores' = scores \cup {ScoreOf(c, d)}
      BY <2>1 DEF SaveScore
    <3>3. ScoreOf(c, d).run # r
      BY <3>1 DEF ScoreOf
    <3> QED
      BY <3>2, <3>3 DEF ScoreRowsOf
  <2> QED
    BY <2>1, StepEffects DEF ScoreRowsOf
<1>5. EndsOf(r)' = EndsOf(r)
  <2>1. ASSUME NEW e \in published' \ published, e.topic = "run_completed"
        PROVE  e.run # r
    <3>1. pc[c] = "announce_end"
      BY <2>1, StepPublishes DEF AnnounceCompleted, AnnounceFailed
    <3>2. e = EndEvent(c)
      BY <2>1, NewEndEvents
    <3> QED
      BY <1>1, <3>1, <3>2 DEF EndEvent, Saved
  <2> QED
    BY <2>1, StepPublishes DEF EndsOf
<1>6. VerdictsOf(r)' = VerdictsOf(r)
  <2>1. ASSUME NEW e \in published' \ published, e.topic = "bench_results"
        PROVE  e.run # r
    <3>1. PublishResults(c)
      BY <2>1, StepPublishes
    <3>2. e = ResultsEvent(c) /\ pc[c] = "publish_results"
      BY <2>1, <3>1 DEF PublishResults
    <3> QED
      BY <1>1, <3>2 DEF ResultsEvent, Saved
  <2> QED
    BY <2>1, StepPublishes DEF VerdictsOf
<1> QED
  BY <1>2, <1>3, <1>4, <1>5, <1>6 DEF SameRun

(* A run that ended keeps its status and its results.                      *)
LEMMA EndedStays ==
  ASSUME TypeInv, DriverInv, NEW c \in Calls, Step(c), NEW r \in Runs,
         runs[r] \in Ended
  PROVE  runs'[r] = runs[r] /\ RowsOf(r)' = RowsOf(r)
<1>1. BeforeEnd(c) => req[c].run # r
  BY DEF DriverInv, Ending
<1>2. runs'[r] = runs[r]
  <2>1. CASE SaveNewRun(c)
    BY <2>1 DEF SaveNewRun, TypeInv, TypeOK, Fresh
  <2>2. CASE SaveRun(c)
    BY <1>1, <2>2 DEF SaveRun, StatusSaved, BeforeEnd, TypeInv, TypeOK
  <2> QED
    BY <2>1, <2>2, StepEffects
<1>3. RowsOf(r)' = RowsOf(r)
  <2>1. CASE SaveResult(c)
    <3>1. req[c].run # r
      BY <1>1, <2>1 DEF SaveResult, BeforeEnd
    <3> QED
      BY <2>1, <3>1 DEF SaveResult, RowsOf
  <2> QED
    BY <2>1, StepEffects DEF RowsOf
<1> QED
  BY <1>2, <1>3

(* The dimensions and the groups of stored rows do not change.             *)
LEMMA GroupsFixed ==
  ASSUME TypeInv, TypeInv', ReadsInv, CatalogKept, NEW rows,
         rows \subseteq results
  PROVE  /\ Dimensions(catalog', rows) = Dimensions(catalog, rows)
         /\ \A d : Under(catalog', rows, d) = Under(catalog, rows, d)
         /\ ScoresOf(catalog', rows) = ScoresOf(catalog, rows)
<1>1. \A row \in rows :
        CategoryOf(catalog, row.test) = CategoryOf(catalog', row.test)
  BY CategoriesFixed DEF ReadsInv
<1> QED
  BY <1>1, SameCategories

-----------------------------------------------------------------------------
(* One call at a time.                                                     *)

(* A call in which nothing changes, on a run in which nothing changes.     *)
LEMMA SameCallKeeps ==
  ASSUME Base, Base', CatalogKept, NEW d \in Calls, Ending(d), Looping(d),
         req'[d] = req[d], pc'[d] = pc[d], loaded'[d] = loaded[d],
         seen'[d] = seen[d], todo'[d] = todo[d],
         req[d].run \in Runs /\ runs[req[d].run] \in Status
           /\ Driving(d, req[d].run) => SameRun(req[d].run)
  PROVE  Ending(d)' /\ Looping(d)'
<1>1. CASE BeforeEnd(d) \/ pc[d] \in Saved
  <2>1. SameRun(req[d].run)
    BY <1>1, ActiveDrives DEF Base
  <2>2. seen[d] \subseteq results
    BY DEF Base, ReadsInv, Snapshot, RowsOf
  <2>3. Dimensions(catalog, seen[d])' = Dimensions(catalog, seen[d])
    BY <2>2, GroupsFixed DEF Base
  <2>4. Ending(d)'
    BY <2>1 DEF Ending, BeforeEnd, SameRun
  <2>5. Looping(d)'
    BY <2>1, <2>3 DEF Looping, SameRun
  <2> QED
    BY <2>4, <2>5
<1>2. CASE ~(BeforeEnd(d) \/ pc[d] \in Saved)
  BY <1>2 DEF Ending, Looping, BeforeEnd, Saved
<1> QED
  BY <1>1, <1>2

(* A call away from the labels the invariant speaks of.                    *)
LEMMA AwayIsFine ==
  ASSUME NEW d \in Calls,
         pc'[d] \notin {"save_result", "save_run", "read_results"} \cup Saved
  PROVE  Ending(d)' /\ Looping(d)'
BY DEF Ending, Looping, BeforeEnd, Saved

(* The actions that leave a call away from these labels.                   *)
LEMMA StepGoesAway ==
  ASSUME TypeInv, NEW c \in Calls, Step(c),
         ~LoadRun(c), ~ReadResultsToEnd(c), ~SaveRun(c), ~AnnounceCompleted(c),
         ~ComputeScores(c), ~SaveScore(c), ~PublishScore(c)
  PROVE  pc'[c] \notin {"save_result", "save_run", "read_results"} \cup Saved
BY DEF Step, SaveTest, SaveNewRun, PublishStarted, LoadMissing, LoadRefused,
   SaveResult, ReadResultsRefused, AnnounceFailed, PublishResults,
   SaveEvidence, PublishEvidence, ReadResultsToReport, ReadScoresToReport,
   ReadScoresToAnswer, SaveReport, PublishReport, Goto, Fail, Saved, TypeInv,
   TypeOK

(* An open run has no end, no verdict and no score.                        *)
LEMMA OpenRunIsBare ==
  ASSUME Base, NEW r \in Runs, runs[r] = "started"
  PROVE  EndsOf(r) = {} /\ VerdictsOf(r) = {} /\ ScoreRowsOf(r) = {}
<1>1. \A s \in scores : runs[s.run] \in Ended
  BY DEF Base, ScoresAreStored
<1>2. \A e \in published :
        e.topic \in {"run_completed", "bench_results"} => runs[e.run] \in Ended
  <2>1. \A e \in published : Backed(e)
    BY EventsAreBacked DEF Base
  <2> QED
    BY <2>1 DEF Backed
<1> QED
  BY <1>1, <1>2 DEF EndsOf, VerdictsOf, ScoreRowsOf

LEMMA LoadKeepsCall ==
  ASSUME Base, NEW c \in Calls, LoadRun(c)
  PROVE  Ending(c)' /\ Looping(c)'
<1>1. /\ req' = req /\ runs' = runs
      /\ pc'[c] = AfterLoad(req[c].op)
      /\ loaded'[c] = IF req[c].op = "fail_run" THEN "failed" ELSE runs[req[c].run]
      /\ req[c].op \in NeedsOpenRun => runs[req[c].run] = "started"
      /\ req[c].op \in Operations /\ "load" \in PathOf(req[c].op)
  BY DEF LoadRun, Goto, StillOpen, EndStatus, store, Base, TypeInv, TypeOK, OnPath
<1>2. pc'[c] \in {"save_result", "save_run", "read_results", "read_scores"}
  BY <1>1 DEF AfterLoad
<1>3. pc'[c] = "save_run" => req[c].op = "fail_run"
  BY <1>1 DEF AfterLoad
<1>4. BeforeEnd(c)' => runs'[req'[c].run] = "started"
  BY <1>1 DEF BeforeEnd, AfterLoad, NeedsOpenRun
<1> QED
  BY <1>1, <1>2, <1>3, <1>4 DEF Ending, Looping, Saved

LEMMA ReadKeepsCall ==
  ASSUME Base, NEW c \in Calls, Ending(c), ReadResultsToEnd(c)
  PROVE  Ending(c)' /\ Looping(c)'
<1>1. /\ req' = req /\ runs' = runs /\ results' = results
      /\ pc[c] = "read_results" /\ pc'[c] = "save_run"
      /\ req[c].op = "complete_run" /\ loaded[c] = "started"
      /\ seen'[c] = RowsOf(req[c].run)
  BY DEF ReadResultsToEnd, StillOpen, Goto, store, Base, TypeInv, TypeOK
<1>2. runs[req[c].run] = "started"
  BY <1>1 DEF Ending, BeforeEnd
<1>3. RowsOf(req[c].run)' = RowsOf(req[c].run)
  BY <1>1 DEF RowsOf
<1> QED
  BY <1>1, <1>2, <1>3 DEF Ending, Looping, Saved

LEMMA SaveRunKeepsCall ==
  ASSUME Base, NEW c \in Calls, Ending(c), SaveRun(c)
  PROVE  Ending(c)' /\ Looping(c)'
<1> DEFINE r == req[c].run
<1>1. /\ UNCHANGED <<req, results, scores, published, seen, loaded>>
      /\ runs' = [runs EXCEPT ![r] = loaded[c]]
      /\ pc[c] = "save_run" /\ pc'[c] = "announce_end"
  BY DEF SaveRun, StatusSaved, Goto, locals, Base, TypeInv, TypeOK
<1>2. r \in Runs /\ runs[r] = "started"
  BY <1>1, ActiveDrives DEF Ending, BeforeEnd, Base
<1>3. EndsOf(r) = {} /\ VerdictsOf(r) = {} /\ ScoreRowsOf(r) = {}
  BY <1>2, OpenRunIsBare
<1>4. /\ EndsOf(r)' = {} /\ VerdictsOf(r)' = {} /\ ScoreRowsOf(r)' = {}
      /\ RowsOf(r)' = RowsOf(r)
  BY <1>1, <1>3 DEF EndsOf, VerdictsOf, ScoreRowsOf, RowsOf
<1>5. runs'[r] = loaded[c]
  BY <1>1, <1>2 DEF Base, TypeInv, TypeOK
<1>6. req[c].op = "complete_run" => seen[c] = RowsOf(r)
  BY <1>1 DEF Ending
<1> QED
  BY <1>1, <1>4, <1>5, <1>6 DEF Ending, Looping, Saved, BeforeEnd

LEMMA AnnounceKeepsCall ==
  ASSUME Base, NEW c \in Calls, Ending(c), Looping(c), AnnounceCompleted(c)
  PROVE  Ending(c)' /\ Looping(c)'
<1> DEFINE r == req[c].run
<1>1. /\ UNCHANGED <<req, runs, results, scores, seen, loaded>>
      /\ published' = published \cup {EndEvent(c)}
      /\ pc[c] = "announce_end" /\ pc'[c] = "compute"
  BY DEF AnnounceCompleted, Goto, locals, store, Base, TypeInv, TypeOK
<1>2. /\ EndEvent(c).topic = "run_completed" /\ EndEvent(c).run = r
  BY DEF EndEvent
<1>3. EndsOf(r)' # {} /\ VerdictsOf(r)' = VerdictsOf(r)
  BY <1>1, <1>2 DEF EndsOf, VerdictsOf
<1>4. ScoreRowsOf(r)' = ScoreRowsOf(r) /\ RowsOf(r)' = RowsOf(r)
  BY <1>1 DEF ScoreRowsOf, RowsOf
<1>5. /\ runs[r] = loaded[c] /\ VerdictsOf(r) = {} /\ ScoreRowsOf(r) = {}
      /\ req[c].op = "complete_run" => seen[c] = RowsOf(r)
  BY <1>1 DEF Ending, Looping, Saved
<1> QED
  BY <1>1, <1>3, <1>4, <1>5 DEF Ending, Looping, Saved, BeforeEnd

(* The three steps of the loop leave the end and the rows alone.           *)
LEMMA LoopKeepsEnding ==
  ASSUME NEW c \in Calls, Ending(c), pc[c] \in Saved \ {"announce_end"},
         pc'[c] \in Saved \ {"announce_end"},
         UNCHANGED <<req, runs, results, loaded, seen>>,
         EndsOf(req[c].run)' = EndsOf(req[c].run),
         VerdictsOf(req[c].run)' = VerdictsOf(req[c].run)
  PROVE  Ending(c)'
<1>1. RowsOf(req[c].run)' = RowsOf(req[c].run)
  BY DEF RowsOf
<1> QED
  BY <1>1 DEF Ending, BeforeEnd, Saved

LEMMA ComputeKeepsCall ==
  ASSUME Base, NEW c \in Calls, Ending(c), Looping(c), ComputeScores(c)
  PROVE  Ending(c)' /\ Looping(c)'
<1> DEFINE r == req[c].run
           dims == Dimensions(catalog, seen[c])
<1>1. /\ UNCHANGED <<req, catalog, runs, results, scores, published, seen, loaded>>
      /\ pc[c] = "compute" /\ pc'[c] = NextScoreStep(dims)
      /\ todo'[c] = dims
  BY DEF ComputeScores, Goto, store, Base, TypeInv, TypeOK
<1>2. /\ dims = {} => pc'[c] = "publish_results"
      /\ dims # {} => pc'[c] = "save_score"
  BY <1>1 DEF NextScoreStep
<1>3. Ending(c)'
  <2>1. EndsOf(r)' = EndsOf(r) /\ VerdictsOf(r)' = VerdictsOf(r)
    BY <1>1 DEF EndsOf, VerdictsOf
  <2> QED
    BY <1>1, <1>2, <2>1, LoopKeepsEnding DEF Saved
<1>4. Looping(c)'
  <2>1. ScoreRowsOf(r) = {} /\ ScoreRowsOf(r)' = {}
    BY <1>1 DEF Looping, ScoreRowsOf
  <2> HIDE DEF dims
  <2>2. dims' = dims
    BY <1>1 DEF dims
  <2> QED
    BY <1>1, <1>2, <2>1, <2>2 DEF Looping, dims
<1> QED
  BY <1>3, <1>4

LEMMA SaveScoreKeepsCall ==
  ASSUME Base, NEW c \in Calls, Ending(c), Looping(c), SaveScore(c)
  PROVE  Ending(c)' /\ Looping(c)'
<1> DEFINE r == req[c].run
           dims == Dimensions(catalog, seen[c])
<1>1. PICK d \in todo[c] :
        /\ scores' = scores \cup {ScoreOf(c, d)}
        /\ UNCHANGED <<req, catalog, runs, results, published, seen, loaded, todo>>
        /\ pc[c] = "save_score" /\ pc'[c] = "publish_score"
  BY DEF SaveScore, Goto, locals, Base, TypeInv, TypeOK
<1>2. Ending(c)'
  <2>1. EndsOf(r)' = EndsOf(r) /\ VerdictsOf(r)' = VerdictsOf(r)
    BY <1>1 DEF EndsOf, VerdictsOf
  <2> QED
    BY <1>1, <2>1, LoopKeepsEnding DEF Saved
<1>3. ScoreRowsOf(r)' = ScoreRowsOf(r) \cup {ScoreOf(c, d)}
  <2>1. ScoreOf(c, d).run = r
    BY DEF ScoreOf
  <2> QED
    BY <1>1, <2>1 DEF ScoreRowsOf
<1>4. ScoreOf(c, d).dim = d
  BY DEF ScoreOf
<1>5. /\ \A s \in ScoreRowsOf(r) : s.dim \notin todo[c]
      /\ \A x \in dims : x \in todo[c] \/ \E s \in ScoreRowsOf(r) : s.dim = x
  BY <1>1 DEF Looping
<1>6. /\ \A s \in ScoreRowsOf(r)' : s.dim \in todo[c] => s.dim = d
      /\ \A x \in dims : x \in todo[c] \/ \E s \in ScoreRowsOf(r)' : s.dim = x
  BY <1>3, <1>4, <1>5
<1>7. dims' = dims
  BY <1>1
<1> HIDE DEF dims
<1>8. Looping(c)'
  BY <1>1, <1>6, <1>7 DEF Looping, dims
<1> QED
  BY <1>2, <1>8

LEMMA PublishScoreKeepsCall ==
  ASSUME Base, ScoresExact, NEW c \in Calls, Ending(c), Looping(c),
         PublishScore(c)
  PROVE  Ending(c)' /\ Looping(c)'
<1> DEFINE r == req[c].run
           dims == Dimensions(catalog, seen[c])
<1>1. PICK s \in scores :
        /\ s.by = c /\ s.dim \in todo[c]
        /\ published' = published \cup
             {[topic |-> "score_published", by |-> c, run |-> s.run,
               dim |-> s.dim, value |-> s.value]}
        /\ UNCHANGED <<req, catalog, runs, results, scores, seen, loaded>>
        /\ todo'[c] = todo[c] \ {s.dim}
        /\ pc[c] = "publish_score"
        /\ pc'[c] = NextScoreStep(todo[c] \ {s.dim})
  BY DEF PublishScore, Goto, store, Base, TypeInv, TypeOK
<1>2. /\ todo'[c] = {} => pc'[c] = "publish_results"
      /\ todo'[c] # {} => pc'[c] = "save_score"
  BY <1>1 DEF NextScoreStep
<1>3. Ending(c)'
  <2>1. EndsOf(r)' = EndsOf(r) /\ VerdictsOf(r)' = VerdictsOf(r)
    BY <1>1 DEF EndsOf, VerdictsOf
  <2> QED
    BY <1>1, <1>2, <2>1, LoopKeepsEnding DEF Saved
<1>4. s \in ScoreRowsOf(r)
  BY <1>1 DEF ScoresExact, ScoreExact, ScoreRowsOf
<1>5. ScoreRowsOf(r)' = ScoreRowsOf(r) /\ dims' = dims
  BY <1>1 DEF ScoreRowsOf
<1>6. /\ \A t \in ScoreRowsOf(r) : t.dim \in todo[c] => t.dim = s.dim
      /\ \A x \in dims : x \in todo[c] \/ \E t \in ScoreRowsOf(r) : t.dim = x
  BY <1>1, <1>4 DEF Looping
<1>7. /\ \A t \in ScoreRowsOf(r) : t.dim \notin todo'[c]
      /\ \A x \in dims : x \in todo'[c] \/ \E t \in ScoreRowsOf(r) : t.dim = x
  BY <1>1, <1>4, <1>6
<1> HIDE DEF dims
<1>8. req'[c].run = r /\ pc'[c] \in {"save_score", "publish_results"}
  BY <1>1, <1>2
<1>9. pc'[c] = "publish_results" => todo'[c] = {}
  BY <1>2
<1>10. Looping(c)'
  BY <1>5, <1>7, <1>8, <1>9 DEF Looping, dims
<1> QED
  BY <1>3, <1>10

(* One step per action that keeps its call in the invariant's reach; of    *)
(* the other calls only those that drive the same run could notice.        *)
LEMMA StepKeepsCalls ==
  ASSUME Base, Base', DriverInv, NEW c \in Calls, Step(c)
  PROVE  \A d \in Calls : Ending(d)' /\ Looping(d)'
<1>1. Ending(c)' /\ Looping(c)'
  <2>1. Ending(c) /\ Looping(c) /\ ScoresExact /\ TypeInv
    BY DEF DriverInv, Base
  <2>2. CASE LoadRun(c)
    BY <2>2, LoadKeepsCall
  <2>3. CASE ReadResultsToEnd(c)
    BY <2>1, <2>3, ReadKeepsCall
  <2>4. CASE SaveRun(c)
    BY <2>1, <2>4, SaveRunKeepsCall
  <2>5. CASE AnnounceCompleted(c)
    BY <2>1, <2>5, AnnounceKeepsCall
  <2>6. CASE ComputeScores(c)
    BY <2>1, <2>6, ComputeKeepsCall
  <2>7. CASE SaveScore(c)
    BY <2>1, <2>7, SaveScoreKeepsCall
  <2>8. CASE PublishScore(c)
    BY <2>1, <2>8, PublishScoreKeepsCall
  <2> QED
    BY <2>1, <2>2, <2>3, <2>4, <2>5, <2>6, <2>7, <2>8, StepGoesAway, AwayIsFine
<1>2. ASSUME NEW d \in Calls, d # c
      PROVE  Ending(d)' /\ Looping(d)'
  <2>1. /\ req'[d] = req[d] /\ pc'[d] = pc[d] /\ loaded'[d] = loaded[d]
        /\ seen'[d] = seen[d] /\ todo'[d] = todo[d]
    BY <1>2, StepIsLocal DEF Base
  <2>2. ASSUME req[d].run \in Runs, runs[req[d].run] \in Status,
               Driving(d, req[d].run)
        PROVE  SameRun(req[d].run)
    <3>1. ~Driving(c, req[d].run)
      BY <1>2, <2>2 DEF DriverInv, Alone
    <3> QED
      BY <2>2, <3>1, OnlyTheDriver DEF Base
  <2>3. Ending(d) /\ Looping(d) /\ CatalogKept
    BY StepKeepsCatalog DEF DriverInv, Base
  <2> QED
    BY <2>1, <2>2, <2>3, SameCallKeeps
<1> QED
  BY <1>1, <1>2

(* A step never makes its call drive a run it did not drive.               *)
LEMMA StepKeepsAlone ==
  ASSUME Base, DriverInv, NEW c \in Calls, Step(c)
  PROVE  Alone'
<1>1. /\ req' = req /\ pc[c] \in InFlight
      /\ \A d \in Calls \ {c} : pc'[d] = pc[d]
  BY StepIsLocal DEF Base
<1>2. \A d \in Calls : \A r : Driving(d, r)' => Driving(d, r)
  BY <1>1 DEF Driving
<1> QED
  BY <1>2 DEF DriverInv, Alone

(* A score of a run that ended stays exact.                                *)
LEMMA ExactStays ==
  ASSUME Base, Base', DriverInv, NEW c \in Calls, Step(c), NEW s \in scores
  PROVE  ScoreExact(s)'
<1> DEFINE rows == RowsOf(s.run)
<1>1. s.run \in Runs /\ s.by \in Calls
  BY DEF Base, TypeInv, TypeOK, ScoreRow
<1>2. runs[s.run] \in Ended
  BY DEF Base, ScoresAreStored
<1>3. rows' = rows
  BY <1>1, <1>2, EndedStays DEF Base
<1>4. /\ Dimensions(catalog, rows)' = Dimensions(catalog, rows)
      /\ Under(catalog, rows, s.dim)' = Under(catalog, rows, s.dim)
  <2>1. rows \subseteq results /\ CatalogKept
    BY StepKeepsCatalog DEF RowsOf, Base
  <2> HIDE DEF rows
  <2> QED
    BY <1>3, <2>1, GroupsFixed DEF Base
<1>5. pc'[s.by] # "idle" /\ req' = req
  <2>1. pc[s.by] # "idle"
    BY DEF DriverInv, ScoresExact, ScoreExact
  <2>2. pc'[c] # "idle"
    BY DEF Step, SaveTest, SaveNewRun, PublishStarted, LoadMissing, LoadRefused,
       LoadRun, SaveResult, ReadResultsToEnd, ReadResultsRefused, SaveRun,
       AnnounceCompleted, AnnounceFailed, ComputeScores, SaveScore,
       PublishScore, PublishResults, SaveEvidence, PublishEvidence,
       ReadResultsToReport, ReadScoresToReport, ReadScoresToAnswer, SaveReport,
       PublishReport, Goto, Fail, AfterLoad, NextScoreStep, Base, TypeInv, TypeOK
  <2> QED
    BY <1>1, <2>1, <2>2, StepIsLocal DEF Base
<1>6. /\ s.run = req[s.by].run
      /\ s.dim \in Dimensions(catalog, rows)
      /\ s.value = ValueOf(Under(catalog, rows, s.dim))
  BY DEF DriverInv, ScoresExact, ScoreExact
<1> HIDE DEF rows
<1> QED
  BY <1>4, <1>5, <1>6 DEF ScoreExact, rows

LEMMA StepKeepsScores ==
  ASSUME Base, Base', DriverInv, NEW c \in Calls, Step(c)
  PROVE  ScoresExact'
<1>1. SUFFICES ASSUME NEW s \in scores' \ scores PROVE ScoreExact(s)'
  BY ExactStays DEF ScoresExact
<1>2. SaveScore(c)
  BY <1>1, StepEffects
<1>3. PICK d \in todo[c] :
        /\ scores' = scores \cup {ScoreOf(c, d)}
        /\ UNCHANGED <<req, catalog, results>>
        /\ pc[c] = "save_score" /\ pc'[c] = "publish_score"
  BY <1>2 DEF SaveScore, Goto, locals, Base, TypeInv, TypeOK
<1>4. /\ s.by = c /\ s.run = req[c].run /\ s.dim = d
      /\ s.value = ValueOf(Under(catalog, seen[c], d))
  BY <1>1, <1>3 DEF ScoreOf
<1>5. seen[c] = RowsOf(req[c].run) /\ d \in Dimensions(catalog, seen[c])
  <2>1. req[c].op = "complete_run"
    BY <1>3 DEF Base, TypeInv, OnPath, PathOf, Operations
  <2> QED
    BY <1>3, <2>1 DEF DriverInv, Ending, Saved, Base, ReadsInv, ToScore
<1>6. RowsOf(req[c].run)' = RowsOf(req[c].run)
  BY <1>3 DEF RowsOf
<1> QED
  BY <1>3, <1>4, <1>5, <1>6 DEF ScoreExact

LEMMA StepKeepsVerdicts ==
  ASSUME Base, Base', DriverInv, NEW c \in Calls, Step(c)
  PROVE  VerdictsExact'
<1>1. scores \subseteq scores'
  BY StepKeepsStore DEF Base, RowsKept
<1>2. ASSUME NEW e \in published, e.topic = "bench_results"
      PROVE  VerdictExact(e)'
  <2> DEFINE rows == RowsOf(e.run)
  <2>1. e.run \in Runs
    BY <1>2 DEF Base, TypeInv, TypeOK, Events, IsResultsEvent
  <2>2. runs[e.run] \in Ended
    BY <1>2, EventsAreBacked DEF Base, Backed
  <2>3. rows' = rows
    BY <2>1, <2>2, EndedStays DEF Base
  <2>4. ScoresOf(catalog, rows)' = ScoresOf(catalog, rows)
    <3>1. rows \subseteq results /\ CatalogKept
      BY StepKeepsCatalog DEF RowsOf, Base
    <3> HIDE DEF rows
    <3> QED
      BY <2>3, <3>1, GroupsFixed DEF Base
  <2>5. /\ e.card = ScoresOf(catalog, rows)
        /\ \A d \in DOMAIN e.card : \E s \in ScoreRowsOf(e.run) : s.dim = d
    BY <1>2 DEF DriverInv, VerdictsExact, VerdictExact
  <2>6. ScoreRowsOf(e.run) \subseteq ScoreRowsOf(e.run)'
    BY <1>1 DEF ScoreRowsOf
  <2>7. \A d \in DOMAIN e.card : \E s \in ScoreRowsOf(e.run)' : s.dim = d
    BY <2>5, <2>6
  <2> HIDE DEF rows
  <2> QED
    BY <2>4, <2>5, <2>7 DEF VerdictExact, rows
<1>3. ASSUME NEW e \in published' \ published, e.topic = "bench_results"
      PROVE  VerdictExact(e)'
  <2> DEFINE r == req[c].run
  <2>1. PublishResults(c)
    BY <1>3, StepPublishes
  <2>2. /\ pc[c] = "publish_results"
        /\ published' = published \cup {ResultsEvent(c)}
        /\ UNCHANGED <<catalog, results, scores>>
    BY <2>1 DEF PublishResults, store
  <2>3. e.run = r /\ e.card = ScoresOf(catalog, seen[c])
    BY <1>3, <2>2 DEF ResultsEvent
  <2>4. seen[c] = RowsOf(r)
    <3>1. req[c].op = "complete_run"
      BY <2>2 DEF Base, TypeInv, OnPath, PathOf, Operations
    <3> QED
      BY <2>2, <3>1 DEF DriverInv, Ending, Saved
  <2>5. \A d \in Dimensions(catalog, seen[c]) : \E s \in ScoreRowsOf(r) : s.dim = d
    BY <2>2 DEF DriverInv, Looping
  <2>6. /\ RowsOf(e.run)' = RowsOf(e.run)
        /\ ScoreRowsOf(e.run)' = ScoreRowsOf(e.run)
    BY <2>2 DEF RowsOf, ScoreRowsOf
  <2>7. DOMAIN e.card = Dimensions(catalog, seen[c])
    BY <2>3 DEF ScoresOf
  <2>8. e.card = ScoresOf(catalog, RowsOf(e.run))'
    BY <2>2, <2>3, <2>4, <2>6
  <2> QED
    BY <2>3, <2>5, <2>6, <2>7, <2>8 DEF VerdictExact
<1> QED
  BY <1>2, <1>3 DEF VerdictsExact

LEMMA StepKeepsSaved ==
  ASSUME Base, DriverInv, NEW c \in Calls, Step(c)
  PROVE  SavedOnce'
<1>1. \A row \in results : pc'[row.by] \in Answers
  BY StepIsLocal DEF Base, TypeInv, TypeOK, ResultRow, DriverInv, SavedOnce
<1>2. CASE results' # results
  <2>1. SaveResult(c)
    BY <1>2, StepEffects
  <2> QED
    BY <1>1, <2>1 DEF SaveResult, Goto, SavedOnce, Base, TypeInv, TypeOK
<1> QED
  BY <1>1, <1>2 DEF SavedOnce

(* A call announces an end when there is none, with the status stored.     *)
LEMMA StepKeepsEnds ==
  ASSUME Base, DriverInv, NEW c \in Calls, Step(c)
  PROVE  EndsOnce'
<1>1. ASSUME NEW e \in published, e.topic = "run_completed"
      PROVE  e.status = runs'[e.run]
  <2>1. e.run \in Runs
    BY <1>1 DEF Base, TypeInv, TypeOK, Events, IsResultsEvent
  <2>2. runs[e.run] \in Ended
    BY <1>1, EventsAreBacked DEF Base, Backed
  <2> QED
    BY <1>1, <2>1, <2>2, EndedStays DEF Base, DriverInv, EndsOnce
<1>2. ASSUME NEW e \in published' \ published, e.topic = "run_completed"
      PROVE  /\ e = EndEvent(c) /\ e.status = runs'[e.run]
             /\ \A f \in published : ~(f.topic = "run_completed" /\ f.run = e.run)
  <2>1. e = EndEvent(c)
    BY <1>2, NewEndEvents DEF Base
  <2>2. pc[c] = "announce_end" /\ runs' = runs
    BY <1>2, StepPublishes DEF AnnounceCompleted, AnnounceFailed, store
  <2>3. e.run = req[c].run /\ e.status = loaded[c]
    BY <2>1 DEF EndEvent
  <2>4. runs[req[c].run] = loaded[c] /\ EndsOf(req[c].run) = {}
    BY <2>2 DEF DriverInv, Ending, Saved
  <2> QED
    BY <2>1, <2>2, <2>3, <2>4 DEF EndsOf
<1>3. \A e, f \in published : e.topic = "run_completed" /\ f.topic = "run_completed"
                                /\ f.run = e.run => f = e
  BY DEF DriverInv, EndsOnce
<1> QED
  BY <1>1, <1>2, <1>3 DEF EndsOnce

LEMMA StepKeepsDriverInv ==
  ASSUME Base, Base', DriverInv, NEW c \in Calls, Step(c)
  PROVE  DriverInv'
BY StepKeepsCalls, StepKeepsAlone, StepKeepsScores, StepKeepsVerdicts,
   StepKeepsSaved, StepKeepsEnds DEF DriverInv

-----------------------------------------------------------------------------
(* Requests and faults.                                                    *)

(* A call that takes a request drives a run only if nobody else does.      *)
LEMMA AcceptKeepsDriverInv ==
  ASSUME OneDriver, Base, Base', DriverInv, NEW c \in Calls, NEW request,
         WellFormed(request), Accept(c, request)
  PROVE  DriverInv'
<1>1. /\ pc[c] = "idle" /\ pc'[c] = FirstStep(request.op) /\ req'[c] = request
      /\ \A d \in Calls \ {c} : pc'[d] = pc[d] /\ req'[d] = req[d]
      /\ UNCHANGED <<catalog, runs, results, scores, published, loaded, seen, todo>>
  BY DEF Accept, Goto, store, Base, TypeInv, TypeOK
<1>2. pc'[c] \in {"save_test", "save_new_run", "save_evidence", "load"}
  BY <1>1 DEF FirstStep
<1>3. Alone'
  <2>1. request.op \in Lifecycle => \A d \in Calls : ~Driving(d, request.run)
    BY DEF WellFormed
  <2>2. \A d \in Calls \ {c} : \A r : Driving(d, r)' <=> Driving(d, r)
    BY <1>1 DEF Driving
  <2>3. \A r : Driving(c, r)' => \A d \in Calls : ~Driving(d, r)
    BY <1>1, <2>1 DEF Driving
  <2> QED
    BY <2>2, <2>3 DEF DriverInv, Alone
<1>4. ASSUME NEW d \in Calls PROVE Ending(d)' /\ Looping(d)'
  <2>1. CASE d = c
    BY <1>2, <2>1, AwayIsFine DEF Saved
  <2>2. CASE d # c
    <3>1. /\ \A r : SameRun(r)
          /\ CatalogKept
      BY <1>1 DEF SameRun, RowsOf, ScoreRowsOf, EndsOf, VerdictsOf, CatalogKept
    <3>2. Ending(d) /\ Looping(d)
      BY DEF DriverInv
    <3> QED
      BY <1>1, <2>2, <3>1, <3>2, SameCallKeeps
  <2> QED
    BY <2>1, <2>2
<1>5. ScoresExact'
  <2>1. ASSUME NEW s \in scores
        PROVE  pc'[s.by] # "idle" /\ req'[s.by] = req[s.by]
    <3>1. s.by \in Calls /\ pc[s.by] # "idle"
      BY DEF Base, TypeInv, TypeOK, ScoreRow, DriverInv, ScoresExact, ScoreExact
    <3> QED
      BY <1>1, <3>1
  <2>2. ASSUME NEW s \in scores PROVE ScoreExact(s)'
    <3>1. ScoreExact(s)
      BY DEF DriverInv, ScoresExact
    <3>2. RowsOf(s.run)' = RowsOf(s.run)
      BY <1>1 DEF RowsOf
    <3> QED
      BY <1>1, <2>1, <3>1, <3>2 DEF ScoreExact
  <2> QED
    BY <1>1, <2>2 DEF ScoresExact
<1>6. VerdictsExact'
  BY <1>1 DEF DriverInv, VerdictsExact, VerdictExact, RowsOf, ScoreRowsOf
<1>7. SavedOnce'
  <2>1. ASSUME NEW row \in results PROVE pc'[row.by] \in Answers
    <3>1. row.by \in Calls /\ pc[row.by] \in Answers
      BY DEF Base, TypeInv, TypeOK, ResultRow, DriverInv, SavedOnce
    <3> QED
      BY <1>1, <3>1
  <2> QED
    BY <1>1, <2>1 DEF SavedOnce
<1>8. EndsOnce'
  BY <1>1 DEF DriverInv, EndsOnce
<1> QED
  BY <1>3, <1>4, <1>5, <1>6, <1>7, <1>8 DEF DriverInv

(* An exception or a crash only ends calls.                                *)
LEMMA FaultKeepsDriverInv ==
  ASSUME Base, Base', DriverInv,
         \/ \E c \in Calls : Abort(c)
         \/ \E rep \in Replicas : Crash(rep)
  PROVE  DriverInv'
<1>1. /\ UNCHANGED <<catalog, runs, results, scores, published>>
      /\ UNCHANGED <<req, loaded, seen, todo>>
      /\ \A d \in Calls : \/ pc'[d] = pc[d]
                          \/ pc[d] \in InFlight /\ pc'[d] = "aborted"
  BY FaultIsLocal DEF Base, store
<1>2. Alone'
  <2>1. \A d \in Calls : \A r : Driving(d, r)' => Driving(d, r)
    BY <1>1 DEF Driving
  <2> QED
    BY <2>1 DEF DriverInv, Alone
<1>3. ASSUME NEW d \in Calls PROVE Ending(d)' /\ Looping(d)'
  <2>1. CASE pc'[d] = "aborted"
    BY <2>1, AwayIsFine DEF Saved
  <2>2. CASE pc'[d] = pc[d]
    <3>1. /\ \A r : SameRun(r)
          /\ CatalogKept
      BY <1>1 DEF SameRun, RowsOf, ScoreRowsOf, EndsOf, VerdictsOf, CatalogKept
    <3>2. Ending(d) /\ Looping(d)
      BY DEF DriverInv
    <3> QED
      BY <1>1, <2>2, <3>1, <3>2, SameCallKeeps
  <2> QED
    BY <1>1, <2>1, <2>2
<1>4. ScoresExact'
  <2>1. ASSUME NEW s \in scores PROVE ScoreExact(s)'
    <3>1. ScoreExact(s)
      BY DEF DriverInv, ScoresExact
    <3>2. s.by \in Calls
      BY DEF Base, TypeInv, TypeOK, ScoreRow
    <3>3. RowsOf(s.run)' = RowsOf(s.run)
      BY <1>1 DEF RowsOf
    <3>4. pc'[s.by] # "idle"
      BY <1>1, <3>1, <3>2 DEF ScoreExact
    <3> QED
      BY <1>1, <3>1, <3>3, <3>4 DEF ScoreExact
  <2> QED
    BY <1>1, <2>1 DEF ScoresExact
<1>5. VerdictsExact'
  BY <1>1 DEF DriverInv, VerdictsExact, VerdictExact, RowsOf, ScoreRowsOf
<1>6. SavedOnce'
  BY <1>1 DEF Base, TypeInv, TypeOK, ResultRow, DriverInv, SavedOnce
<1>7. EndsOnce'
  BY <1>1 DEF DriverInv, EndsOnce
<1> QED
  BY <1>2, <1>3, <1>4, <1>5, <1>6, <1>7 DEF DriverInv

LEMMA NextKeepsDriverInv ==
  ASSUME OneDriver, Base, Base', DriverInv, [Next]_vars
  PROVE  DriverInv'
<1>1. ASSUME NEW c \in Calls, Request(c) PROVE DriverInv'
  BY <1>1, RequestIsWellFormed, AcceptKeepsDriverInv
<1>2. ASSUME NEW c \in Calls, Step(c) PROVE DriverInv'
  BY <1>2, StepKeepsDriverInv
<1>3. ASSUME UNCHANGED vars PROVE DriverInv'
  BY <1>3 DEF vars, DriverInv, Alone, Driving, Ending, BeforeEnd, Looping,
     ScoresExact, ScoreExact, VerdictsExact, VerdictExact, SavedOnce, EndsOnce,
     RowsOf, ScoreRowsOf, EndsOf, VerdictsOf
<1> QED
  BY <1>1, <1>2, <1>3, FaultKeepsDriverInv DEF Next, Quiet

LEMMA DriverInvariant == OneDriver => (Spec => [](Base /\ DriverInv))
<1> SUFFICES ASSUME OneDriver PROVE Spec => [](Base /\ DriverInv)
  OBVIOUS
<1>1. Init => DriverInv
  BY DEF Init, DriverInv, Alone, Driving, Ending, BeforeEnd, Looping, Saved,
     ScoresExact, VerdictsExact, SavedOnce, EndsOnce
<1>2. Base /\ Base' /\ DriverInv /\ [Next]_vars => DriverInv'
  BY NextKeepsDriverInv
<1> QED
  BY <1>1, <1>2, BaseInvariant, PTL DEF Spec

-----------------------------------------------------------------------------
(* The theorems.                                                           *)

(* A run that ended keeps exactly the results it ended with (runner.py,    *)
(* "cannot add results to a completed or failed run").                     *)
THEOREM Frozen == OneDriver => (Spec => ResultsFrozen)
<1> SUFFICES ASSUME OneDriver PROVE Spec => ResultsFrozen
  OBVIOUS
<1>1. ASSUME Base, DriverInv, [Next]_vars, NEW r \in Runs, runs[r] \in Ended
      PROVE  RowsOf(r)' = RowsOf(r)
  <2>1. ASSUME NEW c \in Calls, Step(c) PROVE RowsOf(r)' = RowsOf(r)
    BY <1>1, <2>1, EndedStays DEF Base
  <2>2. (\A c \in Calls : ~Step(c)) => results' = results
    BY <1>1, RequestIsWellFormed, FaultIsLocal
       DEF Next, Accept, Quiet, vars, store, Base
  <2> QED
    BY <2>1, <2>2 DEF RowsOf
<1>2. Base /\ DriverInv /\ [Next]_vars =>
        [\A r \in Runs : runs[r] \in Ended => RowsOf(r)' = RowsOf(r)]_vars
  BY <1>1
<1>3. Spec => [](Base /\ DriverInv)
  BY DriverInvariant
<1> QED
  BY <1>2, <1>3, PTL DEF Spec, ResultsFrozen

(* A run is announced to have ended at most once, with the status the      *)
(* store holds (bench_service.py, complete_run and fail_run).              *)
THEOREM OneEnd == OneDriver => (Spec => []EndsOnce)
<1> SUFFICES ASSUME OneDriver PROVE Spec => []EndsOnce
  OBVIOUS
<1>1. Spec => [](Base /\ DriverInv)
  BY DriverInvariant
<1>2. DriverInv => EndsOnce
  BY DEF DriverInv
<1> QED
  BY <1>1, <1>2, PTL

(* The score rows of a reported run make one scorecard only, the one that  *)
(* was published, and it is that of all the results of the run             *)
(* (bench_service.py, get_scorecard; scoring.py, build_scorecard).         *)
THEOREM StoreCard == OneDriver => (Spec => []StoreReproducesCard)
<1> SUFFICES ASSUME OneDriver PROVE Spec => []StoreReproducesCard
  OBVIOUS
<1>1. ASSUME DriverInv, NEW e \in published, e.topic = "bench_results"
      PROVE  /\ Scorecards(ScoreRowsOf(e.run)) = {e.card}
             /\ e.card = ScoresOf(catalog, RowsOf(e.run))
  <2> DEFINE rows == RowsOf(e.run)
             kept == ScoreRowsOf(e.run)
             dims == {s.dim : s \in kept}
  <2>1. /\ e.card = ScoresOf(catalog, rows)
        /\ \A d \in DOMAIN e.card : \E s \in kept : s.dim = d
    BY <1>1 DEF DriverInv, VerdictsExact, VerdictExact
  <2>2. /\ DOMAIN e.card = Dimensions(catalog, rows)
        /\ e.card = [d \in DOMAIN e.card |-> e.card[d]]
        /\ \A d \in DOMAIN e.card : e.card[d] = ValueOf(Under(catalog, rows, d))
    BY <2>1 DEF ScoresOf
  <2>3. \A s \in kept : /\ s.dim \in Dimensions(catalog, rows)
                        /\ s.value = ValueOf(Under(catalog, rows, s.dim))
    BY <1>1 DEF DriverInv, ScoresExact, ScoreExact, ScoreRowsOf
  <2> HIDE DEF rows, kept
  <2>4. dims = DOMAIN e.card
    BY <2>1, <2>2, <2>3
  <2>5. \A s \in kept : s.value = e.card[s.dim]
    BY <2>2, <2>3
  <2>6. e.card \in [dims -> {s.value : s \in kept}]
    BY <2>1, <2>2, <2>4, <2>5
  <2>7. \A d \in dims : \E s \in kept : s.dim = d /\ s.value = e.card[d]
    BY <2>5
  <2>8. e.card \in Scorecards(kept)
    BY <2>6, <2>7 DEF Scorecards
  <2>9. ASSUME NEW card \in Scorecards(kept) PROVE card = e.card
    <3>1. /\ card \in [dims -> {s.value : s \in kept}]
          /\ \A d \in dims : \E s \in kept : s.dim = d /\ s.value = card[d]
      BY DEF Scorecards
    <3>2. \A d \in dims : card[d] = e.card[d]
      BY <2>5, <3>1
    <3> QED
      BY <2>6, <3>1, <3>2
  <2> QED
    BY <2>1, <2>8, <2>9 DEF rows, kept
<1>2. DriverInv => StoreReproducesCard
  BY <1>1 DEF StoreReproducesCard
<1>3. Spec => [](Base /\ DriverInv)
  BY DriverInvariant
<1> QED
  BY <1>2, <1>3, PTL

-----------------------------------------------------------------------------
(* The refinement of RunLedger.  What the ledger has announced, scored and *)
(* reported, and its scoring operators, which are those of this module.    *)

Ends == {e \in published : e.topic = "run_completed"}
Verdicts == {e \in published : e.topic = "bench_results"}
EndRow(e) == [run |-> e.run, status |-> e.status,
              passed_count |-> e.passed_count, failed_count |-> e.failed_count]
ScoreRowOf(s) == [run |-> s.run, dim |-> s.dim, value |-> s.value]
VerdictRow(e) == [run |-> e.run, passed |-> e.passed, card |-> e.card]
Announced == {EndRow(e) : e \in Ends}
Scored == {ScoreRowOf(s) : s \in scores}
Reported == {VerdictRow(e) : e \in Verdicts}

LEMMA LedgerOperators ==
  /\ \A S : Ledger!Cardinality(S) = Cardinality(S)
  /\ \A S : Ledger!PassedIn(S) = PassedIn(S) /\ Ledger!FailedIn(S) = FailedIn(S)
  /\ \A cat, rows : Ledger!Dimensions(cat, rows) = Dimensions(cat, rows)
  /\ \A cat, rows : Ledger!ScoresOf(cat, rows) = ScoresOf(cat, rows)
  /\ \A r : Ledger!Collected(r) = RowsOf(r)
<1>1. \A S : Ledger!Cardinality(S) = Cardinality(S)
  BY DEF Ledger!Cardinality, Cardinality
<1>2. \A S : Ledger!PassedIn(S) = PassedIn(S) /\ Ledger!FailedIn(S) = FailedIn(S)
  BY DEF Ledger!PassedIn, PassedIn, Ledger!FailedIn, FailedIn
<1>3. \A cat, t : Ledger!CategoryOf(cat, t) = CategoryOf(cat, t)
  BY DEF Ledger!CategoryOf, CategoryOf, Ledger!Absent, Ledger!UnknownCategory,
     UnknownCategory
<1>4. \A cat, rows : Ledger!Dimensions(cat, rows) = Dimensions(cat, rows)
  BY <1>3 DEF Ledger!Dimensions, Dimensions
<1>5. \A cat, rows, d : Ledger!Under(cat, rows, d) = Under(cat, rows, d)
  BY <1>3 DEF Ledger!Under, Under
<1>6. \A rows : Ledger!ValueOf(rows) = ValueOf(rows)
  BY <1>1, <1>2 DEF Ledger!ValueOf, ValueOf
<1>7. \A cat, rows : Ledger!ScoresOf(cat, rows) = ScoresOf(cat, rows)
  BY <1>4, <1>5, <1>6 DEF Ledger!ScoresOf, ScoresOf
<1>8. \A r : Ledger!Collected(r) = RowsOf(r)
  BY DEF Ledger!Collected, RowsOf
<1> QED
  BY <1>1, <1>2, <1>4, <1>7, <1>8

(* A step of the ledger is a change of the six things it keeps.            *)
LEMMA LedgerState ==
  /\ Ledger!ledger = <<catalog, runs, results, Announced, Scored, Reported>>
  /\ (Ledger!ledger)' = <<catalog', runs', results', Announced', Scored', Reported'>>
BY DEF Ledger!ledger, Announced, Scored, Reported, Ends, Verdicts, EndRow,
   ScoreRowOf, VerdictRow

(* Steps that announce no end, store no score and report no verdict.       *)
LEMMA OutsideTheLedger ==
  ASSUME NEW c \in Calls, Step(c)
  PROVE  /\ ~AnnounceCompleted(c) /\ ~AnnounceFailed(c) => Announced' = Announced
         /\ ~SaveScore(c) => Scored' = Scored
         /\ ~PublishResults(c) => Reported' = Reported
<1>1. /\ published \subseteq published'
      /\ \A e \in published' \ published :
           /\ e.topic = "run_completed" =>
                AnnounceCompleted(c) \/ AnnounceFailed(c)
           /\ e.topic = "bench_results" => PublishResults(c)
  BY StepPublishes
<1>2. ~AnnounceCompleted(c) /\ ~AnnounceFailed(c) => Ends' = Ends
  BY <1>1 DEF Ends
<1>3. ~PublishResults(c) => Verdicts' = Verdicts
  BY <1>1 DEF Verdicts
<1>4. ~SaveScore(c) => scores' = scores
  BY StepEffects
<1> QED
  BY <1>2, <1>3, <1>4 DEF Announced, Scored, Reported

LEMMA SaveTestMaps ==
  ASSUME Base, NEW c \in Calls, SaveTest(c)
  PROVE  \E t \in Tests, category \in Categories : Ledger!Register(t, category)
<1>1. /\ req[c].test \in Tests /\ req[c].category \in Categories
      /\ catalog[req[c].test] = Absent
      /\ catalog' = [catalog EXCEPT ![req[c].test] = req[c].category]
      /\ UNCHANGED <<runs, results, scores, published>>
  BY DEF SaveTest, Base, TypeInv, Arguments, Fresh
<1>2. Ledger!Register(req[c].test, req[c].category)
  BY <1>1 DEF Ledger!Register, Ledger!Absent
<1> QED
  BY <1>1, <1>2

LEMMA SaveNewRunMaps ==
  ASSUME Base, NEW c \in Calls, SaveNewRun(c)
  PROVE  \E r \in Runs : Ledger!Open(r)
<1>1. /\ req[c].run \in Runs /\ runs[req[c].run] = Absent
      /\ runs' = [runs EXCEPT ![req[c].run] = "started"]
      /\ UNCHANGED <<catalog, results, scores, published>>
  BY DEF SaveNewRun, Base, TypeInv, Arguments, Fresh
<1>2. Ledger!Open(req[c].run)
  BY <1>1 DEF Ledger!Open, Ledger!Absent
<1> QED
  BY <1>1, <1>2

(* The run is open, the test is registered and the call is a new one.      *)
LEMMA SaveResultMaps ==
  ASSUME Base, DriverInv, NEW c \in Calls, SaveResult(c)
  PROVE  \E r \in Runs, id \in Calls, t \in Tests \cup {Unknown},
            passed \in BOOLEAN : Ledger!Collect(id, r, t, passed)
<1>1. /\ pc[c] = "save_result"
      /\ results' = results \cup
           {[by |-> c, run |-> req[c].run, test |-> req[c].test,
             passed |-> req[c].passed]}
      /\ UNCHANGED <<catalog, runs, scores, published>>
  BY DEF SaveResult
<1>2. req[c].run \in Runs /\ runs[req[c].run] = "started"
  BY <1>1, ActiveDrives DEF Base, DriverInv, Ending, BeforeEnd
<1>3. req[c].test \in Tests \cup {Unknown} /\ req[c].passed \in BOOLEAN
  BY DEF Base, TypeInv, TypeOK, Requests
<1>4. req[c].test # Unknown => catalog[req[c].test] # Absent
  <2>1. req[c].op = "submit_result"
    BY <1>1 DEF Base, TypeInv, OnPath, PathOf, Operations
  <2> QED
    BY <1>3, <2>1 DEF Base, ReadsInv, Catalogued
<1>5. \A row \in results : row.by # c
  BY <1>1 DEF DriverInv, SavedOnce
<1>6. Ledger!Collect(c, req[c].run, req[c].test, req[c].passed)
  BY <1>1, <1>2, <1>4, <1>5 DEF Ledger!Collect, Ledger!Absent
<1> QED
  BY <1>2, <1>3, <1>6

LEMMA SaveRunMaps ==
  ASSUME Base, DriverInv, NEW c \in Calls, SaveRun(c)
  PROVE  \E r \in Runs, status \in {"completed", "failed"} : Ledger!End(r, status)
<1>1. /\ pc[c] = "save_run"
      /\ runs' = [runs EXCEPT ![req[c].run] = loaded[c]]
      /\ UNCHANGED <<catalog, results, scores, published>>
  BY DEF SaveRun, StatusSaved
<1>2. req[c].run \in Runs /\ runs[req[c].run] = "started"
  BY <1>1, ActiveDrives DEF Base, DriverInv, Ending, BeforeEnd
<1>3. loaded[c] \in {"completed", "failed"}
  BY <1>1 DEF Base, TypeInv, Arguments, EndStatus
<1>4. Ledger!End(req[c].run, loaded[c])
  BY <1>1, <1>2 DEF Ledger!End
<1> QED
  BY <1>2, <1>3, <1>4

(* The end announced is the one the store has, with the counts of all the  *)
(* results of a completed run, and no end of the run was announced before. *)
LEMMA AnnounceMaps ==
  ASSUME Base, DriverInv, NEW c \in Calls,
         AnnounceCompleted(c) \/ AnnounceFailed(c), Step(c)
  PROVE  \E r \in Runs : Ledger!Announce(r)
<1>0. PICK r \in Runs : r = req[c].run
  BY ActiveDrives DEF Base, AnnounceCompleted, AnnounceFailed, Saved
<1> DEFINE counted == IF runs[r] = "completed" THEN RowsOf(r) ELSE {}
           row == [run |-> r, status |-> runs[r],
                   passed_count |-> Cardinality(PassedIn(counted)),
                   failed_count |-> Cardinality(FailedIn(counted))]
<1>1. /\ pc[c] = "announce_end" /\ req[c].op \in {"complete_run", "fail_run"}
      /\ published' = published \cup {EndEvent(c)}
      /\ UNCHANGED <<catalog, runs, results, scores>>
  BY DEF AnnounceCompleted, AnnounceFailed, store
<1>2. /\ runs[r] = loaded[c] /\ EndsOf(r) = {}
      /\ loaded[c] = EndStatus(req[c].op)
      /\ req[c].op = "complete_run" => seen[c] = RowsOf(r)
  BY <1>0, <1>1
     DEF Base, DriverInv, Ending, Saved, TypeInv, Arguments
<1>3. /\ runs[r] \in {"completed", "failed"}
      /\ counted = IF req[c].op = "complete_run" THEN seen[c] ELSE {}
  BY <1>1, <1>2 DEF EndStatus
<1>4. EndEvent(c).topic = "run_completed" /\ EndRow(EndEvent(c)) = row
  <2> HIDE DEF counted
  <2> QED
    BY <1>0, <1>2, <1>3 DEF EndEvent, EndRow
<1>5. Announced' = Announced \cup {row}
  <2>1. Ends' = Ends \cup {EndEvent(c)}
    BY <1>1, <1>4 DEF Ends
  <2> HIDE DEF row
  <2> QED
    BY <1>4, <2>1 DEF Announced
<1>6. \A a \in Announced : a.run # r
  BY <1>2 DEF Announced, Ends, EndsOf, EndRow
<1>7. Scored' = Scored /\ Reported' = Reported
  BY <1>1, OutsideTheLedger DEF SaveScore, PublishResults
<1>8. UNCHANGED <<catalog, runs, results, Scored, Reported>>
  BY <1>1, <1>7
<1>9. row = [run |-> r, status |-> runs[r],
             passed_count |->
               Ledger!Cardinality(Ledger!PassedIn(
                 IF runs[r] = "completed" THEN Ledger!Collected(r) ELSE {})),
             failed_count |->
               Ledger!Cardinality(Ledger!FailedIn(
                 IF runs[r] = "completed" THEN Ledger!Collected(r) ELSE {}))]
  BY LedgerOperators
<1> HIDE DEF row, counted
<1>10. Ledger!Announce(r)
  BY <1>3, <1>5, <1>6, <1>8, <1>9
     DEF Ledger!Announce, Announced, Scored, Reported, Ends, Verdicts, EndRow,
         ScoreRowOf, VerdictRow
<1> QED
  BY <1>10

(* The end is announced, the dimension is one of the run and has no score. *)
LEMMA SaveScoreMaps ==
  ASSUME Base, DriverInv, NEW c \in Calls, SaveScore(c), Step(c)
  PROVE  \E r \in Runs, d \in Categories \cup {UnknownCategory} :
           Ledger!Score(r, d)
<1> DEFINE r == req[c].run
<1>1. PICK d \in todo[c] :
        /\ pc[c] = "save_score"
        /\ scores' = scores \cup {ScoreOf(c, d)}
        /\ UNCHANGED <<catalog, runs, results>>
  BY DEF SaveScore
<1>2. /\ r \in Runs /\ runs[r] = "completed" /\ EndsOf(r) # {}
      /\ seen[c] = RowsOf(r)
  <2>1. req[c].op = "complete_run"
    BY <1>1 DEF Base, TypeInv, OnPath, PathOf, Operations
  <2> QED
    BY <1>1, <2>1, ActiveDrives
       DEF Base, DriverInv, Ending, Saved, TypeInv, Arguments, EndStatus
<1>3. d \in Dimensions(catalog, RowsOf(r))
  BY <1>1, <1>2 DEF Base, ReadsInv, ToScore
<1>4. d \in Categories \cup {UnknownCategory}
  BY <1>3, DimensionsBounded DEF Base, TypeInv, TypeOK
<1>5. ScoreRowOf(ScoreOf(c, d))
        = [run |-> r, dim |-> d, value |-> ScoresOf(catalog, RowsOf(r))[d]]
  BY <1>2, <1>3 DEF ScoreRowOf, ScoreOf, ScoresOf
<1>6. Scored' = Scored \cup
        {[run |-> r, dim |-> d, value |-> ScoresOf(catalog, RowsOf(r))[d]]}
  BY <1>1, <1>5 DEF Scored
<1>7. \A s \in Scored : ~(s.run = r /\ s.dim = d)
  BY <1>1 DEF DriverInv, Looping, Scored, ScoreRowOf, ScoreRowsOf
<1>8. \E a \in Announced : a.run = r
  <2>1. PICK e \in Ends : e.run = r
    BY <1>2 DEF EndsOf, Ends
  <2>2. EndRow(e) \in Announced /\ EndRow(e).run = r
    BY <2>1 DEF Announced, EndRow
  <2> QED
    BY <2>2
<1>9. Announced' = Announced /\ Reported' = Reported
  BY <1>1, OutsideTheLedger DEF AnnounceCompleted, AnnounceFailed, PublishResults
<1>10. /\ d \in Ledger!Dimensions(catalog, Ledger!Collected(r))
       /\ Ledger!ScoresOf(catalog, Ledger!Collected(r))[d]
            = ScoresOf(catalog, RowsOf(r))[d]
  BY <1>3, LedgerOperators
<1>11. Ledger!Score(r, d)
  BY <1>1, <1>2, <1>6, <1>7, <1>8, <1>9, <1>10
     DEF Ledger!Score, Announced, Scored, Reported, Ends, Verdicts, EndRow,
         ScoreRowOf, VerdictRow
<1> QED
  BY <1>2, <1>4, <1>11

(* Every dimension of the run has its score, and no verdict was reported.  *)
LEMMA PublishResultsMaps ==
  ASSUME Base, DriverInv, NEW c \in Calls, PublishResults(c), Step(c)
  PROVE  \E r \in Runs : Ledger!Report(r)
<1>0. PICK r \in Runs : r = req[c].run
  BY ActiveDrives DEF Base, PublishResults, Saved
<1> DEFINE row == [run |-> r, passed |-> FailedIn(RowsOf(r)) = {},
                   card |-> ScoresOf(catalog, RowsOf(r))]
<1>1. /\ pc[c] = "publish_results"
      /\ published' = published \cup {ResultsEvent(c)}
      /\ UNCHANGED <<catalog, runs, results, scores>>
  BY DEF PublishResults, store
<1>2. /\ runs[r] = "completed" /\ EndsOf(r) # {}
      /\ VerdictsOf(r) = {} /\ seen[c] = RowsOf(r)
  <2>1. req[c].op = "complete_run"
    BY <1>1 DEF Base, TypeInv, OnPath, PathOf, Operations
  <2> QED
    BY <1>0, <1>1, <2>1
       DEF Base, DriverInv, Ending, Saved, TypeInv, Arguments, EndStatus
<1>3. \A d \in Dimensions(catalog, RowsOf(r)) :
        \E s \in Scored : s.run = r /\ s.dim = d
  <2>1. ASSUME NEW d \in Dimensions(catalog, RowsOf(r))
        PROVE  \E s \in Scored : s.run = r /\ s.dim = d
    <3>1. PICK s \in ScoreRowsOf(r) : s.dim = d
      BY <1>0, <1>1, <1>2 DEF DriverInv, Looping
    <3>2. ScoreRowOf(s) \in Scored /\ ScoreRowOf(s).run = r
            /\ ScoreRowOf(s).dim = d
      BY <3>1 DEF Scored, ScoreRowOf, ScoreRowsOf
    <3> QED
      BY <3>2
  <2> QED
    BY <2>1
<1>4. ResultsEvent(c).topic = "bench_results" /\ VerdictRow(ResultsEvent(c)) = row
  BY <1>0, <1>2 DEF ResultsEvent, VerdictRow
<1>5. Reported' = Reported \cup {row}
  <2>1. Verdicts' = Verdicts \cup {ResultsEvent(c)}
    BY <1>1, <1>4 DEF Verdicts
  <2> HIDE DEF row
  <2> QED
    BY <1>4, <2>1 DEF Reported
<1>6. \A v \in Reported : v.run # r
  BY <1>2 DEF Reported, Verdicts, VerdictsOf, VerdictRow
<1>7. \E a \in Announced : a.run = r
  <2>1. PICK e \in Ends : e.run = r
    BY <1>2 DEF EndsOf, Ends
  <2>2. EndRow(e) \in Announced /\ EndRow(e).run = r
    BY <2>1 DEF Announced, EndRow
  <2> QED
    BY <2>2
<1>8. Announced' = Announced /\ Scored' = Scored
  BY <1>1, OutsideTheLedger DEF AnnounceCompleted, AnnounceFailed, SaveScore
<1>9. row = [run |-> r, passed |-> Ledger!FailedIn(Ledger!Collected(r)) = {},
             card |-> Ledger!ScoresOf(catalog, Ledger!Collected(r))]
  BY LedgerOperators
<1>10. \A d \in Ledger!Dimensions(catalog, Ledger!Collected(r)) :
         \E s \in Scored : s.run = r /\ s.dim = d
  BY <1>3, LedgerOperators
<1> HIDE DEF row
<1>11. Ledger!Report(r)
  BY <1>1, <1>2, <1>5, <1>6, <1>7, <1>8, <1>9, <1>10
     DEF Ledger!Report, Announced, Scored, Reported, Ends, Verdicts, EndRow,
         ScoreRowOf, VerdictRow
<1> QED
  BY <1>11

(* Each step of the service is a step of the ledger or leaves it alone.    *)
LEMMA StepMaps ==
  ASSUME Base, DriverInv, NEW c \in Calls, Step(c)
  PROVE  Ledger!Next \/ UNCHANGED Ledger!ledger
<1>1. CASE SaveTest(c)
  BY <1>1, SaveTestMaps DEF Ledger!Next
<1>2. CASE SaveNewRun(c)
  BY <1>2, SaveNewRunMaps DEF Ledger!Next
<1>3. CASE SaveResult(c)
  BY <1>3, SaveResultMaps DEF Ledger!Next
<1>4. CASE SaveRun(c)
  BY <1>4, SaveRunMaps DEF Ledger!Next
<1>5. CASE AnnounceCompleted(c) \/ AnnounceFailed(c)
  BY <1>5, AnnounceMaps DEF Ledger!Next
<1>6. CASE SaveScore(c)
  BY <1>6, SaveScoreMaps DEF Ledger!Next, Ledger!UnknownCategory, UnknownCategory
<1>7. CASE PublishResults(c)
  BY <1>7, PublishResultsMaps DEF Ledger!Next
<1>8. CASE /\ ~SaveTest(c) /\ ~SaveNewRun(c) /\ ~SaveResult(c) /\ ~SaveRun(c)
           /\ ~AnnounceCompleted(c) /\ ~AnnounceFailed(c) /\ ~SaveScore(c)
           /\ ~PublishResults(c)
  <2>1. UNCHANGED <<catalog, runs, results>>
    BY <1>8, StepEffects
  <2>2. UNCHANGED <<Announced, Scored, Reported>>
    BY <1>8, OutsideTheLedger
  <2> QED
    BY <2>1, <2>2, LedgerState
<1> QED
  BY <1>1, <1>2, <1>3, <1>4, <1>5, <1>6, <1>7, <1>8

(* Driven by one client at a time, a run goes through the life the ledger  *)
(* gives it, whatever the other calls do and whatever fails on the way     *)
(* (bench_service.py; RunLedger).                                          *)
THEOREM LedgerImplemented == OneDriver => (Spec => ImplementsLedger)
<1> SUFFICES ASSUME OneDriver PROVE Spec => ImplementsLedger
  OBVIOUS
<1>1. Init => Ledger!Init
  BY DEF Init, Ledger!Init, Ledger!Absent
<1>2. Base /\ DriverInv /\ [Next]_vars => [Ledger!Next]_(Ledger!ledger)
  <2> SUFFICES ASSUME Base, DriverInv, [Next]_vars
               PROVE  Ledger!Next \/ UNCHANGED Ledger!ledger
    OBVIOUS
  <2>1. ASSUME NEW c \in Calls, Step(c)
        PROVE  Ledger!Next \/ UNCHANGED Ledger!ledger
    BY <2>1, StepMaps
  <2>2. ASSUME \A c \in Calls : ~Step(c)
        PROVE  UNCHANGED Ledger!ledger
    <3>1. UNCHANGED <<catalog, runs, results, scores, published>>
      BY <2>2, RequestIsWellFormed, FaultIsLocal
         DEF Next, Accept, Quiet, vars, store, Base
    <3>2. UNCHANGED <<Announced, Scored, Reported>>
      BY <3>1 DEF Announced, Scored, Reported, Ends, Verdicts
    <3> QED
      BY <3>1, <3>2, LedgerState
  <2> QED
    BY <2>1, <2>2
<1>3. Spec => [](Base /\ DriverInv)
  BY DriverInvariant
<1> QED
  BY <1>1, <1>2, <1>3, PTL DEF Spec, ImplementsLedger, Ledger!Spec

-----------------------------------------------------------------------------
(* What the ledger's own actions keep to, with no calls, no steps and no   *)
(* failures: everything written about a run agrees with its results for    *)
(* ever, and is written once.                                              *)

LedgerTyped ==
  /\ catalog \in [Tests -> Categories \cup {Absent}]
  /\ runs \in [Runs -> {Absent, "started", "completed", "failed"}]
  /\ \A row \in results :
       /\ row.test \in Tests \cup {Unknown}
       /\ row.test # Unknown => catalog[row.test] # Absent

EndAgrees(a) ==
  /\ a.run \in Runs
  /\ a.status \in Ended /\ runs[a.run] = a.status
  /\ a.status = "completed" =>
       /\ a.passed_count = Cardinality(PassedIn(RowsOf(a.run)))
       /\ a.failed_count = Cardinality(FailedIn(RowsOf(a.run)))

ScoreAgrees(s) ==
  /\ s.run \in Runs /\ runs[s.run] = "completed"
  /\ s.dim \in Dimensions(catalog, RowsOf(s.run))
  /\ s.value = ScoresOf(catalog, RowsOf(s.run))[s.dim]

VerdictAgrees(v) ==
  /\ v.run \in Runs /\ runs[v.run] = "completed"
  /\ v.passed = (FailedIn(RowsOf(v.run)) = {})
  /\ v.card = ScoresOf(catalog, RowsOf(v.run))

(* A verdict comes after the end and after a score for each dimension.     *)
InTurn ==
  \A v \in Reported :
    /\ \E a \in Announced : a.run = v.run
    /\ \A d \in DOMAIN v.card : \E s \in Scored : s.run = v.run /\ s.dim = d

OnlyOnce ==
  /\ \A a, b \in Announced : a.run = b.run => a = b
  /\ \A s, t \in Scored : s.run = t.run /\ s.dim = t.dim => s = t
  /\ \A v, w \in Reported : v.run = w.run => v = w

LedgerAgrees ==
  /\ \A a \in Announced : EndAgrees(a)
  /\ \A s \in Scored : ScoreAgrees(s)
  /\ \A v \in Reported : VerdictAgrees(v)
  /\ InTurn
  /\ OnlyOnce

(* The rows of a run that ended, and what they are scored from, stay.      *)
SameEnd(r) ==
  /\ runs'[r] = runs[r]
  /\ RowsOf(r)' = RowsOf(r)
  /\ Dimensions(catalog', RowsOf(r)) = Dimensions(catalog, RowsOf(r))
  /\ ScoresOf(catalog', RowsOf(r)) = ScoresOf(catalog, RowsOf(r))

LEMMA NoGroupMoves ==
  ASSUME LedgerTyped, catalog' \in [Tests -> Categories \cup {Absent}],
         \A t \in Tests : catalog[t] # Absent => catalog'[t] = catalog[t],
         NEW r
  PROVE  /\ Dimensions(catalog', RowsOf(r)) = Dimensions(catalog, RowsOf(r))
         /\ ScoresOf(catalog', RowsOf(r)) = ScoresOf(catalog, RowsOf(r))
<1>1. \A row \in RowsOf(r) :
        CategoryOf(catalog, row.test) = CategoryOf(catalog', row.test)
  BY ConstantsAssumption DEF LedgerTyped, RowsOf, CategoryOf
<1> QED
  BY <1>1, SameCategories

LEMMA RegisterKeeps ==
  ASSUME LedgerTyped, NEW t \in Tests, NEW category \in Categories,
         Ledger!Register(t, category)
  PROVE  /\ LedgerTyped'
         /\ UNCHANGED <<runs, results, Announced, Scored, Reported>>
         /\ \A r \in Runs : SameEnd(r)
<1>1. /\ catalog[t] = Absent
      /\ catalog' = [catalog EXCEPT ![t] = category]
      /\ UNCHANGED <<runs, results, Announced, Scored, Reported>>
  BY DEF Ledger!Register, Ledger!Absent, Announced, Scored, Reported, Ends,
     Verdicts, EndRow, ScoreRowOf, VerdictRow
<1>2. catalog' \in [Tests -> Categories \cup {Absent}]
  BY <1>1 DEF LedgerTyped
<1>3. \A x \in Tests : catalog[x] # Absent => catalog'[x] = catalog[x]
  BY <1>1 DEF LedgerTyped
<1>4. LedgerTyped'
  BY <1>1, <1>2, <1>3 DEF LedgerTyped
<1> QED
  BY <1>1, <1>2, <1>3, <1>4, NoGroupMoves DEF SameEnd, RowsOf

LEMMA OpenOrEndKeeps ==
  ASSUME LedgerTyped, NEW q \in Runs,
         Ledger!Open(q) \/ \E status \in Ended : Ledger!End(q, status)
  PROVE  /\ LedgerTyped'
         /\ UNCHANGED <<catalog, results, Announced, Scored, Reported>>
         /\ \A r \in Runs : runs[r] \in Ended => SameEnd(r)
<1>1. /\ runs[q] \notin Ended
      /\ \E status \in {"started", "completed", "failed"} :
           runs' = [runs EXCEPT ![q] = status]
      /\ UNCHANGED <<catalog, results, Announced, Scored, Reported>>
  BY DEF Ledger!Open, Ledger!End, Ledger!Absent, Announced, Scored, Reported,
     Ends, Verdicts, EndRow, ScoreRowOf, VerdictRow
<1>2. LedgerTyped'
  BY <1>1 DEF LedgerTyped
<1>3. \A r \in Runs : runs[r] \in Ended => runs'[r] = runs[r]
  BY <1>1 DEF LedgerTyped
<1> QED
  BY <1>1, <1>2, <1>3 DEF SameEnd, RowsOf

LEMMA CollectKeeps ==
  ASSUME LedgerTyped, NEW id, NEW q \in Runs, NEW t \in Tests \cup {Unknown},
         NEW passed, Ledger!Collect(id, q, t, passed)
  PROVE  /\ LedgerTyped'
         /\ UNCHANGED <<catalog, runs, Announced, Scored, Reported>>
         /\ \A r \in Runs : runs[r] \in Ended => SameEnd(r)
<1> DEFINE row == [by |-> id, run |-> q, test |-> t, passed |-> passed]
<1>1. /\ runs[q] = "started"
      /\ t # Unknown => catalog[t] # Absent
      /\ results' = results \cup {row}
      /\ UNCHANGED <<catalog, runs, Announced, Scored, Reported>>
  BY DEF Ledger!Collect, Ledger!Absent, Announced, Scored, Reported,
     Ends, Verdicts, EndRow, ScoreRowOf, VerdictRow
<1>2. LedgerTyped'
  BY <1>1 DEF LedgerTyped
<1>3. \A r \in Runs : runs[r] \in Ended => RowsOf(r)' = RowsOf(r)
  BY <1>1 DEF RowsOf
<1> QED
  BY <1>1, <1>2, <1>3 DEF SameEnd

(* A step that writes none of the three leaves them in agreement.          *)
LEMMA AgreementStays ==
  ASSUME LedgerAgrees, UNCHANGED <<Announced, Scored, Reported>>,
         \A r \in Runs : runs[r] \in Ended => SameEnd(r)
  PROVE  LedgerAgrees'
<1>1. \A a \in Announced : EndAgrees(a)'
  BY DEF LedgerAgrees, EndAgrees, SameEnd
<1>2. \A s \in Scored : ScoreAgrees(s)'
  BY DEF LedgerAgrees, ScoreAgrees, SameEnd
<1>3. \A v \in Reported : VerdictAgrees(v)'
  BY DEF LedgerAgrees, VerdictAgrees, SameEnd
<1> QED
  BY <1>1, <1>2, <1>3 DEF LedgerAgrees, InTurn, OnlyOnce

LEMMA AnnounceAgrees ==
  ASSUME LedgerTyped, LedgerAgrees, NEW r \in Runs, Ledger!Announce(r)
  PROVE  LedgerTyped' /\ LedgerAgrees'
<1> DEFINE counted == IF runs[r] = "completed" THEN RowsOf(r) ELSE {}
           row == [run |-> r, status |-> runs[r],
                   passed_count |-> Cardinality(PassedIn(counted)),
                   failed_count |-> Cardinality(FailedIn(counted))]
           old == [run |-> r, status |-> runs[r],
             passed_count |->
               Ledger!Cardinality(Ledger!PassedIn(
                 IF runs[r] = "completed" THEN Ledger!Collected(r) ELSE {})),
             failed_count |->
               Ledger!Cardinality(Ledger!FailedIn(
                 IF runs[r] = "completed" THEN Ledger!Collected(r) ELSE {}))]
<1>1. /\ runs[r] \in Ended
      /\ \A a \in Announced : a.run # r
      /\ Announced' = Announced \cup {old}
      /\ UNCHANGED <<catalog, runs, results, Scored, Reported>>
  BY DEF Ledger!Announce, Announced, Scored, Reported, Ends, Verdicts, EndRow,
     ScoreRowOf, VerdictRow
<1>2. old = row
  BY LedgerOperators
<1>3. EndAgrees(row)
  BY <1>1 DEF EndAgrees
<1>4. row.run = r
  OBVIOUS
<1> HIDE DEF row, old
<1>5. Announced' = Announced \cup {row}
  BY <1>1, <1>2
<1>6. LedgerTyped'
  BY <1>1 DEF LedgerTyped
<1>7. \A a \in Announced' : EndAgrees(a)'
  BY <1>1, <1>3, <1>5 DEF LedgerAgrees, EndAgrees, RowsOf
<1>8. /\ \A s \in Scored' : ScoreAgrees(s)'
      /\ \A v \in Reported' : VerdictAgrees(v)'
  BY <1>1 DEF LedgerAgrees, ScoreAgrees, VerdictAgrees, RowsOf
<1>9. InTurn' /\ OnlyOnce'
  BY <1>1, <1>4, <1>5 DEF LedgerAgrees, InTurn, OnlyOnce
<1> QED
  BY <1>6, <1>7, <1>8, <1>9 DEF LedgerAgrees

LEMMA ScoreKeepsAgreement ==
  ASSUME LedgerTyped, LedgerAgrees, NEW r \in Runs, NEW d, Ledger!Score(r, d)
  PROVE  LedgerTyped' /\ LedgerAgrees'
<1> DEFINE row == [run |-> r, dim |-> d,
                   value |-> ScoresOf(catalog, RowsOf(r))[d]]
           old == [run |-> r, dim |-> d,
                   value |-> Ledger!ScoresOf(catalog, Ledger!Collected(r))[d]]
<1>1. /\ runs[r] = "completed"
      /\ d \in Ledger!Dimensions(catalog, Ledger!Collected(r))
      /\ \A s \in Scored : ~(s.run = r /\ s.dim = d)
      /\ Scored' = Scored \cup {old}
      /\ UNCHANGED <<catalog, runs, results, Announced, Reported>>
  BY DEF Ledger!Score, Announced, Scored, Reported, Ends, Verdicts, EndRow,
     ScoreRowOf, VerdictRow
<1>2. old = row /\ d \in Dimensions(catalog, RowsOf(r))
  BY <1>1, LedgerOperators
<1>3. ScoreAgrees(row)
  BY <1>1, <1>2 DEF ScoreAgrees
<1>4. row.run = r /\ row.dim = d
  OBVIOUS
<1> HIDE DEF row, old
<1>5. Scored' = Scored \cup {row}
  BY <1>1, <1>2
<1>6. LedgerTyped'
  BY <1>1 DEF LedgerTyped
<1>7. \A s \in Scored' : ScoreAgrees(s)'
  BY <1>1, <1>3, <1>5 DEF LedgerAgrees, ScoreAgrees, RowsOf
<1>8. /\ \A a \in Announced' : EndAgrees(a)'
      /\ \A v \in Reported' : VerdictAgrees(v)'
  BY <1>1 DEF LedgerAgrees, EndAgrees, VerdictAgrees, RowsOf
<1>9. InTurn' /\ OnlyOnce'
  BY <1>1, <1>4, <1>5 DEF LedgerAgrees, InTurn, OnlyOnce
<1> QED
  BY <1>6, <1>7, <1>8, <1>9 DEF LedgerAgrees

LEMMA ReportAgrees ==
  ASSUME LedgerTyped, LedgerAgrees, NEW r \in Runs, Ledger!Report(r)
  PROVE  LedgerTyped' /\ LedgerAgrees'
<1> DEFINE row == [run |-> r, passed |-> FailedIn(RowsOf(r)) = {},
                   card |-> ScoresOf(catalog, RowsOf(r))]
           old == [run |-> r,
                   passed |-> Ledger!FailedIn(Ledger!Collected(r)) = {},
                   card |-> Ledger!ScoresOf(catalog, Ledger!Collected(r))]
<1>1. /\ runs[r] = "completed"
      /\ \E a \in Announced : a.run = r
      /\ \A d \in Ledger!Dimensions(catalog, Ledger!Collected(r)) :
           \E s \in Scored : s.run = r /\ s.dim = d
      /\ \A v \in Reported : v.run # r
      /\ Reported' = Reported \cup {old}
      /\ UNCHANGED <<catalog, runs, results, Announced, Scored>>
  BY DEF Ledger!Report, Announced, Scored, Reported, Ends, Verdicts, EndRow,
     ScoreRowOf, VerdictRow
<1>2. /\ old = row
      /\ \A d \in Dimensions(catalog, RowsOf(r)) :
           \E s \in Scored : s.run = r /\ s.dim = d
  BY <1>1, LedgerOperators
<1>3. VerdictAgrees(row)
  BY <1>1 DEF VerdictAgrees
<1>4. row.run = r /\ DOMAIN row.card = Dimensions(catalog, RowsOf(r))
  BY DEF ScoresOf
<1> HIDE DEF row, old
<1>5. Reported' = Reported \cup {row}
  BY <1>1, <1>2
<1>6. LedgerTyped'
  BY <1>1 DEF LedgerTyped
<1>7. \A v \in Reported' : VerdictAgrees(v)'
  BY <1>1, <1>3, <1>5 DEF LedgerAgrees, VerdictAgrees, RowsOf
<1>8. /\ \A a \in Announced' : EndAgrees(a)'
      /\ \A s \in Scored' : ScoreAgrees(s)'
  BY <1>1 DEF LedgerAgrees, EndAgrees, ScoreAgrees, RowsOf
<1>9. InTurn' /\ OnlyOnce'
  BY <1>1, <1>2, <1>4, <1>5 DEF LedgerAgrees, InTurn, OnlyOnce
<1> QED
  BY <1>6, <1>7, <1>8, <1>9 DEF LedgerAgrees

(* Whatever implements the ledger counts, scores and reports each run      *)
(* once, from the results the run has for ever (RunLedger).                *)
THEOREM LedgerKeepsItsPromises == Ledger!Spec => []LedgerAgrees
<1>1. Ledger!Init => LedgerTyped /\ LedgerAgrees
  BY DEF Ledger!Init, Ledger!Absent, LedgerTyped, LedgerAgrees, InTurn, OnlyOnce,
     Announced, Scored, Reported, Ends, Verdicts, EndRow, ScoreRowOf, VerdictRow
<1>2. ASSUME LedgerTyped, LedgerAgrees, Ledger!Next
      PROVE  LedgerTyped' /\ LedgerAgrees'
  <2>1. CASE \E t \in Tests, category \in Categories : Ledger!Register(t, category)
    BY <1>2, <2>1, RegisterKeeps, AgreementStays
  <2>2. CASE \E q \in Runs : \/ Ledger!Open(q)
                             \/ \E status \in Ended : Ledger!End(q, status)
    BY <1>2, <2>2, OpenOrEndKeeps, AgreementStays
  <2>3. CASE \E id \in Calls, q \in Runs, t \in Tests \cup {Unknown},
                passed \in BOOLEAN : Ledger!Collect(id, q, t, passed)
    BY <1>2, <2>3, CollectKeeps, AgreementStays
  <2>4. CASE \E r \in Runs : Ledger!Announce(r)
    BY <1>2, <2>4, AnnounceAgrees
  <2>5. CASE \E r \in Runs, d \in Categories \cup {Ledger!UnknownCategory} :
               Ledger!Score(r, d)
    BY <1>2, <2>5, ScoreKeepsAgreement
  <2>6. CASE \E r \in Runs : Ledger!Report(r)
    BY <1>2, <2>6, ReportAgrees
  <2> QED
    BY <1>2, <2>1, <2>2, <2>3, <2>4, <2>5, <2>6 DEF Ledger!Next
<1>3. ASSUME LedgerTyped, LedgerAgrees, UNCHANGED Ledger!ledger
      PROVE  LedgerTyped' /\ LedgerAgrees'
  <2>1. UNCHANGED <<catalog, runs, results, Announced, Scored, Reported>>
    BY <1>3, LedgerState
  <2>2. LedgerTyped'
    BY <1>3, <2>1 DEF LedgerTyped
  <2>3. \A r \in Runs : SameEnd(r)
    BY <2>1 DEF SameEnd, RowsOf
  <2> QED
    BY <1>3, <2>1, <2>2, <2>3, AgreementStays
<1>4. LedgerTyped /\ LedgerAgrees /\ [Ledger!Next]_(Ledger!ledger)
        => LedgerTyped' /\ LedgerAgrees'
  BY <1>2, <1>3
<1> QED
  BY <1>1, <1>4, PTL DEF Ledger!Spec

(* So does the service, driven by one client at a time (bench_service.py). *)
THEOREM ServiceKeepsLedger == OneDriver => (Spec => []LedgerAgrees)
<1> SUFFICES ASSUME OneDriver PROVE Spec => []LedgerAgrees
  OBVIOUS
<1>1. Spec => Ledger!Spec
  BY LedgerImplemented DEF ImplementsLedger
<1> QED
  BY <1>1, LedgerKeepsItsPromises, PTL
=============================================================================
