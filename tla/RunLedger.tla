----------------------------- MODULE RunLedger -----------------------------
(***************************************************************************)
(* What the bench promises about a run, with no calls, no steps and no     *)
(* failures: a run is opened, collects results, ends once, is announced,   *)
(* is scored dimension by dimension from exactly the results it collected, *)
(* and is reported when every dimension has its score.  Each action here   *)
(* is one commit or one event of the facade (bench_service.py); the        *)
(* detailed specification is BenchService.                                 *)
(***************************************************************************)
EXTENDS Scoring

CONSTANTS Calls, Runs, Tests, Categories, Unknown

VARIABLES
  catalog,      \* the category of each registered test
  runs,         \* the status of each run
  results,      \* the results collected
  announced,    \* the ends announced: run, status and counts
  scored,       \* the scores stored: run, dimension and value
  verdicts      \* the runs reported: run, passed and scorecard

ledger == <<catalog, runs, results, announced, scored, verdicts>>

Collected(r) == {row \in results : row.run = r}

Init ==
  /\ catalog \in [Tests -> Categories \cup {Absent}]
  /\ runs \in [Runs -> {Absent, "started"}]
  /\ results = {} /\ announced = {} /\ scored = {} /\ verdicts = {}

Register(t, category) ==
  /\ catalog[t] = Absent
  /\ catalog' = [catalog EXCEPT ![t] = category]
  /\ UNCHANGED <<runs, results, announced, scored, verdicts>>

Open(r) ==
  /\ runs[r] = Absent
  /\ runs' = [runs EXCEPT ![r] = "started"]
  /\ UNCHANGED <<catalog, results, announced, scored, verdicts>>

Collect(id, r, t, passed) ==
  /\ runs[r] = "started"
  /\ t # Unknown => catalog[t] # Absent
  /\ \A row \in results : row.by # id
  /\ results' = results \cup
       {[by |-> id, run |-> r, test |-> t, passed |-> passed]}
  /\ UNCHANGED <<catalog, runs, announced, scored, verdicts>>

End(r, status) ==
  /\ runs[r] = "started"
  /\ runs' = [runs EXCEPT ![r] = status]
  /\ UNCHANGED <<catalog, results, announced, scored, verdicts>>

(* The counts are those of the results collected; a failed run has none.   *)
Announce(r) ==
  LET counted == IF runs[r] = "completed" THEN Collected(r) ELSE {} IN
  /\ runs[r] \in {"completed", "failed"}
  /\ \A a \in announced : a.run # r
  /\ announced' = announced \cup
       {[run |-> r, status |-> runs[r],
         passed_count |-> Cardinality(PassedIn(counted)),
         failed_count |-> Cardinality(FailedIn(counted))]}
  /\ UNCHANGED <<catalog, runs, results, scored, verdicts>>

Score(r, d) ==
  /\ runs[r] = "completed"
  /\ \E a \in announced : a.run = r
  /\ d \in Dimensions(catalog, Collected(r))
  /\ \A s \in scored : ~(s.run = r /\ s.dim = d)
  /\ scored' = scored \cup
       {[run |-> r, dim |-> d,
         value |-> ScoresOf(catalog, Collected(r))[d]]}
  /\ UNCHANGED <<catalog, runs, results, announced, verdicts>>

Report(r) ==
  /\ runs[r] = "completed"
  /\ \E a \in announced : a.run = r
  /\ \A d \in Dimensions(catalog, Collected(r)) :
       \E s \in scored : s.run = r /\ s.dim = d
  /\ \A v \in verdicts : v.run # r
  /\ verdicts' = verdicts \cup
       {[run |-> r, passed |-> FailedIn(Collected(r)) = {},
         card |-> ScoresOf(catalog, Collected(r))]}
  /\ UNCHANGED <<catalog, runs, results, announced, scored>>

Next ==
  \/ \E t \in Tests, category \in Categories : Register(t, category)
  \/ \E r \in Runs :
       \/ Open(r) \/ Announce(r) \/ Report(r)
       \/ \E status \in {"completed", "failed"} : End(r, status)
       \/ \E d \in Categories \cup {UnknownCategory} : Score(r, d)
       \/ \E id \in Calls, t \in Tests \cup {Unknown}, passed \in BOOLEAN :
            Collect(id, r, t, passed)

Spec == Init /\ [][Next]_ledger
=============================================================================
