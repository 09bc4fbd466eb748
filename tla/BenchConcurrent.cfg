SPECIFICATION Spec
CONSTANTS
  Calls = {c1, c2, c3, c4}
  Runs = {r1}
  Tests = {t1}
  Categories = {"security"}
  Replicas = {s1}
  Unknown = Unknown
  Ops = {"submit_result", "complete_run", "generate_report"}
  OneDriver = FALSE
  Faults = {"exception"}
SYMMETRY Symmetry
INVARIANTS CountsAreStored ScoresAreStored ResultsEventWhole VerdictIsScore ReportCoversCompletion AuditTrail
