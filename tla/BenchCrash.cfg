SPECIFICATION Spec
CONSTANTS
  Calls = {c1, c2, c3}
  Runs = {r1}
  Tests = {t1}
  Categories = {"security"}
  Replicas = {s1}
  Unknown = Unknown
  Ops = {"register_test", "start_run", "submit_result", "complete_run",
         "fail_run", "collect_evidence", "generate_report", "get_scorecard"}
  OneDriver = FALSE
  Faults = {"crash"}
SYMMETRY Symmetry
INVARIANTS TypeOK EventsFollowStore
PROPERTY NeverReopens
