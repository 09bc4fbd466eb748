SPECIFICATION Spec
CONSTANTS
  Calls = {c1, c2}
  Runs = {r1, r2}
  Tests = {t1}
  Categories = {"security"}
  Replicas = {s1}
  Unknown = Unknown
  Ops = {"complete_run", "fail_run"}
  OneDriver = FALSE
  Faults = {}
PROPERTY FailureRateRaisesIncident
