SPECIFICATION Spec
CONSTANTS
  Calls = {c1, c2}
  Runs = {r1}
  Tests = {t1}
  Categories = {"security"}
  Replicas = {s1}
  Unknown = Unknown
  Ops = {"submit_result", "complete_run"}
  OneDriver = FALSE
  Faults = {}
PROPERTY ResultsFrozen
