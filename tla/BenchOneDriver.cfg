SPECIFICATION Spec
CONSTANTS
  Calls = {c1, c2, c3, c4}
  Runs = {r1}
  Tests = {t1}
  Categories = {"security"}
  Replicas = {s1}
  Unknown = Unknown
  Ops = {"submit_result", "complete_run", "fail_run"}
  OneDriver = TRUE
  Faults = {"exception"}
SYMMETRY Symmetry
INVARIANTS EndsOnce StoreReproducesCard
PROPERTIES ResultsFrozen ImplementsLedger
