SPECIFICATION FairSpec
CONSTANTS
  Calls = {c1, c2}
  Runs = {r1}
  Tests = {t1}
  Categories = {"security"}
  Replicas = {s1}
  Unknown = Unknown
  Ops = {"complete_run"}
  OneDriver = FALSE
  Faults = {"crash"}
PROPERTY CompletedIsAnnounced
