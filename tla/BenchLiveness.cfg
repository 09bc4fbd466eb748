SPECIFICATION FairSpec
CONSTANTS
  Calls = {c1, c2, c3}
  Runs = {r1}
  Tests = {t1}
  Categories = {"security"}
  Replicas = {s1}
  Unknown = Unknown
  Ops = {"register_test", "start_run", "submit_result", "complete_run", "fail_run", "get_scorecard"}
  OneDriver = FALSE
  Faults = {}
PROPERTIES EveryCallAnswered CompletedIsReported
