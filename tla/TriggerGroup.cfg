SPECIFICATION FairSpec
CONSTANTS
  Consumers = {s1, s2}
  None = None
  LogLength = 2
  SuiteSize = 1
  MaxLosses = 1
  MaxStops = 1
INVARIANTS TypeOK CommittedIsSettled RunsAreBounded LeftBehindByCrashOnly
PROPERTIES ImplementsLedger TriggersAreSettled
