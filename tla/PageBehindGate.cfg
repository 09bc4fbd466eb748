SPECIFICATION Spec
SYMMETRY Symmetry
CONSTANTS
  k1 = k1
  k2 = k2
  m = m
  a = a
  b = b
  o = o
  Keys = {k1, k2}
  Targets = {"t"}
  Environments = {"e"}
  None = None
  Tokens <- MCTokens
  Operations = {"list_tests", "list_runs", "get_scorecard", "get_report",
                "register_test", "start_run", "mutation", "query_report", "docs", "mcp_run"}
  Deployments <- MCDeployments
  KeySets <- MCKeySets
  Requests <- MCRequests
  Others <- MCOthers
  Asked <- MCAsked
  Tasks <- MCTasks
  Main = m
  Seed = Seed
  Session <- MCSession
  MaxChanges = 1
  MaxEvents = 4
  MaxClients = 3
INVARIANTS TypeOK DetailsOfOneClick AnsweredTasksGoOn
PROPERTIES ChangesAreAuthorised VerifiedByPublishedKey RefusedForCause CacheSettles FormShowsItsItem
