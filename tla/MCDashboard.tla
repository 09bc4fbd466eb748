----------------------------- MODULE MCDashboard -----------------------------
(***************************************************************************)
(* Dashboard for TLC: a session that may run tests, and one request of     *)
(* another client, over REST, MCP or GraphQL.                              *)
(***************************************************************************)
EXTENDS Dashboard, TLC

CONSTANTS k1, k2, m, a, b, o

BenchToken(kid, good, roles, targets) ==
  [kid |-> kid, good |-> good, roles |-> roles, allowed_targets |-> targets,
   allowed_environments |-> {}]

MCSession == BenchToken(k1, TRUE, {"bench_runner"}, None)
Reader == BenchToken(k2, TRUE, {"bench_reader"}, None)
Expired == BenchToken(k1, FALSE, {"bench_admin"}, None)

MCTokens == {MCSession, Reader, Expired}

MCTasks == {m, a, b}
Symmetry == Permutations({a, b})

MCRequests == PageRequests \cup {o}
MCOthers == {o}

Ask(op, token) == [op |-> op, token |-> token, target |-> "t", environment |-> None]

MCAsked ==
  {Ask("mutation", Reader), Ask("mutation", Expired),
   Ask("query_report", Expired), Ask("docs", None),
   [Ask("mcp_run", MCSession) EXCEPT !.environment = "e"]}

MCDeployments == {[dev |-> TRUE, oidc |-> FALSE], [dev |-> FALSE, oidc |-> TRUE]}
MCKeySets == {{k1}, {k1, k2}}
=============================================================================
