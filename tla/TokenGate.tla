------------------------------ MODULE TokenGate ------------------------------
(***************************************************************************)
(* Who is let through to the service: the verification of bearer tokens    *)
(* (core/security/jwt.py) and the role and attribute checks of the REST,   *)
(* MCP and GraphQL handlers, in one process.                               *)
(*                                                                         *)
(* Handlers and their dependencies are synchronous and run in a thread     *)
(* pool, so requests interleave between the look at JWKS_CACHE, the fetch  *)
(* and the store into it.  The realm is external: it answers a fetch with  *)
(* the keys it publishes at that moment, or the fetch fails (an error, a   *)
(* body that is not JSON, ten seconds without an answer).                  *)
(*                                                                         *)
(* A key is its kid.  A token is what its verification tells apart: the    *)
(* key, whether all the rest is good (RS256, signature, expiry, audience,  *)
(* issuer), and the claims the policies read.  Request bodies are left out *)
(* but for the target and the environment of a run.                        *)
(***************************************************************************)
CONSTANTS
  Requests,     \* the requests that may ever be made
  Keys,         \* the signing keys the realm may ever publish
  Targets, Environments,
  None,         \* no token; no environment; no restriction
  Tokens,       \* the tokens clients present
  Operations,   \* the operations clients use
  Deployments,  \* is the environment dev, is BENCH_OIDC_JWKS_URL set
  KeySets       \* the sets of keys the realm may publish

Roles == {"bench_admin", "bench_runner", "bench_reader"}

(* Operations by the check that guards them.                               *)
Open == {"health", "metrics", "capabilities", "list_runs"}
Docs == {"docs"}
Reading == {"list_tests", "get_run", "list_evidence", "get_report",
            "list_scores", "get_scorecard", "list_rules", "mcp_scorecard"}
Running == {"register_test", "start_run", "submit_result", "complete_run",
            "collect_evidence", "evaluate_decision",
            "mcp_register", "mcp_run", "mcp_report"}
Queries == {"query", "query_report"}
Mutations == {"mutation"}
Graphql == Queries \cup Mutations

(* The operations that change what the service stores: whoever reads a     *)
(* report has it generated and stored, over REST and GraphQL too.  The     *)
(* GraphQL report query is the only one no role is asked for.              *)
Storing ==
  (Running \ {"evaluate_decision"}) \cup Mutations \cup {"get_report", "query_report"}

TokenType ==
  [kid : Keys, good : BOOLEAN, roles : SUBSET Roles,
   allowed_targets : (SUBSET Targets) \cup {None},
   allowed_environments : (SUBSET Environments) \cup {None}]

ASSUME GateAssumption ==
  /\ Tokens \subseteq TokenType
  /\ None \notin Tokens
  /\ Deployments \subseteq [dev : BOOLEAN, oidc : BOOLEAN]
  /\ KeySets \subseteq SUBSET Keys
  /\ Operations \subseteq Open \cup Docs \cup Reading \cup Running \cup Graphql

VARIABLES
  settings,     \* the deployment
  realm,        \* the keys the realm publishes
  cache,        \* JWKS_CACHE at that URL: at most one set of keys
  phase,        \* where each request is
  request,      \* what it asks, and with which token
  jwks,         \* the keys it has fetched and not stored yet
  user,         \* the user of a request that is let on to its handler
  answer,
  \* history, of this process
  everPublished,    \* the keys published at some time since it started
  alwaysPublished   \* the keys published all the time since it started

history == <<everPublished, alwaysPublished>>
gateVars == <<settings, realm, cache, phase, request, jwks, user, answer,
              everPublished, alwaysPublished>>

RequestType ==
  [op : Operations, token : Tokens \cup {None}, target : Targets,
   environment : Environments \cup {None}]

Waiting == {"sent", "fetching", "fetched", "admitted"}
Users == {"none", "exempt", "nobody", "verified"}
Answers == {"served", "401", "403", "503", "lost"}

GateInit ==
  /\ settings \in Deployments
  /\ realm \in KeySets
  /\ cache = {}
  /\ phase = [r \in Requests |-> "idle"]
  /\ request \in [Requests -> {None}]
  /\ jwks = [r \in Requests |-> {}]
  /\ user = [r \in Requests |-> "none"]
  /\ answer = [r \in Requests |-> "none"]
  /\ everPublished = realm
  /\ alwaysPublished = realm

-----------------------------------------------------------------------------
(* A client takes the answers of some requests and sends others, all at    *)
(* once; asked gives each what it asks.                                    *)

Exchange(done, asked) ==
  /\ \A r \in done : phase[r] = "answered"
  /\ \A r \in DOMAIN asked : phase[r] = "idle" \/ r \in done
  /\ phase' = [r \in Requests |-> IF r \in DOMAIN asked THEN "sent"
                                 ELSE IF r \in done THEN "idle" ELSE phase[r]]
  /\ request' = [r \in Requests |-> IF r \in DOMAIN asked THEN asked[r]
                                   ELSE IF r \in done THEN None ELSE request[r]]
  /\ answer' = [r \in Requests |-> IF r \in done THEN "none" ELSE answer[r]]
  /\ UNCHANGED <<settings, realm, cache, jwks, user, history>>

Token(r) == request[r].token
Op(r) == request[r].op

Reply(r, code) ==
  /\ phase' = [phase EXCEPT ![r] = "answered"]
  /\ answer' = [answer EXCEPT ![r] = code]
  /\ user' = [user EXCEPT ![r] = "none"]

Admit(r, said) ==
  /\ phase' = [phase EXCEPT ![r] = "admitted"]
  /\ user' = [user EXCEPT ![r] = said]
  /\ UNCHANGED answer

(* No token is asked for: the open endpoints, and the API metadata in dev. *)
Exempt(r) == Op(r) \in Open \/ (Op(r) \in Docs /\ settings.dev)

Pass(r) ==
  /\ phase[r] = "sent"
  /\ Exempt(r)
  /\ Admit(r, "exempt")
  /\ UNCHANGED <<settings, realm, cache, request, jwks, history>>

(* _extract_token: no bearer token, no verification.  The GraphQL context  *)
(* verifies the empty token instead.                                       *)
RefuseAnonymous(r) ==
  /\ phase[r] = "sent"
  /\ ~Exempt(r)
  /\ Op(r) \notin Graphql
  /\ Token(r) = None
  /\ Reply(r, "401")
  /\ UNCHANGED <<settings, realm, cache, request, jwks, history>>

Verifying(r) ==
  /\ ~Exempt(r)
  /\ Op(r) \in Graphql \/ Token(r) # None

(* A token that is not verified: the dependency raises.  The GraphQL       *)
(* context goes on without a user, unless it had no token to verify.       *)
(* A seeded defect: the claims of a token that was not verified are used.  *)
NotVerifiedTrusted(r, code) ==
  IF Op(r) \in Graphql /\ Token(r) # None
  THEN Admit(r, "verified") ELSE Reply(r, code)

NotVerified(r, code) ==
  IF Op(r) \in Graphql /\ Token(r) # None THEN Admit(r, "nobody") ELSE Reply(r, code)

RefuseUnconfigured(r) ==
  /\ phase[r] = "sent"
  /\ Verifying(r)
  /\ ~settings.oidc
  /\ NotVerified(r, "503")
  /\ UNCHANGED <<settings, realm, cache, request, jwks, history>>

(* _get_signing_key finds the key by its kid, and jwt.decode checks the    *)
(* rest.  The empty token has no header, which is an invalid token too.    *)
Verified(token, keys) == token # None /\ token.kid \in keys /\ token.good

Verify(r, keys) ==
  IF Verified(Token(r), keys) THEN Admit(r, "verified") ELSE NotVerified(r, "401")

(* _fetch_jwks: a URL that is in the cache is never fetched again.         *)
(* A seeded defect: the cache is filled and never looked at.               *)
CachedNever(keys) == FALSE

Cached(keys) == keys \in cache

VerifyCached(r) ==
  \E keys \in cache :
    /\ phase[r] = "sent"
    /\ Verifying(r)
    /\ settings.oidc
    /\ Cached(keys)
    /\ Verify(r, keys)
    /\ UNCHANGED <<settings, realm, cache, request, jwks, history>>

StartFetch(r) ==
  /\ phase[r] = "sent"
  /\ Verifying(r)
  /\ settings.oidc
  /\ ~\E keys \in cache : Cached(keys)
  /\ phase' = [phase EXCEPT ![r] = "fetching"]
  /\ UNCHANGED <<settings, realm, cache, request, jwks, user, answer, history>>

FetchAnswers(r) ==
  /\ phase[r] = "fetching"
  /\ jwks' = [jwks EXCEPT ![r] = realm]
  /\ phase' = [phase EXCEPT ![r] = "fetched"]
  /\ UNCHANGED <<settings, realm, cache, request, user, answer, history>>

(* A seeded defect: a failed fetch is remembered, as no keys at all.       *)
AfterFailureRemembered == {{}}

AfterFailure == cache

FetchFails(r) ==
  /\ phase[r] = "fetching"
  /\ NotVerified(r, "503")
  /\ cache' = AfterFailure
  /\ UNCHANGED <<settings, realm, request, jwks, history>>

(* The keys fetched go into the cache, over those of a thread that was     *)
(* faster, and are the ones this request is verified with.                 *)
StoreAndVerify(r) ==
  /\ phase[r] = "fetched"
  /\ cache' = {jwks[r]}
  /\ jwks' = [jwks EXCEPT ![r] = {}]
  /\ Verify(r, jwks[r])
  /\ UNCHANGED <<settings, realm, request, history>>

-----------------------------------------------------------------------------
(* require_role, _require_role and the ABAC checks; then the handler calls *)
(* the service.  A resolver answers its error inside a 200.                *)

RolesFor(op) ==
  IF op \in Reading THEN Roles ELSE {"bench_admin", "bench_runner"}

HasRole(r) ==
  /\ user[r] = "verified"
  /\ Token(r).roles \cap RolesFor(Op(r)) # {}

CanAccessTarget(token, target) ==
  token.allowed_targets # None => target \in token.allowed_targets

CanRunInEnvironment(token, environment) ==
  token.allowed_environments # None => environment \in token.allowed_environments

Authorised(r) ==
  /\ Op(r) \in Reading \cup Running \cup Mutations => HasRole(r)
  /\ Op(r) \in {"start_run", "mcp_run"} =>
       /\ CanAccessTarget(Token(r), request[r].target)
       /\ request[r].environment # None =>
            CanRunInEnvironment(Token(r), request[r].environment)

Serve(r) ==
  /\ phase[r] = "admitted"
  /\ Authorised(r)
  /\ Reply(r, "served")
  /\ UNCHANGED <<settings, realm, cache, request, jwks, history>>

Forbid(r) ==
  /\ phase[r] = "admitted"
  /\ ~Authorised(r)
  /\ Reply(r, "403")
  /\ UNCHANGED <<settings, realm, cache, request, jwks, history>>

-----------------------------------------------------------------------------
(* The realm rotates its keys; the process restarts, with an empty cache,  *)
(* and the requests it was serving are lost.                               *)

Rotate(keys) ==
  /\ realm' = keys
  /\ everPublished' = everPublished \cup keys
  /\ alwaysPublished' = alwaysPublished \cap keys
  /\ UNCHANGED <<settings, cache, phase, request, jwks, user, answer>>

(* A seeded defect: the cache outlives the process.                        *)
CacheAtStartKept == cache

CacheAtStart == {}

Restart ==
  /\ cache' = CacheAtStart
  /\ phase' = [r \in Requests |-> IF phase[r] \in Waiting THEN "answered" ELSE phase[r]]
  /\ answer' = [r \in Requests |-> IF phase[r] \in Waiting THEN "lost" ELSE answer[r]]
  /\ jwks' = [r \in Requests |-> {}]
  /\ user' = [r \in Requests |-> "none"]
  /\ everPublished' = realm
  /\ alwaysPublished' = realm
  /\ UNCHANGED <<settings, realm, request>>

-----------------------------------------------------------------------------

(* A step of a request that makes no call of the service.                  *)
GateStep(r) ==
  \/ Pass(r)
  \/ RefuseAnonymous(r) \/ RefuseUnconfigured(r)
  \/ VerifyCached(r)
  \/ StartFetch(r) \/ FetchAnswers(r) \/ FetchFails(r) \/ StoreAndVerify(r)
  \/ Forbid(r)

GateNext ==
  \/ \E done, sent \in SUBSET Requests : \E asked \in [sent -> RequestType] :
       Exchange(done, asked)
  \/ \E r \in Requests : GateStep(r) \/ Serve(r)
  \/ \E keys \in KeySets : Rotate(keys)
  \/ Restart

GateSpec == GateInit /\ [][GateNext]_gateVars

-----------------------------------------------------------------------------
(* Type invariant.                                                         *)

GateTypeOK ==
  /\ settings \in Deployments
  /\ realm \in KeySets
  /\ cache \in SUBSET KeySets
  /\ phase \in [Requests -> {"idle", "answered"} \cup Waiting]
  /\ request \in [Requests -> RequestType \cup {None}]
  /\ \A r \in Requests : phase[r] # "idle" => request[r] \in RequestType
  /\ jwks \in [Requests -> KeySets \cup {{}}]
  /\ user \in [Requests -> Users]
  /\ answer \in [Requests -> {"none"} \cup Answers]
  /\ everPublished \subseteq Keys
  /\ alwaysPublished \subseteq everPublished

-----------------------------------------------------------------------------
(* Properties.                                                             *)

(* A token is verified only with a key the realm has published while this  *)
(* process runs: whatever was cached, by whichever thread, came from the   *)
(* realm, and a restart forgets the keys withdrawn before it (jwt.py,      *)
(* _fetch_jwks and JWKS_CACHE).                                            *)
VerifiedByPublishedKey ==
  [][\A r \in Requests :
       user[r] # "verified" /\ user'[r] = "verified" =>
         request[r].token.kid \in everPublished]_gateVars

(* A good token whose key the realm has published ever since the process   *)
(* started is never called invalid: neither a failed fetch nor a race of   *)
(* fetches around a rotation leaves a cache without that key (jwt.py,      *)
(* _fetch_jwks, which stores answers and no failures).                     *)
RefusedForCause ==
  [][\A r \in Requests :
       /\ phase[r] \in {"sent", "fetched"}
       /\ answer'[r] = "401" \/ (user'[r] = "nobody" /\ settings.oidc)
       => \/ request[r].token = None
          \/ ~request[r].token.good
          \/ request[r].token.kid \notin alwaysPublished]_gateVars

(* The keys tokens are verified with change only while the first fetches   *)
(* of a process race: once some are cached and no fetch is on its way,     *)
(* this stays so, and a rotation goes unnoticed, until the process         *)
(* restarts (jwt.py, _fetch_jwks).                                         *)
Settled ==
  /\ cache # {}
  /\ \A r \in Requests : phase[r] \notin {"fetching", "fetched"}

CacheSettles ==
  [][Settled => cache' = {} \/ (Settled' /\ cache' = cache)]_gateVars

(* Readers may have a report generated; they may change nothing else.      *)
MayChange(op) ==
  IF op = "get_report" THEN Roles ELSE {"bench_admin", "bench_runner"}

(* Every operation that changes what the service stores, but the GraphQL   *)
(* report query, is served only to a verified good token with a role that  *)
(* may, over REST, MCP and GraphQL alike, although the GraphQL context     *)
(* goes on without a user when the verification fails, and then serves     *)
(* the report query (graphql.py, _get_context, _require_role and           *)
(* Query.report; rest.py and mcp.py).                                      *)
ChangesAreAuthorised ==
  [][\A r \in Requests :
       /\ phase[r] = "admitted" /\ answer'[r] = "served"
       /\ Op(r) \in Storing \ {"query_report"}
       => /\ user[r] = "verified"
          /\ Token(r).good
          /\ Token(r).roles \cap MayChange(Op(r)) # {}]_gateVars
=============================================================================
