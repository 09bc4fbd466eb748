--------------------------- MODULE DashboardProofs ---------------------------
(***************************************************************************)
(* What holds of the gate and of the page for any number of requests,      *)
(* tasks, keys and tokens.  First the gate alone; then the page, whose     *)
(* every step is a step of the gate or leaves it alone.                    *)
(***************************************************************************)
EXTENDS Dashboard, TLAPS

USE DEF Roles, Waiting, Users, Answers, Open, Docs, Reading, Running, Queries,
        Mutations, Graphql, Storing

-----------------------------------------------------------------------------
(* The inductive invariant of the gate.  Every key set a request may be    *)
(* verified with, in the cache or just fetched, lies between the keys      *)
(* published all the time and those published at some time.                *)

FromRealm(keys) == alwaysPublished \subseteq keys /\ keys \subseteq everPublished

KeysFromRealm ==
  /\ FromRealm(realm)
  /\ \A keys \in cache : FromRealm(keys)
  /\ \A r \in Requests : phase[r] = "fetched" => jwks[r] \in KeySets /\ FromRealm(jwks[r])

(* A user, or an answer, is there only while the request is where it says. *)
UsersAreAdmitted ==
  \A r \in Requests :
    /\ user[r] # "none" => phase[r] = "admitted"
    /\ answer[r] # "none" => phase[r] = "answered"
    /\ user[r] = "verified" => Token(r) # None /\ Token(r).good

GateInv == GateTypeOK /\ KeysFromRealm /\ UsersAreAdmitted

LEMMA GateInitInv == GateInit => GateInv
<1> SUFFICES ASSUME GateInit PROVE GateInv
  OBVIOUS
<1>1. GateTypeOK
  BY GateAssumption DEF GateInit, GateTypeOK
<1>2. KeysFromRealm
  BY DEF GateInit, KeysFromRealm, FromRealm
<1>3. UsersAreAdmitted
  BY DEF GateInit, UsersAreAdmitted
<1> QED
  BY <1>1, <1>2, <1>3 DEF GateInv

(* A client's exchange moves requests that are idle or answered, which     *)
(* have no user and leave their answer behind.                             *)
LEMMA ExchangeKeepsInv ==
  ASSUME GateInv, NEW done, NEW asked, DOMAIN asked \subseteq Requests,
         \A r \in DOMAIN asked : asked[r] \in RequestType,
         Exchange(done, asked)
  PROVE  GateInv'
<1>1. GateTypeOK'
  BY DEF GateInv, GateTypeOK, Exchange, history
<1>2. KeysFromRealm'
  BY DEF GateInv, GateTypeOK, KeysFromRealm, FromRealm, Exchange, history
<1>3. UsersAreAdmitted'
  BY DEF GateInv, GateTypeOK, UsersAreAdmitted, Token, Exchange, history
<1> QED
  BY <1>1, <1>2, <1>3 DEF GateInv

(* The two ways on from a verification keep what they leave alone.         *)
LEMMA VerifyKeepsUsers ==
  ASSUME GateInv, NEW r \in Requests, NEW keys, Verify(r, keys),
         phase[r] \in {"sent", "fetched"}, UNCHANGED request
  PROVE  /\ UsersAreAdmitted'
         /\ phase' \in [Requests -> {"idle", "answered"} \cup Waiting]
         /\ user' \in [Requests -> Users]
         /\ answer' \in [Requests -> {"none"} \cup Answers]
         /\ phase'[r] \in {"admitted", "answered"}
         /\ \A x \in Requests \ {r} : phase'[x] = phase[x]
BY DEF GateInv, GateTypeOK, UsersAreAdmitted, Verify, Verified, NotVerified, Admit,
       Reply, Token, Op

LEMMA GateStepKeepsInv ==
  ASSUME GateInv, NEW r \in Requests, GateStep(r) \/ Serve(r)
  PROVE  GateInv'
<1> USE DEF GateInv, history
<1>1. CASE Pass(r)
  BY <1>1 DEF Pass, Admit, GateTypeOK, KeysFromRealm, FromRealm, UsersAreAdmitted, Token
<1>2. CASE RefuseAnonymous(r)
  BY <1>2 DEF RefuseAnonymous, Reply, GateTypeOK, KeysFromRealm, FromRealm,
              UsersAreAdmitted, Token
<1>3. CASE RefuseUnconfigured(r)
  BY <1>3 DEF RefuseUnconfigured, NotVerified, Reply, Admit, GateTypeOK, KeysFromRealm,
              FromRealm, UsersAreAdmitted, Token
<1>4. CASE VerifyCached(r)
  <2>1. PICK keys \in cache : phase[r] = "sent" /\ Verify(r, keys)
                              /\ UNCHANGED <<settings, realm, cache, request, jwks, history>>
    BY <1>4 DEF VerifyCached
  <2> QED
    BY <2>1, VerifyKeepsUsers DEF GateTypeOK, KeysFromRealm, FromRealm
<1>5. CASE StartFetch(r)
  BY <1>5 DEF StartFetch, GateTypeOK, KeysFromRealm, FromRealm, UsersAreAdmitted, Token
<1>6. CASE FetchAnswers(r)
  BY <1>6 DEF FetchAnswers, GateTypeOK, KeysFromRealm, FromRealm, UsersAreAdmitted, Token
<1>7. CASE FetchFails(r)
  BY <1>7 DEF FetchFails, AfterFailure, NotVerified, Reply, Admit, GateTypeOK, KeysFromRealm,
              FromRealm, UsersAreAdmitted, Token
<1>8. CASE StoreAndVerify(r)
  <2>1. UsersAreAdmitted'
    BY <1>8, VerifyKeepsUsers DEF StoreAndVerify
  <2>2. GateTypeOK'
    BY <1>8, VerifyKeepsUsers DEF StoreAndVerify, GateTypeOK, KeysFromRealm
  <2>3. KeysFromRealm'
    BY <1>8, VerifyKeepsUsers DEF StoreAndVerify, GateTypeOK, KeysFromRealm, FromRealm
  <2> QED
    BY <2>1, <2>2, <2>3
<1>9. CASE Forbid(r)
  BY <1>9 DEF Forbid, Reply, GateTypeOK, KeysFromRealm, FromRealm, UsersAreAdmitted, Token
<1>10. CASE Serve(r)
  BY <1>10 DEF Serve, Reply, GateTypeOK, KeysFromRealm, FromRealm, UsersAreAdmitted, Token
<1> QED
  BY <1>1, <1>2, <1>3, <1>4, <1>5, <1>6, <1>7, <1>8, <1>9, <1>10 DEF GateStep

LEMMA RotateKeepsInv ==
  ASSUME GateInv, NEW keys \in KeySets, Rotate(keys)
  PROVE  GateInv'
BY GateAssumption DEF GateInv, GateTypeOK, KeysFromRealm, FromRealm, UsersAreAdmitted, Token, Rotate

LEMMA RestartKeepsInv ==
  ASSUME GateInv, Restart
  PROVE  GateInv'
<1>1. GateTypeOK'
  BY GateAssumption DEF GateInv, GateTypeOK, Restart, CacheAtStart
<1>2. KeysFromRealm'
  BY DEF GateInv, GateTypeOK, KeysFromRealm, FromRealm, Restart, CacheAtStart
<1>3. UsersAreAdmitted'
  BY DEF GateInv, GateTypeOK, UsersAreAdmitted, Token, Restart
<1> QED
  BY <1>1, <1>2, <1>3 DEF GateInv

LEMMA GateNextKeepsInv == GateInv /\ [GateNext]_gateVars => GateInv'
<1> SUFFICES ASSUME GateInv, [GateNext]_gateVars PROVE GateInv'
  OBVIOUS
<1>1. CASE \E done, sent \in SUBSET Requests : \E asked \in [sent -> RequestType] :
             Exchange(done, asked)
  BY <1>1, ExchangeKeepsInv
<1>2. CASE \E r \in Requests : GateStep(r) \/ Serve(r)
  BY <1>2, GateStepKeepsInv
<1>3. CASE \E keys \in KeySets : Rotate(keys)
  BY <1>3, RotateKeepsInv
<1>4. CASE Restart
  BY <1>4, RestartKeepsInv
<1>5. CASE UNCHANGED gateVars
  BY <1>5 DEF gateVars, GateInv, GateTypeOK, KeysFromRealm, FromRealm, UsersAreAdmitted, Token, history
<1> QED
  BY <1>1, <1>2, <1>3, <1>4, <1>5 DEF GateNext

(* The gate alone keeps its types and its invariant.                       *)
THEOREM GateCorrect == GateSpec => []GateInv
<1>1. GateSpec => GateInit /\ [][GateNext]_gateVars
  BY DEF GateSpec
<1> QED
  BY <1>1, GateInitInv, GateNextKeepsInv, PTL

-----------------------------------------------------------------------------
(* What one step of the gate does to each request.                         *)

(* A request that is not served and was not has gone on without the        *)
(* service; no other request is touched.                                   *)
LEMMA StepOfOneRequest ==
  ASSUME GateInv, NEW r \in Requests, GateStep(r) \/ Serve(r)
  PROVE  /\ UNCHANGED <<settings, realm, request, history>>
         /\ phase[r] # "idle" /\ phase'[r] # "idle"
         /\ \A x \in Requests \ {r} :
              phase'[x] = phase[x] /\ user'[x] = user[x] /\ answer'[x] = answer[x]
<1> USE DEF GateInv, GateTypeOK, history, Admit, Reply, NotVerified
<1>1. CASE Pass(r) \/ RefuseAnonymous(r) \/ RefuseUnconfigured(r)
  BY <1>1 DEF Pass, RefuseAnonymous, RefuseUnconfigured
<1>2. CASE VerifyCached(r)
  BY <1>2 DEF VerifyCached, Verify
<1>3. CASE StartFetch(r) \/ FetchAnswers(r) \/ FetchFails(r)
  BY <1>3 DEF StartFetch, FetchAnswers, FetchFails
<1>4. CASE StoreAndVerify(r)
  BY <1>4 DEF StoreAndVerify, Verify
<1>5. CASE Forbid(r) \/ Serve(r)
  BY <1>5 DEF Forbid, Serve
<1> QED
  BY <1>1, <1>2, <1>3, <1>4, <1>5 DEF GateStep

(* Verified(token, keys) names a key of keys, and keys come from the realm. *)
LEMMA StepVerifies ==
  ASSUME GateInv, NEW r \in Requests, GateStep(r) \/ Serve(r), user'[r] = "verified"
  PROVE  Token(r).kid \in everPublished
<1> USE DEF GateInv, GateTypeOK, Admit, Reply, NotVerified
<1>1. CASE Pass(r) \/ RefuseAnonymous(r) \/ RefuseUnconfigured(r)
  BY <1>1 DEF Pass, RefuseAnonymous, RefuseUnconfigured
<1>2. CASE VerifyCached(r)
  BY <1>2 DEF VerifyCached, Verify, Verified, KeysFromRealm, FromRealm
<1>3. CASE StartFetch(r) \/ FetchAnswers(r)
  BY <1>3 DEF StartFetch, FetchAnswers, UsersAreAdmitted
<1>4. CASE FetchFails(r) \/ Forbid(r) \/ Serve(r)
  BY <1>4 DEF FetchFails, Forbid, Serve
<1>5. CASE StoreAndVerify(r)
  BY <1>5 DEF StoreAndVerify, Verify, Verified, KeysFromRealm, FromRealm
<1> QED
  BY <1>1, <1>2, <1>3, <1>4, <1>5 DEF GateStep

(* No other step has a request verified.                                   *)
LEMMA NextVerifies ==
  GateInv /\ [GateNext]_gateVars =>
    \A r \in Requests :
      user[r] # "verified" /\ user'[r] = "verified" => request[r].token.kid \in everPublished
<1> SUFFICES ASSUME GateInv, [GateNext]_gateVars, NEW r \in Requests,
                    user[r] # "verified", user'[r] = "verified"
             PROVE  Token(r).kid \in everPublished
  BY DEF Token
<1>1. CASE \E x \in Requests : GateStep(x) \/ Serve(x)
  BY <1>1, StepVerifies, StepOfOneRequest
<1>2. CASE ~\E x \in Requests : GateStep(x) \/ Serve(x)
  BY <1>2 DEF GateNext, gateVars, Exchange, Rotate, Restart
<1> QED
  BY <1>1, <1>2

(* What a request is refused for when it is called invalid.                *)
Cause(r) ==
  \/ request[r].token = None
  \/ ~request[r].token.good
  \/ request[r].token.kid \notin alwaysPublished

LEMMA StepRefuses ==
  ASSUME GateInv, NEW r \in Requests, GateStep(r) \/ Serve(r),
         phase[r] \in {"sent", "fetched"},
         answer'[r] = "401" \/ (user'[r] = "nobody" /\ settings.oidc)
  PROVE  Cause(r)
<1> USE DEF GateInv, GateTypeOK, Admit, Reply, NotVerified
<1>1. CASE Pass(r) \/ RefuseAnonymous(r) \/ RefuseUnconfigured(r) \/ StartFetch(r)
  BY <1>1 DEF Pass, RefuseAnonymous, RefuseUnconfigured, StartFetch, UsersAreAdmitted,
              Cause, Token
<1>2. CASE VerifyCached(r)
  BY <1>2 DEF VerifyCached, Verify, Verified, KeysFromRealm, FromRealm, Cause, Token,
              UsersAreAdmitted
<1>3. CASE FetchAnswers(r) \/ FetchFails(r) \/ Forbid(r) \/ Serve(r)
  BY <1>3 DEF FetchAnswers, FetchFails, Forbid, Serve
<1>4. CASE StoreAndVerify(r)
  BY <1>4 DEF StoreAndVerify, Verify, Verified, KeysFromRealm, FromRealm, Cause, Token,
              UsersAreAdmitted
<1> QED
  BY <1>1, <1>2, <1>3, <1>4 DEF GateStep

LEMMA NextRefuses ==
  GateInv /\ [GateNext]_gateVars =>
    \A r \in Requests :
      /\ phase[r] \in {"sent", "fetched"}
      /\ answer'[r] = "401" \/ (user'[r] = "nobody" /\ settings.oidc)
      => \/ request[r].token = None
         \/ ~request[r].token.good
         \/ request[r].token.kid \notin alwaysPublished
<1> SUFFICES ASSUME GateInv, [GateNext]_gateVars, NEW r \in Requests,
                    phase[r] \in {"sent", "fetched"},
                    answer'[r] = "401" \/ (user'[r] = "nobody" /\ settings.oidc)
             PROVE  Cause(r)
  BY DEF Cause
<1>1. answer[r] # "401" /\ user[r] # "nobody"
  BY DEF GateInv, UsersAreAdmitted
<1>2. CASE \E x \in Requests : GateStep(x) \/ Serve(x)
  BY <1>1, <1>2, StepRefuses, StepOfOneRequest
<1>3. CASE ~\E x \in Requests : GateStep(x) \/ Serve(x)
  BY <1>1, <1>3 DEF GateNext, gateVars, Exchange, Rotate, Restart
<1> QED
  BY <1>2, <1>3

(* Only an admitted request is served, and only after Authorised.          *)
LEMMA NextAuthorises ==
  GateInv /\ [GateNext]_gateVars =>
    \A r \in Requests :
      /\ phase[r] = "admitted" /\ answer'[r] = "served"
      /\ Op(r) \in Storing \ {"query_report"}
      => /\ user[r] = "verified"
         /\ Token(r).good
         /\ Token(r).roles \cap MayChange(Op(r)) # {}
<1> SUFFICES ASSUME GateInv, [GateNext]_gateVars, NEW r \in Requests,
                    phase[r] = "admitted", answer'[r] = "served",
                    Op(r) \in Storing \ {"query_report"}
             PROVE  /\ user[r] = "verified"
                    /\ Token(r).good
                    /\ Token(r).roles \cap MayChange(Op(r)) # {}
  OBVIOUS
<1>1. answer[r] # "served"
  BY DEF GateInv, UsersAreAdmitted
<1>2. Serve(r)
  <2>1. CASE \E x \in Requests : GateStep(x) \/ Serve(x)
    <3>1. GateStep(r) \/ Serve(r)
      BY <1>1, <2>1, StepOfOneRequest
    <3>2. ~GateStep(r)
      BY <1>1 DEF GateStep, Pass, RefuseAnonymous, RefuseUnconfigured, VerifyCached, StartFetch,
                  FetchAnswers, FetchFails, StoreAndVerify, Forbid, Reply, GateInv, GateTypeOK
    <3> QED
      BY <3>1, <3>2
  <2>2. CASE ~\E x \in Requests : GateStep(x) \/ Serve(x)
    BY <1>1, <2>2 DEF GateNext, gateVars, Exchange, Rotate, Restart
  <2> QED
    BY <2>1, <2>2
<1>3. HasRole(r)
  BY <1>2 DEF Serve, Authorised
<1> QED
  BY <1>3 DEF HasRole, RolesFor, MayChange, GateInv, UsersAreAdmitted

(* While no fetch is on its way, a cache that is not empty stops the only  *)
(* action that starts one.                                                 *)
LEMMA NextSettles ==
  GateInv /\ [GateNext]_gateVars =>
    (Settled => cache' = {} \/ (Settled' /\ cache' = cache))
<1> SUFFICES ASSUME GateInv, [GateNext]_gateVars, Settled, cache' # {}
             PROVE  cache' = cache /\ \A r \in Requests : phase'[r] \notin {"fetching", "fetched"}
  BY DEF Settled
<1> USE DEF GateInv, GateTypeOK, Settled
<1>1. CASE \E x \in Requests : GateStep(x) \/ Serve(x)
  <2>1. PICK x \in Requests : GateStep(x) \/ Serve(x)
    BY <1>1
  <2>2. cache' = cache /\ phase'[x] \notin {"fetching", "fetched"}
    BY <2>1 DEF GateStep, Pass, RefuseAnonymous, RefuseUnconfigured, VerifyCached, StartFetch,
                FetchAnswers, FetchFails, StoreAndVerify, Forbid, Serve, Cached, Verify,
                NotVerified, Admit, Reply
  <2> QED
    BY <2>1, <2>2, StepOfOneRequest
<1>2. CASE ~\E x \in Requests : GateStep(x) \/ Serve(x)
  BY <1>2 DEF GateNext, gateVars, Exchange, Rotate, Restart, CacheAtStart
<1> QED
  BY <1>1, <1>2

(* The four properties of the gate, for every one of its behaviours.       *)
LEMMA GateKeepsItsPromises ==
  GateSpec => VerifiedByPublishedKey /\ RefusedForCause /\ ChangesAreAuthorised /\ CacheSettles
<1>1. GateSpec => [][GateNext]_gateVars
  BY DEF GateSpec
<1>2. GateSpec => VerifiedByPublishedKey
  BY <1>1, GateCorrect, NextVerifies, PTL DEF VerifiedByPublishedKey
<1>3. GateSpec => RefusedForCause
  BY <1>1, GateCorrect, NextRefuses, PTL DEF RefusedForCause
<1>4. GateSpec => ChangesAreAuthorised
  BY <1>1, GateCorrect, NextAuthorises, PTL DEF ChangesAreAuthorised
<1>5. GateSpec => CacheSettles
  BY <1>1, GateCorrect, NextSettles, PTL DEF CacheSettles
<1> QED
  BY <1>2, <1>3, <1>4, <1>5

-----------------------------------------------------------------------------
(* The requests of the page, and what awaiting them does.                  *)

USE DEF Lists, Views, Posts

LEMMA SlotsAreRequests ==
  \A t \in Tasks, n \in {1, 2} : <<t, n>> \in Requests /\ <<t, n>> \in PageRequests
BY DashboardAssumption DEF PageRequests

LEMMA SlotOfEach ==
  \A t \in Tasks :
    /\ \A op \in Lists \cup {"get_scorecard"} : At(t, op) = <<t, 1>>
    /\ \A op \in Posts \cup {"get_report"} : At(t, op) = <<t, 2>>
BY DEF At

LEMMA AskingIsARequest == \A op \in Lists \cup Views \cup Posts :
  Asking(op) \in RequestType /\ Asking(op).op = op
<1>1. (CHOOSE x \in Targets : TRUE) \in Targets
  BY DashboardAssumption
<1> QED
  BY <1>1, DashboardAssumption DEF Asking, RequestType

(* A step of a task as a step of the gate.                                 *)
LEMMA AwaitIsExchange ==
  ASSUME NEW t \in Tasks, NEW taken \in SUBSET (Lists \cup Views \cup Posts),
         NEW ops \in SUBSET (Lists \cup Views \cup Posts), Await(t, taken, ops)
  PROVE  GateNext
<1> DEFINE done == {At(t, op) : op \in taken}
           sent == {At(t, op) : op \in ops}
           asked == [r \in sent |-> Asking(CHOOSE op \in ops : At(t, op) = r)]
<1>1. done \in SUBSET Requests /\ sent \in SUBSET Requests
  BY SlotOfEach, SlotsAreRequests
<1>2. ASSUME NEW r \in sent PROVE Asking(CHOOSE op \in ops : At(t, op) = r) \in RequestType
  <2>1. (CHOOSE op \in ops : At(t, op) = r) \in ops
    BY <1>2
  <2> QED
    BY <2>1, AskingIsARequest
<1>3. asked \in [sent -> RequestType]
  BY <1>2
<1>4. Exchange(done, asked)
  BY DEF Await
<1> HIDE DEF done, sent, asked
<1> QED
  BY <1>1, <1>3, <1>4 DEF GateNext

(* What the page and the gate see of it: the requests taken are idle, the  *)
(* new ones are sent, and no other request is touched.                     *)
LEMMA AwaitEffect ==
  ASSUME GateTypeOK, NEW t \in Tasks, NEW taken \in SUBSET (Lists \cup Views \cup Posts),
         NEW ops \in SUBSET (Lists \cup Views \cup Posts), Await(t, taken, ops),
         \A p, q \in ops : At(t, p) = At(t, q) => p = q
  PROVE  /\ \A op \in taken : phase[At(t, op)] = "answered"
         /\ \A op \in ops : phase'[At(t, op)] = "sent" /\ request'[At(t, op)].op = op
         /\ \A op \in taken : (\A p \in ops : At(t, p) # At(t, op)) => phase'[At(t, op)] = "idle"
         /\ \A r \in Requests :
              (\A p \in ops \cup taken : At(t, p) # r) =>
                /\ phase'[r] = phase[r] /\ request'[r] = request[r]
                /\ answer'[r] = answer[r] /\ content'[r] = content[r]
<1> DEFINE done == {At(t, op) : op \in taken}
           sent == {At(t, op) : op \in ops}
           asked == [r \in sent |-> Asking(CHOOSE op \in ops : At(t, op) = r)]
<1>1. done \in SUBSET Requests /\ sent \in SUBSET Requests
  BY SlotOfEach, SlotsAreRequests
<1>2. ASSUME NEW op \in ops PROVE asked[At(t, op)].op = op
  <2>1. (CHOOSE p \in ops : At(t, p) = At(t, op)) = op
    BY <1>2
  <2> QED
    BY <1>2, <2>1, AskingIsARequest
<1>3. DOMAIN asked = sent
  OBVIOUS
<1>4. Exchange(done, asked) /\ content' = [r \in Requests |-> IF r \in done THEN None ELSE content[r]]
  BY DEF Await
<1>5. /\ \A op \in taken : At(t, op) \in done
      /\ \A op \in ops : At(t, op) \in sent
  OBVIOUS
<1>6. \A op \in ops : phase'[At(t, op)] = "sent" /\ request'[At(t, op)].op = op
  <2> HIDE DEF asked
  <2> QED
    BY <1>1, <1>2, <1>3, <1>4, <1>5 DEF Exchange
<1> HIDE DEF done, sent, asked
<1>7. /\ \A op \in taken : phase[At(t, op)] = "answered"
      /\ \A op \in taken : At(t, op) \notin sent => phase'[At(t, op)] = "idle"
      /\ \A r \in Requests : r \notin sent \cup done =>
           /\ phase'[r] = phase[r] /\ request'[r] = request[r]
           /\ answer'[r] = answer[r] /\ content'[r] = content[r]
  BY <1>1, <1>3, <1>4, <1>5 DEF Exchange, GateTypeOK
<1> QED
  BY <1>6, <1>7 DEF sent, done

(* The three ways of it: a task makes one request, takes one answer, or    *)
(* takes one and makes the next.                                           *)
LEMMA SendOne ==
  ASSUME GateTypeOK, NEW t \in Tasks, NEW op \in Lists \cup Views \cup Posts,
         Await(t, {}, {op})
  PROVE  /\ phase'[At(t, op)] = "sent" /\ request'[At(t, op)].op = op
         /\ \A r \in Requests \ {At(t, op)} : phase'[r] = phase[r]
<1>1. {op} \in SUBSET (Lists \cup Views \cup Posts) /\ \A p, q \in {op} : p = q
  OBVIOUS
<1>2. {} \in SUBSET (Lists \cup Views \cup Posts)
  OBVIOUS
<1> QED
  BY <1>1, <1>2, AwaitEffect

LEMMA TakeOne ==
  ASSUME GateTypeOK, NEW t \in Tasks, NEW op \in Lists \cup Views \cup Posts,
         Await(t, {op}, {})
  PROVE  /\ phase'[At(t, op)] = "idle"
         /\ \A r \in Requests \ {At(t, op)} : phase'[r] = phase[r]
<1>1. {op} \in SUBSET (Lists \cup Views \cup Posts)
  OBVIOUS
<1>2. {} \in SUBSET (Lists \cup Views \cup Posts) /\ \A p, q \in {} : p = q
  OBVIOUS
<1> QED
  BY <1>1, <1>2, AwaitEffect

LEMMA TakeAndSend ==
  ASSUME GateTypeOK, NEW t \in Tasks, NEW op \in Lists \cup Views \cup Posts,
         NEW next \in Lists \cup Views \cup Posts, Await(t, {op}, {next})
  PROVE  /\ phase'[At(t, next)] = "sent" /\ request'[At(t, next)].op = next
         /\ At(t, next) # At(t, op) => phase'[At(t, op)] = "idle"
         /\ \A r \in Requests \ {At(t, op), At(t, next)} : phase'[r] = phase[r]
<1>1. {op} \in SUBSET (Lists \cup Views \cup Posts)
  OBVIOUS
<1>2. {next} \in SUBSET (Lists \cup Views \cup Posts) /\ \A p, q \in {next} : p = q
  OBVIOUS
<1> QED
  BY <1>1, <1>2, AwaitEffect

-----------------------------------------------------------------------------
(* The page on top of the gate: every step is a step of the gate, or       *)
(* leaves it alone.                                                        *)

ListsTyped == list \in [Tasks -> Lists]

LEMMA ListsStayTyped == ListsTyped /\ [Next]_vars => ListsTyped'
BY DEF ListsTyped, Next, OpenPage, Submit, Click, TaskStep, Posted, PostFails, TestsLoadedFirst,
       Loaded, LoadFails, Render, GateMoves, Handler, ServeList, ServeView, ServePost, ServeOther,
       AskOther, Change, RealmRotates, ServiceRestarts, Done, vars, page

LEMMA TaskStepIsGateStep ==
  ASSUME ListsTyped, NEW t \in Tasks, TaskStep(t) \/ Submit(t) \/ Click(t)
  PROVE  GateNext
<1>1. \A l \in Lists : PostOp(l) \in Posts
  BY DEF PostOp
<1>2. list[t] \in Lists
  BY DEF ListsTyped
<1>3. CASE Submit(t)
  BY <1>1, <1>3, AwaitIsExchange DEF Submit
<1>4. CASE Click(t)
  BY <1>4, AwaitIsExchange DEF Click
<1>5. CASE Posted(t) \/ PostFails(t)
  BY <1>1, <1>2, <1>5, AwaitIsExchange DEF Posted, PostFails, PostTaken
<1>6. CASE TestsLoadedFirst(t) \/ Loaded(t) \/ LoadFails(t)
  BY <1>2, <1>6, AwaitIsExchange DEF TestsLoadedFirst, Loaded, LoadFails
<1>7. CASE Render(t)
  BY <1>7, AwaitIsExchange DEF Render
<1> QED
  BY <1>3, <1>4, <1>5, <1>6, <1>7 DEF TaskStep

LEMMA AskOtherIsGateStep ==
  ASSUME NEW r \in Others, AskOther(r)
  PROVE  GateNext
<1>1. PICK a \in Asked : Exchange({}, [x \in {r} |-> a])
  BY DEF AskOther
<1>2. {r} \in SUBSET Requests /\ [x \in {r} |-> a] \in [{r} -> RequestType]
  BY <1>1, DashboardAssumption
<1> QED
  BY <1>1, <1>2 DEF GateNext

LEMMA ServiceStepIsGateStep == Handler => \E r \in Requests : Serve(r)
<1>1. \A l \in Lists : PostOp(l) \in Posts
  BY DEF PostOp
<1> QED
  BY <1>1, SlotOfEach, SlotsAreRequests, DashboardAssumption
     DEF Handler, ServeList, ServeView, ServePost, ServeOther, At

LEMMA NextIsGateStep ==
  ASSUME ListsTyped, [Next]_vars
  PROVE  [GateNext]_gateVars
<1>1. CASE OpenPage
  BY <1>1, AwaitIsExchange, DashboardAssumption DEF OpenPage
<1>2. CASE \E t \in Tasks : Submit(t) \/ Click(t) \/ TaskStep(t)
  BY <1>2, TaskStepIsGateStep
<1>3. CASE \E r \in Requests : GateMoves(r)
  BY <1>3 DEF GateMoves, GateNext
<1>4. CASE Handler
  BY <1>4, ServiceStepIsGateStep DEF GateNext
<1>5. CASE \E r \in Others : AskOther(r)
  BY <1>5, AskOtherIsGateStep
<1>6. CASE RealmRotates \/ ServiceRestarts
  BY <1>6 DEF RealmRotates, ServiceRestarts, GateNext
<1>7. CASE (\E run \in Items : Change(run)) \/ Done \/ UNCHANGED vars
  BY <1>7 DEF Change, Done, vars
<1> QED
  BY <1>1, <1>2, <1>3, <1>4, <1>5, <1>6, <1>7 DEF Next

(* The page with its gate is an implementation of the gate: it only        *)
(* restricts who asks what, and when.                                      *)
THEOREM PageUsesTheGate == Spec => GateSpec
<1>1. Init => GateInit /\ ListsTyped
  BY DEF Init, ListsTyped
<1>2. Spec => []ListsTyped
  BY <1>1, ListsStayTyped, PTL DEF Spec
<1>3. ListsTyped /\ [Next]_vars => [GateNext]_gateVars
  BY NextIsGateStep
<1> QED
  BY <1>1, <1>2, <1>3, PTL DEF Spec, GateSpec

(* So what the gate promises holds behind the page, beside its other       *)
(* clients.  Tokens are verified with keys the realm published (jwt.py,    *)
(* _fetch_jwks).                                                           *)
THEOREM KeysArePublished == Spec => VerifiedByPublishedKey
BY PageUsesTheGate, GateKeepsItsPromises

(* A good token of a key published all along is never called invalid       *)
(* (jwt.py, _fetch_jwks and _get_signing_key).                             *)
THEOREM RefusalsHaveCause == Spec => RefusedForCause
BY PageUsesTheGate, GateKeepsItsPromises

(* Every operation that changes what is stored is authorised, but for the  *)
(* GraphQL report query (graphql.py, _get_context, _require_role and       *)
(* Query.report; rest.py and mcp.py).                                      *)
THEOREM ChangesAllowed == Spec => ChangesAreAuthorised
BY PageUsesTheGate, GateKeepsItsPromises

(* The cache stays as it is once the first fetches are over (jwt.py,       *)
(* _fetch_jwks).                                                           *)
THEOREM KeysSettle == Spec => CacheSettles
BY PageUsesTheGate, GateKeepsItsPromises

-----------------------------------------------------------------------------
(* The inductive invariant of the page.  A task has requests exactly while *)
(* it awaits them, and they are the ones of its function; an answer agrees *)
(* with what the service had when it was given, and the service only       *)
(* grows; a panel is that of a click that has ended.                       *)

PageTyped ==
  /\ stored \in [Lists -> SUBSET Items]
  /\ progress \in [Items -> 0 .. MaxChanges]
  /\ step \in [Tasks -> {"unused", "post", "load", "details", "done", "failed"}]
  /\ list \in [Tasks -> Lists]
  /\ about \in [Tasks -> Items]
  /\ since \in [Tasks -> 0 .. MaxChanges]
  /\ shown \in [Lists -> SUBSET Items]
  /\ panels \in [Views -> [by : Tasks \cup {None}, run : Items,
                           progress : -1 .. MaxChanges]]
  /\ DOMAIN content = Requests

RequestsOf(t) ==
  /\ step[t] = "unused" => list[t] = "list_tests"
  /\ phase[<<t, 1>>] # "idle" <=> step[t] \in {"load", "details"}
  /\ phase[<<t, 2>>] # "idle" <=> step[t] \in {"post", "details"}
  /\ step[t] = "load" => Op(<<t, 1>>) = list[t]
  /\ step[t] = "post" => Op(<<t, 2>>) = PostOp(list[t])
  /\ step[t] = "details" => Op(<<t, 1>>) = "get_scorecard" /\ Op(<<t, 2>>) = "get_report"

AnswersTo(t) ==
  /\ step[t] = "load" /\ t # Main => t \in stored[list[t]]
  /\ step[t] = "load" /\ Ok(<<t, 1>>) =>
       /\ content[<<t, 1>>] \subseteq stored[list[t]]
       /\ t # Main => t \in content[<<t, 1>>]
  /\ step[t] = "post" /\ Ok(<<t, 2>>) => t \in stored[list[t]]
  /\ step[t] = "details" =>
       /\ since[t] <= progress[about[t]]
       /\ \A n \in {1, 2} :
            Ok(<<t, n>>) => content[<<t, n>>] \in since[t] .. progress[about[t]]

TaskInv(t) == RequestsOf(t) /\ AnswersTo(t)

PanelsInv ==
  /\ panels["get_scorecard"].by = panels["get_report"].by
  /\ \A v \in Views : panels[v].progress # -1 =>
       /\ panels[v].by \in Tasks
       /\ step[panels[v].by] = "done"
       /\ panels[v].run = about[panels[v].by]
       /\ since[panels[v].by] <= panels[v].progress
       /\ panels[v].progress <= progress[panels[v].run]

PageInv == PageTyped /\ PanelsInv /\ \A t \in Tasks : TaskInv(t)

LEMMA InitPageInv == Init => PageInv
<1> SUFFICES ASSUME Init PROVE PageInv
  OBVIOUS
<1>1. PageTyped
  BY DashboardAssumption DEF Init, PageTyped, Items, Nothing
<1>2. PanelsInv
  BY DEF Init, PanelsInv, Nothing
<1>3. ASSUME NEW t \in Tasks PROVE TaskInv(t)
  BY SlotsAreRequests DEF Init, GateInit, TaskInv, RequestsOf, AnswersTo
<1> QED
  BY <1>1, <1>2, <1>3 DEF PageInv

(* What a step leaves alone: the service only grows, and a task whose      *)
(* requests are neither made nor taken nor served keeps its invariant.     *)
ServiceGrows ==
  /\ \A l \in Lists : stored[l] \subseteq stored'[l]
  /\ \A run \in Items : progress[run] <= progress'[run]

LeftAlone(r) ==
  /\ phase'[r] = "idle" <=> phase[r] = "idle"
  /\ phase[r] # "idle" => request'[r] = request[r]
  /\ Ok(r)' => Ok(r)
  /\ content'[r] = content[r]

StateKept(t) ==
  /\ step'[t] = step[t] /\ list'[t] = list[t]
  /\ about'[t] = about[t] /\ since'[t] = since[t]

LEMMA TaskKept ==
  ASSUME PageTyped, PageTyped', NEW t \in Tasks, TaskInv(t), ServiceGrows,
         StateKept(t), LeftAlone(<<t, 1>>), LeftAlone(<<t, 2>>)
  PROVE  TaskInv(t)'
<1>1. RequestsOf(t)'
  BY DEF TaskInv, RequestsOf, StateKept, LeftAlone, Op
<1>2. list[t] \in Lists /\ about[t] \in Items
  BY DEF PageTyped
<1>3. stored[list[t]] \subseteq stored'[list[t]] /\ progress[about[t]] <= progress'[about[t]]
  BY <1>2 DEF ServiceGrows
<1>4. /\ progress[about[t]] \in Int /\ progress'[about[t]] \in Int
      /\ since[t] \in Int
  BY <1>2, DashboardAssumption DEF PageTyped
<1>5. \A n \in {1, 2} : Ok(<<t, n>>)' => Ok(<<t, n>>) /\ content'[<<t, n>>] = content[<<t, n>>]
  BY DEF LeftAlone
<1>6. AnswersTo(t)'
  BY <1>3, <1>4, <1>5 DEF TaskInv, AnswersTo, StateKept
<1> QED
  BY <1>1, <1>6 DEF TaskInv

LEMMA PanelsKept ==
  ASSUME PageTyped, PageTyped', PanelsInv, UNCHANGED panels, ServiceGrows,
         \A t \in Tasks : step[t] = "done" => StateKept(t)
  PROVE  PanelsInv'
<1>1. ASSUME NEW v \in Views, panels[v].progress # -1
      PROVE  /\ panels[v].by \in Tasks
             /\ step'[panels[v].by] = "done"
             /\ panels[v].run = about'[panels[v].by]
             /\ since'[panels[v].by] <= panels[v].progress
             /\ panels[v].progress <= progress'[panels[v].run]
  <2>1. /\ panels[v].by \in Tasks
        /\ step[panels[v].by] = "done"
        /\ panels[v].run = about[panels[v].by]
        /\ since[panels[v].by] <= panels[v].progress
        /\ panels[v].progress <= progress[panels[v].run]
    BY <1>1 DEF PanelsInv
  <2>2. panels[v].run \in Items /\ panels[v].progress \in Int
    BY DashboardAssumption DEF PageTyped
  <2>3. /\ progress[panels[v].run] <= progress'[panels[v].run]
        /\ progress[panels[v].run] \in Int /\ progress'[panels[v].run] \in Int
    BY <2>2, DashboardAssumption DEF ServiceGrows, PageTyped
  <2> QED
    BY <2>1, <2>2, <2>3 DEF StateKept
<1> QED
  BY <1>1 DEF PanelsInv

(* A step of the gate that serves nobody leaves every request alone.       *)
LEMMA GateStepLeavesAlone ==
  ASSUME GateInv, NEW r \in Requests, GateStep(r), UNCHANGED content, NEW x \in Requests
  PROVE  LeftAlone(x)
<1>1. CASE x # r
  BY <1>1, StepOfOneRequest DEF LeftAlone, Ok, Answered
<1>2. CASE x = r
  <2>1. ~(phase'[r] = "answered" /\ answer'[r] = "served")
    BY DEF GateStep, Pass, RefuseAnonymous, RefuseUnconfigured, VerifyCached, StartFetch,
           FetchAnswers, FetchFails, StoreAndVerify, Forbid, Verify, NotVerified, Admit, Reply,
           GateInv, GateTypeOK
  <2> QED
    BY <1>2, <2>1, StepOfOneRequest DEF LeftAlone, Ok, Answered
<1> QED
  BY <1>1, <1>2

-----------------------------------------------------------------------------
(* The steps that leave the page and the service alone.                    *)

LEMMA QuietStepKeepsPage ==
  ASSUME PageInv, UNCHANGED <<stored, progress, page>>,
         DOMAIN content' = Requests, \A r \in PageRequests : LeftAlone(r)
  PROVE  PageInv'
<1>1. PageTyped'
  BY DEF PageInv, PageTyped, page
<1>2. ServiceGrows
  BY DashboardAssumption DEF PageInv, PageTyped, ServiceGrows
<1>3. \A t \in Tasks : StateKept(t)
  BY DEF StateKept, page
<1>4. ASSUME NEW t \in Tasks PROVE TaskInv(t)'
  BY <1>1, <1>2, <1>3, SlotsAreRequests, TaskKept DEF PageInv
<1>5. PanelsInv'
  BY <1>1, <1>2, <1>3, PanelsKept DEF PageInv, page
<1> QED
  BY <1>1, <1>4, <1>5 DEF PageInv

LEMMA GateMovesKeepsPage ==
  ASSUME PageInv, GateInv, NEW r \in Requests, GateMoves(r)
  PROVE  PageInv'
<1>1. \A x \in PageRequests : LeftAlone(x)
  BY GateStepLeavesAlone, DashboardAssumption DEF GateMoves, service
<1> QED
  BY <1>1, QuietStepKeepsPage DEF PageInv, PageTyped, GateMoves, service

(* The request of another client is none of the page's.                    *)
LEMMA OtherKeepsPage ==
  ASSUME PageInv, GateInv, NEW r \in Others, AskOther(r) \/ ServeOther(r)
  PROVE  PageInv'
<1>1. r \in Requests /\ \A x \in PageRequests : x \in Requests /\ x # r
  BY DashboardAssumption
<1>2. ASSUME NEW x \in PageRequests PROVE LeftAlone(x)
  <2>1. CASE AskOther(r)
    BY <1>1, <2>1 DEF AskOther, Exchange, LeftAlone, Ok, Answered, GateInv, GateTypeOK, service
  <2>2. CASE ServeOther(r)
    BY <1>1, <2>2, StepOfOneRequest DEF ServeOther, LeftAlone, Ok, Answered, service
  <2> QED
    BY <2>1, <2>2
<1> QED
  BY <1>2, QuietStepKeepsPage DEF PageInv, PageTyped, AskOther, ServeOther, service

LEMMA RotateKeepsPage ==
  ASSUME PageInv, RealmRotates
  PROVE  PageInv'
<1>1. \A x \in PageRequests : LeftAlone(x)
  BY DEF RealmRotates, Rotate, LeftAlone, Ok, Answered, service
<1> QED
  BY <1>1, QuietStepKeepsPage DEF PageInv, PageTyped, RealmRotates, service

(* A restart answers what waits, with nothing.                             *)
LEMMA RestartKeepsPage ==
  ASSUME PageInv, GateInv, ServiceRestarts
  PROVE  PageInv'
<1>1. ASSUME NEW x \in PageRequests PROVE LeftAlone(x)
  <2>1. x \in Requests
    BY DashboardAssumption
  <2> QED
    BY <2>1 DEF ServiceRestarts, Restart, LeftAlone, Ok, Answered, GateInv, GateTypeOK, service
<1> QED
  BY <1>1, QuietStepKeepsPage DEF PageInv, PageTyped, ServiceRestarts, service

(* A run goes on: what was answered of it is still not too new.            *)
LEMMA ChangeKeepsPage ==
  ASSUME PageInv, NEW run \in Items, Change(run)
  PROVE  PageInv'
<1>1. PageTyped'
  BY DashboardAssumption DEF PageInv, PageTyped, page, Change
<1>2. ServiceGrows
  BY DashboardAssumption DEF PageInv, PageTyped, ServiceGrows, Change
<1>3. \A t \in Tasks : StateKept(t)
  BY DEF StateKept, page, Change
<1>4. ASSUME NEW t \in Tasks PROVE TaskInv(t)'
  <2>1. LeftAlone(<<t, 1>>) /\ LeftAlone(<<t, 2>>)
    BY DEF Change, gateVars, LeftAlone, Ok, Answered
  <2> QED
    BY <1>1, <1>2, <1>3, <2>1, TaskKept DEF PageInv
<1>5. PanelsInv'
  BY <1>1, <1>2, <1>3, PanelsKept DEF PageInv, page, Change
<1> QED
  BY <1>1, <1>4, <1>5 DEF PageInv

-----------------------------------------------------------------------------
(* The service answers one request of the page.                            *)

(* Only the task that made the request is to be looked at.                 *)
LEMMA ServedTaskKeepsPage ==
  ASSUME PageInv, GateInv, NEW t \in Tasks, NEW n \in {1, 2}, Serve(<<t, n>>),
         PageTyped', ServiceGrows, UNCHANGED page, TaskInv(t)',
         \A r \in Requests \ {<<t, n>>} : content'[r] = content[r]
  PROVE  PageInv'
<1>1. \A u \in Tasks : StateKept(u)
  BY DEF StateKept, page
<1>2. ASSUME NEW u \in Tasks \ {t} PROVE TaskInv(u)'
  <2>1. ASSUME NEW m \in {1, 2} PROVE LeftAlone(<<u, m>>)
    <3>1. <<u, m>> \in Requests /\ <<u, m>> # <<t, n>> /\ <<t, n>> \in Requests
      BY SlotsAreRequests
    <3> QED
      BY <3>1, StepOfOneRequest DEF LeftAlone, Ok, Answered
  <2> QED
    BY <1>1, <2>1, TaskKept DEF PageInv
<1>3. PanelsInv'
  BY <1>1, PanelsKept DEF PageInv, page
<1> QED
  BY <1>2, <1>3 DEF PageInv

LEMMA ServeListKeepsPage ==
  ASSUME PageInv, GateInv, NEW t \in Tasks, NEW l \in Lists, ServeList(t, l)
  PROVE  PageInv'
<1>1. At(t, l) = <<t, 1>> /\ <<t, 1>> \in Requests /\ <<t, 2>> \in Requests
  BY SlotOfEach, SlotsAreRequests
<1>2. PageTyped'
  BY DEF PageInv, PageTyped, page, ServeList
<1>3. ServiceGrows
  BY DashboardAssumption DEF PageInv, PageTyped, ServiceGrows, ServeList
<1>4. step[t] = "load" /\ l = list[t]
  BY <1>1 DEF ServeList, Serve, PageInv, TaskInv, RequestsOf
<1>5. /\ \A r \in Requests \ {<<t, 1>>} : content'[r] = content[r]
      /\ content'[<<t, 1>>] = stored[l]
  BY <1>1 DEF ServeList, PageInv, PageTyped
<1>6. TaskInv(t)'
  <2>1. /\ phase'[<<t, 1>>] # "idle" /\ phase'[<<t, 2>>] = phase[<<t, 2>>]
        /\ request' = request
    BY <1>1, StepOfOneRequest DEF ServeList
  <2>2. RequestsOf(t)'
    BY <1>4, <2>1 DEF PageInv, TaskInv, RequestsOf, Op, ServeList, page
  <2>3. AnswersTo(t)'
    BY <1>4, <1>5 DEF PageInv, TaskInv, AnswersTo, ServeList, page
  <2> QED
    BY <2>2, <2>3 DEF TaskInv
<1> QED
  BY <1>1, <1>2, <1>3, <1>5, <1>6, ServedTaskKeepsPage DEF ServeList

LEMMA ServeViewKeepsPage ==
  ASSUME PageInv, GateInv, NEW t \in Tasks, NEW v \in Views, ServeView(t, v)
  PROVE  PageInv'
<1>1. PICK n \in {1, 2} : At(t, v) = <<t, n>> /\ n = (IF v = "get_report" THEN 2 ELSE 1)
  BY SlotOfEach
<1>2. <<t, 1>> \in Requests /\ <<t, 2>> \in Requests
  BY SlotsAreRequests
<1>3. PageTyped'
  BY DEF PageInv, PageTyped, page, ServeView
<1>4. ServiceGrows
  BY DashboardAssumption DEF PageInv, PageTyped, ServiceGrows, ServeView
<1>5. step[t] = "details"
  BY <1>1, <1>2 DEF ServeView, Serve, PageInv, PageTyped, TaskInv, RequestsOf, PostOp
<1>6. /\ \A r \in Requests \ {<<t, n>>} : content'[r] = content[r]
      /\ content'[<<t, n>>] = progress[about[t]]
  BY <1>1, <1>2 DEF ServeView, PageInv, PageTyped
<1>7. TaskInv(t)'
  <2>1. /\ phase'[<<t, n>>] # "idle"
        /\ \A m \in {1, 2} \ {n} : phase'[<<t, m>>] = phase[<<t, m>>]
                                   /\ answer'[<<t, m>>] = answer[<<t, m>>]
        /\ request' = request
    BY <1>1, <1>2, StepOfOneRequest DEF ServeView
  <2>2. RequestsOf(t)'
    BY <1>5, <2>1 DEF PageInv, TaskInv, RequestsOf, Op, ServeView, page
  <2>3. progress[about[t]] \in Int /\ since[t] \in Int
    BY DashboardAssumption DEF PageInv, PageTyped
  <2>4. AnswersTo(t)'
    <3>1. since[t] <= progress[about[t]]
      BY <1>5 DEF PageInv, TaskInv, AnswersTo
    <3>2. ASSUME NEW m \in {1, 2}, Ok(<<t, m>>)'
          PROVE  content'[<<t, m>>] \in since[t] .. progress[about[t]]
      <4>1. CASE m = n
        BY <1>6, <2>3, <3>1, <4>1
      <4>2. CASE m # n
        BY <1>2, <1>5, <1>6, <2>1, <3>2, <4>2 DEF PageInv, TaskInv, AnswersTo, Ok, Answered
      <4> QED
        BY <4>1, <4>2
    <3> QED
      BY <1>5, <3>1, <3>2 DEF AnswersTo, ServeView, page
  <2> QED
    BY <2>2, <2>4 DEF TaskInv
<1> QED
  BY <1>1, <1>3, <1>4, <1>6, <1>7, ServedTaskKeepsPage DEF ServeView

LEMMA ServePostKeepsPage ==
  ASSUME PageInv, GateInv, NEW t \in Tasks, ServePost(t)
  PROVE  PageInv'
<1>1. /\ list[t] \in Lists /\ PostOp(list[t]) \in Posts
      /\ At(t, PostOp(list[t])) = <<t, 2>> /\ <<t, 1>> \in Requests /\ <<t, 2>> \in Requests
  BY SlotOfEach, SlotsAreRequests DEF PageInv, PageTyped, PostOp
<1>2. PageTyped'
  BY <1>1 DEF PageInv, PageTyped, page, ServePost, Items
<1>3. ServiceGrows
  BY <1>1, DashboardAssumption DEF PageInv, PageTyped, ServiceGrows, ServePost
<1>4. step[t] = "post"
  BY <1>1 DEF ServePost, Serve, PageInv, TaskInv, RequestsOf
<1>5. TaskInv(t)'
  <2>1. /\ phase'[<<t, 2>>] # "idle" /\ phase'[<<t, 1>>] = phase[<<t, 1>>]
        /\ request' = request
    BY <1>1, StepOfOneRequest DEF ServePost
  <2>2. RequestsOf(t)'
    BY <1>4, <2>1 DEF PageInv, TaskInv, RequestsOf, Op, ServePost, page
  <2>3. AnswersTo(t)'
    BY <1>1, <1>4 DEF PageInv, PageTyped, TaskInv, AnswersTo, ServePost, page
  <2> QED
    BY <2>2, <2>3 DEF TaskInv
<1> QED
  BY <1>1, <1>2, <1>3, <1>5, ServedTaskKeepsPage DEF ServePost

-----------------------------------------------------------------------------
(* A task goes on.                                                         *)

LEMMA OneTaskKeepsPage ==
  ASSUME PageInv, GateInv, NEW t \in Tasks,
         NEW taken \in SUBSET (Lists \cup Views \cup Posts),
         NEW ops \in SUBSET (Lists \cup Views \cup Posts), Await(t, taken, ops),
         \A p, q \in ops : At(t, p) = At(t, q) => p = q,
         PageTyped', PanelsInv', TaskInv(t)', \A u \in Tasks \ {t} : StateKept(u)
  PROVE  PageInv'
<1>1. ServiceGrows
  BY DashboardAssumption DEF PageInv, PageTyped, ServiceGrows, Await
<1>2. ASSUME NEW u \in Tasks \ {t} PROVE TaskInv(u)'
  <2>1. ASSUME NEW m \in {1, 2} PROVE LeftAlone(<<u, m>>)
    <3>1. <<u, m>> \in Requests /\ \A op \in Lists \cup Views \cup Posts : At(t, op) # <<u, m>>
      BY SlotsAreRequests DEF At
    <3>2. /\ phase'[<<u, m>>] = phase[<<u, m>>] /\ request'[<<u, m>>] = request[<<u, m>>]
          /\ answer'[<<u, m>>] = answer[<<u, m>>] /\ content'[<<u, m>>] = content[<<u, m>>]
      BY <3>1, AwaitEffect DEF GateInv
    <3> QED
      BY <3>2 DEF LeftAlone, Ok, Answered
  <2> QED
    BY <1>1, <2>1, TaskKept DEF PageInv
<1> QED
  BY <1>2 DEF PageInv

(* The panels stay unless Render fills them, for no task that has ended    *)
(* goes on.                                                                *)
LEMMA TaskKeepsPanels ==
  ASSUME PageInv, PageTyped', NEW t \in Tasks, step[t] # "done",
         \A u \in Tasks \ {t} : StateKept(u), UNCHANGED <<stored, progress, panels>>
  PROVE  PanelsInv'
<1>1. ServiceGrows
  BY DashboardAssumption DEF PageInv, PageTyped, ServiceGrows
<1> QED
  BY <1>1, PanelsKept DEF PageInv

LEMMA OpenKeepsPage ==
  ASSUME PageInv, GateInv, OpenPage
  PROVE  PageInv'
<1>1. Main \in Tasks /\ <<Main, 1>> \in Requests /\ <<Main, 2>> \in Requests
  BY SlotsAreRequests, DashboardAssumption
<1>2. /\ PageTyped' /\ \A u \in Tasks \ {Main} : StateKept(u)
      /\ UNCHANGED <<stored, progress, panels>>
  BY <1>1 DEF PageInv, PageTyped, OpenPage, Goto, Await, StateKept
<1>3. TaskInv(Main)'
  <2>1. /\ phase'[<<Main, 1>>] = "sent" /\ request'[<<Main, 1>>].op = "list_tests"
        /\ phase'[<<Main, 2>>] = phase[<<Main, 2>>]
    BY <1>1, SlotOfEach, SendOne DEF OpenPage, GateInv
  <2> QED
    BY <1>1, <2>1 DEF OpenPage, Goto, PageInv, PageTyped, TaskInv, RequestsOf, AnswersTo, Op, Ok, Answered
<1>4. PanelsInv'
  BY <1>1, <1>2, TaskKeepsPanels DEF OpenPage
<1> QED
  BY <1>1, <1>2, <1>3, <1>4, OneTaskKeepsPage DEF OpenPage

LEMMA SubmitKeepsPage ==
  ASSUME PageInv, GateInv, NEW t \in Tasks, Submit(t)
  PROVE  PageInv'
<1>1. <<t, 1>> \in Requests /\ <<t, 2>> \in Requests
  BY SlotsAreRequests
<1>2. PICK l \in Lists :
        /\ step[t] = "unused"
        /\ Await(t, {}, {PostOp(l)})
        /\ Goto(t, "post")
        /\ list' = [list EXCEPT ![t] = l]
        /\ UNCHANGED <<about, since, shown, panels>>
  BY DEF Submit
<1>3. PostOp(l) \in Posts /\ At(t, PostOp(l)) = <<t, 2>>
  BY SlotOfEach DEF PostOp
<1>4. /\ PageTyped' /\ \A u \in Tasks \ {t} : StateKept(u)
      /\ UNCHANGED <<stored, progress, panels>>
  BY <1>2 DEF PageInv, PageTyped, Goto, Await, StateKept
<1>5. TaskInv(t)'
  <2>1. /\ phase'[<<t, 2>>] = "sent" /\ request'[<<t, 2>>].op = PostOp(l)
        /\ phase'[<<t, 1>>] = phase[<<t, 1>>]
    <3>1. GateTypeOK /\ PostOp(l) \in Lists \cup Views \cup Posts
      BY <1>3 DEF GateInv
    <3>2. /\ phase'[At(t, PostOp(l))] = "sent" /\ request'[At(t, PostOp(l))].op = PostOp(l)
          /\ \A r \in Requests \ {At(t, PostOp(l))} : phase'[r] = phase[r]
      BY <1>2, <3>1, SendOne
    <3> QED
      BY <1>1, <1>3, <3>2
  <2> QED
    BY <1>1, <1>2, <2>1 DEF Goto, PageInv, PageTyped, TaskInv, RequestsOf, AnswersTo, Op, Ok, Answered
<1>6. PanelsInv'
  BY <1>2, <1>4, TaskKeepsPanels
<1> QED
  BY <1>2, <1>3, <1>4, <1>5, <1>6, OneTaskKeepsPage

(* A form that has posted its item finds it stored.                        *)
LEMMA PostedKeepsPage ==
  ASSUME PageInv, GateInv, NEW t \in Tasks, Posted(t) \/ PostFails(t)
  PROVE  PageInv'
<1>1. <<t, 1>> \in Requests /\ <<t, 2>> \in Requests /\ list[t] \in Lists
  BY SlotsAreRequests DEF PageInv, PageTyped
<1>2. /\ PostOp(list[t]) \in Posts
      /\ At(t, PostOp(list[t])) = <<t, 2>> /\ At(t, list[t]) = <<t, 1>>
  BY <1>1, SlotOfEach DEF PostOp
<1>3. /\ PageTyped' /\ \A u \in Tasks \ {t} : StateKept(u)
      /\ UNCHANGED <<stored, progress, panels>> /\ step[t] = "post"
  BY DEF PageInv, PageTyped, Posted, PostFails, Goto, Await, StateKept
<1>4. PanelsInv'
  BY <1>3, TaskKeepsPanels
<1>5. CASE Posted(t)
  <2>1. Ok(<<t, 2>>) /\ Await(t, {PostOp(list[t])}, {list[t]})
    BY <1>2, <1>5 DEF Posted, PostTaken
  <2>2. /\ phase'[<<t, 1>>] = "sent" /\ request'[<<t, 1>>].op = list[t]
        /\ phase'[<<t, 2>>] = "idle"
    <3>1. /\ GateTypeOK
          /\ PostOp(list[t]) \in Lists \cup Views \cup Posts
          /\ list[t] \in Lists \cup Views \cup Posts
      BY <1>1, <1>2 DEF GateInv
    <3>2. PICK p, q \in Lists \cup Views \cup Posts : p = PostOp(list[t]) /\ q = list[t]
      BY <3>1
    <3>3. GateTypeOK /\ Await(t, {p}, {q})
      BY <2>1, <3>1, <3>2
    <3>4. /\ phase'[At(t, q)] = "sent" /\ request'[At(t, q)].op = q
          /\ At(t, q) # At(t, p) => phase'[At(t, p)] = "idle"
      <4> HIDE DEF Lists, Views, Posts
      <4> QED
        BY <3>3, TakeAndSend
    <3> QED
      BY <1>2, <3>2, <3>4
  <2>3. TaskInv(t)'
    BY SMTT(30), <1>1, <1>3, <1>5, <2>1, <2>2
       DEF Posted, Goto, PageInv, PageTyped, TaskInv, RequestsOf, AnswersTo, Op, Ok, Answered
  <2> QED
    BY <1>1, <1>2, <1>3, <1>4, <2>1, <2>3, OneTaskKeepsPage
<1>6. CASE PostFails(t)
  <2>1. Await(t, {PostOp(list[t])}, {})
    BY <1>6 DEF PostFails
  <2>2. phase'[<<t, 1>>] = phase[<<t, 1>>] /\ phase'[<<t, 2>>] = "idle"
    <3>1. GateTypeOK /\ PostOp(list[t]) \in Lists \cup Views \cup Posts
      BY <1>2 DEF GateInv
    <3>2. /\ phase'[At(t, PostOp(list[t]))] = "idle"
          /\ \A r \in Requests \ {At(t, PostOp(list[t]))} : phase'[r] = phase[r]
      BY <2>1, <3>1, TakeOne
    <3> QED
      BY <1>1, <1>2, <3>2
  <2>3. TaskInv(t)'
    BY <1>1, <1>3, <1>6, <2>2
       DEF PostFails, Goto, PageInv, PageTyped, TaskInv, RequestsOf, AnswersTo
  <2> QED
    BY <1>2, <1>3, <1>4, <2>1, <2>3, OneTaskKeepsPage
<1> QED
  BY <1>5, <1>6

(* A list that was answered holds items, and replaces the one shown.       *)
LEMMA LoadKeepsPage ==
  ASSUME PageInv, GateInv, NEW t \in Tasks, TestsLoadedFirst(t) \/ Loaded(t) \/ LoadFails(t)
  PROVE  PageInv'
<1>1. /\ <<t, 1>> \in Requests /\ <<t, 2>> \in Requests /\ list[t] \in Lists
      /\ At(t, list[t]) = <<t, 1>>
  BY SlotsAreRequests, SlotOfEach DEF PageInv, PageTyped
<1>2. step[t] = "load" /\ UNCHANGED <<stored, progress, panels>>
  BY DEF TestsLoadedFirst, Loaded, LoadFails, Await
<1>3. \A u \in Tasks \ {t} : StateKept(u)
  BY DEF PageInv, PageTyped, TestsLoadedFirst, Loaded, LoadFails, Goto, StateKept
<1>4. Ok(<<t, 1>>) => content[<<t, 1>>] \in SUBSET Items
  BY <1>1, <1>2 DEF PageInv, PageTyped, TaskInv, AnswersTo
<1>5. PageTyped'
  BY <1>1, <1>4 DEF PageInv, PageTyped, TestsLoadedFirst, Loaded, LoadFails, Goto, ShowList, Await
<1>6. PanelsInv'
  BY <1>2, <1>3, <1>5, TaskKeepsPanels
<1>7. CASE TestsLoadedFirst(t)
  <2>1. Await(t, {"list_tests"}, {"list_runs"})
    BY <1>7 DEF TestsLoadedFirst
  <2>2. /\ phase'[<<t, 1>>] = "sent" /\ request'[<<t, 1>>].op = "list_runs"
        /\ phase'[<<t, 2>>] = phase[<<t, 2>>]
    BY <1>1, <2>1, SlotOfEach, TakeAndSend DEF GateInv
  <2>3. TaskInv(t)'
    BY <1>1, <1>7, <2>2
       DEF TestsLoadedFirst, PageInv, PageTyped, TaskInv, RequestsOf, AnswersTo, Op, Ok, Answered
  <2> QED
    BY <1>3, <1>5, <1>6, <2>1, <2>3, OneTaskKeepsPage
<1>8. CASE Loaded(t) \/ LoadFails(t)
  <2>1. Await(t, {list[t]}, {}) /\ (step' = [step EXCEPT ![t] = "done"]
                                    \/ step' = [step EXCEPT ![t] = "failed"])
    BY <1>8 DEF Loaded, LoadFails, Goto
  <2>2. phase'[<<t, 1>>] = "idle" /\ phase'[<<t, 2>>] = phase[<<t, 2>>]
    <3>1. GateTypeOK /\ list[t] \in Lists \cup Views \cup Posts
      BY <1>1 DEF GateInv
    <3>2. /\ phase'[At(t, list[t])] = "idle"
          /\ \A r \in Requests \ {At(t, list[t])} : phase'[r] = phase[r]
      BY <2>1, <3>1, TakeOne
    <3> QED
      BY <1>1, <3>2
  <2>3. TaskInv(t)'
    BY SMTT(30), <1>1, <1>2, <2>1, <2>2 DEF PageInv, PageTyped, TaskInv, RequestsOf, AnswersTo
  <2> QED
    BY <1>1, <1>3, <1>5, <1>6, <2>1, <2>3, OneTaskKeepsPage
<1> QED
  BY <1>7, <1>8

LEMMA ClickKeepsPage ==
  ASSUME PageInv, GateInv, NEW t \in Tasks, Click(t)
  PROVE  PageInv'
<1>1. <<t, 1>> \in Requests /\ <<t, 2>> \in Requests
  BY SlotsAreRequests
<1>2. PICK run \in Items :
        /\ step[t] = "unused"
        /\ Await(t, {}, Views)
        /\ Goto(t, "details")
        /\ about' = [about EXCEPT ![t] = run]
        /\ since' = [since EXCEPT ![t] = progress[run]]
        /\ UNCHANGED <<list, shown, panels>>
  BY DEF Click, PageInv, PageTyped
<1>3. /\ PageTyped' /\ \A u \in Tasks \ {t} : StateKept(u)
      /\ UNCHANGED <<stored, progress, panels>>
  BY <1>2 DEF PageInv, PageTyped, Goto, Await, StateKept
<1>4. \A p, q \in Views : At(t, p) = At(t, q) => p = q
  BY SlotOfEach
<1>5. TaskInv(t)'
  <2>1. /\ phase'[<<t, 1>>] = "sent" /\ request'[<<t, 1>>].op = "get_scorecard"
        /\ phase'[<<t, 2>>] = "sent" /\ request'[<<t, 2>>].op = "get_report"
    BY <1>1, <1>2, <1>4, SlotOfEach, AwaitEffect DEF GateInv
  <2>2. progress[run] \in Int
    BY DashboardAssumption DEF PageInv, PageTyped
  <2> QED
    BY <1>1, <1>2, <1>3, <2>1, <2>2
       DEF Goto, PageInv, PageTyped, TaskInv, RequestsOf, AnswersTo, Op, Ok, Answered
<1>6. PanelsInv'
  BY <1>2, <1>3, TaskKeepsPanels
<1> QED
  BY <1>2, <1>3, <1>4, <1>5, <1>6, OneTaskKeepsPage

(* Both panels become those of this click, which ends with it.             *)
LEMMA RenderKeepsPage ==
  ASSUME PageInv, GateInv, NEW t \in Tasks, Render(t)
  PROVE  PageInv'
<1>1. /\ <<t, 1>> \in Requests /\ <<t, 2>> \in Requests
      /\ At(t, "get_scorecard") = <<t, 1>> /\ At(t, "get_report") = <<t, 2>>
  BY SlotsAreRequests, SlotOfEach
<1>2. /\ step[t] = "details" /\ Await(t, Views, {})
      /\ step' = [step EXCEPT ![t] = "done"]
      /\ UNCHANGED <<stored, progress, list, about, since, shown>>
  BY DEF Render, Goto, Await
<1>3. /\ about[t] \in Items /\ since[t] \in 0 .. MaxChanges
      /\ progress[about[t]] \in 0 .. MaxChanges
  BY DEF PageInv, PageTyped
<1>4. ASSUME NEW v \in Views
      PROVE  /\ Panel(t, v).by = t /\ Panel(t, v).run = about[t]
             /\ Panel(t, v).progress # -1 => Panel(t, v).progress \in since[t] .. progress[about[t]]
             /\ Panel(t, v) \in [by : Tasks \cup {None}, run : Items, progress : -1 .. MaxChanges]
  <2>1. Ok(At(t, v)) => content[At(t, v)] \in since[t] .. progress[about[t]]
    BY <1>1, <1>2 DEF PageInv, TaskInv, AnswersTo
  <2> DEFINE p == IF Ok(At(t, v)) THEN content[At(t, v)] ELSE -1
  <2>2. p \in -1 .. MaxChanges /\ (p # -1 => p \in since[t] .. progress[about[t]])
    BY <1>3, <2>1, DashboardAssumption
  <2>3. Panel(t, v) = [by |-> t, run |-> about[t], progress |-> p]
    BY DEF Panel
  <2> HIDE DEF p
  <2> QED
    BY <1>3, <2>2, <2>3
<1>5. panels' = [v \in Views |-> Panel(t, v)]
  BY DEF Render
<1>6. PageTyped'
  BY <1>2, <1>4, <1>5 DEF PageInv, PageTyped, Await
<1>7. PanelsInv'
  <2>1. step'[t] = "done"
    BY <1>2 DEF PageInv, PageTyped
  <2> QED
    BY <1>2, <1>3, <1>4, <1>5, <2>1 DEF PanelsInv
<1>8. \A u \in Tasks \ {t} : StateKept(u)
  BY <1>2 DEF PageInv, PageTyped, StateKept
<1>9. TaskInv(t)'
  <2>1. phase'[<<t, 1>>] = "idle" /\ phase'[<<t, 2>>] = "idle"
    BY <1>1, <1>2, AwaitEffect DEF GateInv
  <2> QED
    BY <1>2, <2>1 DEF PageInv, PageTyped, TaskInv, RequestsOf, AnswersTo
<1> QED
  BY <1>2, <1>6, <1>7, <1>8, <1>9, OneTaskKeepsPage

-----------------------------------------------------------------------------
(* The theorems of the page.                                               *)

LEMMA NextKeepsPage == PageInv /\ GateInv /\ [Next]_vars => PageInv'
<1> SUFFICES ASSUME PageInv, GateInv, [Next]_vars PROVE PageInv'
  OBVIOUS
<1>1. CASE OpenPage
  BY <1>1, OpenKeepsPage
<1>2. CASE \E t \in Tasks : Submit(t) \/ Click(t) \/ TaskStep(t)
  BY <1>2, SubmitKeepsPage, ClickKeepsPage, PostedKeepsPage, LoadKeepsPage, RenderKeepsPage
     DEF TaskStep
<1>3. CASE \E r \in Requests : GateMoves(r)
  BY <1>3, GateMovesKeepsPage
<1>4. CASE Handler
  BY <1>4, ServeListKeepsPage, ServeViewKeepsPage, ServePostKeepsPage, OtherKeepsPage DEF Handler
<1>5. CASE \E r \in Others : AskOther(r)
  BY <1>5, OtherKeepsPage
<1>6. CASE \E run \in Items : Change(run)
  BY <1>6, ChangeKeepsPage
<1>7. CASE RealmRotates \/ ServiceRestarts
  BY <1>7, RotateKeepsPage, RestartKeepsPage
<1>8. CASE Done \/ UNCHANGED vars
  <2>1. UNCHANGED <<stored, progress, content, page>> /\ \A r \in PageRequests : LeftAlone(r)
    BY <1>8 DEF Done, vars, gateVars, service, page, LeftAlone, Ok, Answered
  <2> QED
    BY <2>1, QuietStepKeepsPage DEF PageInv, PageTyped
<1> QED
  BY <1>1, <1>2, <1>3, <1>4, <1>5, <1>6, <1>7, <1>8 DEF Next

(* Both inductive invariants, of the gate and of the page.                 *)
LEMMA PageCorrect == Spec => [](GateInv /\ PageInv)
<1>1. Spec => []GateInv
  BY PageUsesTheGate, GateCorrect
<1>2. Spec => Init /\ [][Next]_vars
  BY DEF Spec
<1> QED
  BY <1>1, <1>2, InitPageInv, NextKeepsPage, PTL

(* The types of the gate and of the page.                                  *)
THEOREM TypeCorrect == Spec => []TypeOK
<1>1. GateInv /\ PageInv => TypeOK
  BY DEF GateInv, PageInv, PageTyped, TypeOK
<1> QED
  BY <1>1, PageCorrect, PTL

(* DetailsOfOneClick: whichever of several clicks renders last, and        *)
(* whichever of its fetches failed.                                        *)
THEOREM PanelsCorrect == Spec => []DetailsOfOneClick
<1>1. PageInv => DetailsOfOneClick
  BY DEF PageInv, PanelsInv, DetailsOfOneClick
<1> QED
  BY <1>1, PageCorrect, PTL

(* FormShowsItsItem: the load of a form is answered after its post, and    *)
(* the service forgets no item.                                            *)
THEOREM FormsCorrect == Spec => FormShowsItsItem
<1>1. ASSUME GateInv, PageInv, [Next]_vars, NEW t \in Tasks \ {Main},
             step[t] = "load", step'[t] = "done"
      PROVE  t \in stored[list[t]] /\ t \in shown'[list[t]]
  <2>1. step'[t] # step[t]
    BY <1>1
  <2>2. Loaded(t)
    BY <1>1, <2>1 DEF Next, OpenPage, Submit, Click, TaskStep, Posted, PostFails, TestsLoadedFirst,
         Loaded, LoadFails, Render, GateMoves, Handler, ServeList, ServeView, ServePost, ServeOther,
         AskOther, Change, RealmRotates, ServiceRestarts, Done, vars, page, Goto, PageInv, PageTyped
  <2>3. list[t] \in Lists /\ At(t, list[t]) = <<t, 1>>
    BY SlotOfEach, <1>1 DEF PageInv, PageTyped
  <2>4. t \in stored[list[t]] /\ t \in content[<<t, 1>>]
    BY <1>1, <2>2, <2>3 DEF Loaded, PageInv, TaskInv, AnswersTo
  <2> QED
    BY <1>1, <2>2, <2>3, <2>4 DEF Loaded, ShowList, PageInv, PageTyped
<1>2. GateInv /\ PageInv /\ [Next]_vars =>
        \A t \in Tasks \ {Main} :
          step[t] = "load" /\ step'[t] = "done" =>
            /\ t \in stored[list[t]]
            /\ t \in shown'[list[t]]
  BY <1>1
<1>3. Spec => [][Next]_vars
  BY DEF Spec
<1> QED
  BY <1>2, <1>3, PageCorrect, PTL DEF FormShowsItsItem

-----------------------------------------------------------------------------
(* AnsweredTasksGoOn says ENABLED of the steps of a task.  Here are their  *)
(* guards in its place: a task takes answers that are there, and sends its *)
(* next requests where none of its own is under way.                       *)

CanAwait(t, taken, ops) ==
  /\ \A op \in taken : Answered(At(t, op))
  /\ \A op \in ops : \/ phase[At(t, op)] = "idle"
                     \/ \E other \in taken : At(t, other) = At(t, op)

AtPosted(t) ==
  /\ step[t] = "post"
  /\ \A op \in PostTaken(t) : Ok(At(t, op))
  /\ CanAwait(t, PostTaken(t), {list[t]})

AtPostFails(t) ==
  /\ step[t] = "post"
  /\ Rejected(At(t, PostOp(list[t])))
  /\ CanAwait(t, {PostOp(list[t])}, {})

AtTestsLoadedFirst(t) ==
  /\ step[t] = "load"
  /\ t = Main /\ list[t] = "list_tests"
  /\ Ok(At(t, list[t]))
  /\ CanAwait(t, {"list_tests"}, {"list_runs"})

AtLoaded(t) ==
  /\ step[t] = "load"
  /\ ~(t = Main /\ list[t] = "list_tests")
  /\ Ok(At(t, list[t]))
  /\ CanAwait(t, {list[t]}, {})

AtLoadFails(t) ==
  /\ step[t] = "load"
  /\ Rejected(At(t, list[t]))
  /\ CanAwait(t, {list[t]}, {})

AtRender(t) ==
  /\ step[t] = "details"
  /\ Fetched(t)
  /\ CanAwait(t, Views, {})

AtTaskStep(t) ==
  \/ AtPosted(t) \/ AtPostFails(t)
  \/ AtTestsLoadedFirst(t) \/ AtLoaded(t) \/ AtLoadFails(t)
  \/ AtRender(t)

(* They are guards of the steps: no step is taken without its own.         *)
LEMMA AwaitHasGuard ==
  ASSUME NEW t, NEW taken, NEW ops, Await(t, taken, ops)
  PROVE  CanAwait(t, taken, ops)
<1> DEFINE done == {At(t, op) : op \in taken}
           sent == {At(t, op) : op \in ops}
           asked == [r \in sent |-> Asking(CHOOSE op \in ops : At(t, op) = r)]
<1>1. Exchange(done, asked)
  BY DEF Await
<1>2. /\ \A op \in taken : At(t, op) \in done
      /\ \A op \in ops : At(t, op) \in DOMAIN asked
  OBVIOUS
<1>3. /\ \A r \in done : phase[r] = "answered"
      /\ \A r \in DOMAIN asked : phase[r] = "idle" \/ r \in done
  BY <1>1 DEF Exchange
<1> QED
  BY <1>2, <1>3 DEF CanAwait, Answered

LEMMA TaskStepHasGuard ==
  ASSUME NEW t, TaskStep(t)
  PROVE  AtTaskStep(t)
<1>1. CASE Posted(t)
  <2>1. CanAwait(t, PostTaken(t), {list[t]})
    BY <1>1, AwaitHasGuard DEF Posted
  <2> QED
    BY <1>1, <2>1 DEF Posted, AtTaskStep, AtPosted
<1>2. CASE PostFails(t)
  <2>1. CanAwait(t, {PostOp(list[t])}, {})
    BY <1>2, AwaitHasGuard DEF PostFails
  <2> QED
    BY <1>2, <2>1 DEF PostFails, AtTaskStep, AtPostFails
<1>3. CASE TestsLoadedFirst(t)
  <2>1. CanAwait(t, {"list_tests"}, {"list_runs"})
    BY <1>3, AwaitHasGuard DEF TestsLoadedFirst
  <2>2. /\ step[t] = "load" /\ t = Main /\ list[t] = "list_tests"
        /\ Ok(At(t, list[t]))
    BY <1>3 DEF TestsLoadedFirst
  <2>3. AtTestsLoadedFirst(t)
    BY <2>1, <2>2 DEF AtTestsLoadedFirst
  <2> QED
    BY <2>3 DEF AtTaskStep
<1>4. CASE Loaded(t)
  <2>1. CanAwait(t, {list[t]}, {})
    BY <1>4, AwaitHasGuard DEF Loaded
  <2> QED
    BY <1>4, <2>1 DEF Loaded, AtTaskStep, AtLoaded
<1>5. CASE LoadFails(t)
  <2>1. CanAwait(t, {list[t]}, {})
    BY <1>5, AwaitHasGuard DEF LoadFails
  <2> QED
    BY <1>5, <2>1 DEF LoadFails, AtTaskStep, AtLoadFails
<1>6. CASE Render(t)
  <2>1. CanAwait(t, Views, {})
    BY <1>6, AwaitHasGuard DEF Render
  <2> QED
    BY <1>6, <2>1 DEF Render, AtTaskStep, AtRender
<1> QED
  BY <1>1, <1>2, <1>3, <1>4, <1>5, <1>6 DEF TaskStep

(* A task whose requests have all been answered, with whatever answer, has *)
(* a step whose guard holds: nothing on the page waits for an answer that  *)
(* has come, and no task waits for another (bench.js, loadRunDetails,      *)
(* getJSON and postJSON).                                                  *)
THEOREM AnsweredTasksAreReady ==
  Spec => [](\A t \in Tasks :
               /\ step[t] \in {"post", "load", "details"}
               /\ \A n \in {1, 2} : phase[<<t, n>>] \in {"idle", "answered"}
               => AtTaskStep(t))
<1>1. ASSUME PageInv, NEW t \in Tasks, step[t] \in {"post", "load", "details"},
             \A n \in {1, 2} : phase[<<t, n>>] \in {"idle", "answered"}
      PROVE  AtTaskStep(t)
  <2>1. RequestsOf(t) /\ list[t] \in Lists
    BY <1>1 DEF PageInv, PageTyped, TaskInv
  <2>2. /\ At(t, list[t]) = <<t, 1>> /\ At(t, "get_scorecard") = <<t, 1>>
        /\ At(t, "list_tests") = <<t, 1>> /\ At(t, "list_runs") = <<t, 1>>
        /\ At(t, PostOp(list[t])) = <<t, 2>> /\ At(t, "get_report") = <<t, 2>>
    BY <2>1, SlotOfEach DEF PostOp
  <2>3. CASE step[t] = "post"
    <3>1. phase[<<t, 2>>] = "answered" /\ phase[<<t, 1>>] = "idle"
      BY <1>1, <2>1, <2>3 DEF RequestsOf
    <3>2. Ok(<<t, 2>>) \/ Rejected(<<t, 2>>)
      BY <3>1 DEF Rejected, Answered
    <3>3. Ok(<<t, 2>>) => AtPosted(t)
      BY <2>2, <2>3, <3>1 DEF AtPosted, CanAwait, PostTaken, Answered
    <3>4. Rejected(<<t, 2>>) => AtPostFails(t)
      BY <2>2, <2>3, <3>1 DEF AtPostFails, CanAwait, Answered
    <3> QED
      BY <3>2, <3>3, <3>4 DEF AtTaskStep
  <2>4. CASE step[t] = "load"
    <3>1. phase[<<t, 1>>] = "answered"
      BY <1>1, <2>1, <2>4 DEF RequestsOf
    <3>2. Ok(<<t, 1>>) \/ Rejected(<<t, 1>>)
      BY <3>1 DEF Rejected, Answered
    <3>3. Ok(<<t, 1>>) => AtTestsLoadedFirst(t) \/ AtLoaded(t)
      BY <2>2, <2>4, <3>1 DEF AtTestsLoadedFirst, AtLoaded, CanAwait, Answered
    <3>4. Rejected(<<t, 1>>) => AtLoadFails(t)
      BY <2>2, <2>4, <3>1 DEF AtLoadFails, CanAwait, Answered
    <3> QED
      BY <3>2, <3>3, <3>4 DEF AtTaskStep
  <2>5. CASE step[t] = "details"
    <3>1. phase[<<t, 1>>] = "answered" /\ phase[<<t, 2>>] = "answered"
      BY <1>1, <2>1, <2>5 DEF RequestsOf
    <3> QED
      BY <2>2, <2>5, <3>1 DEF AtTaskStep, AtRender, Fetched, CanAwait, Answered
  <2> QED
    BY <1>1, <2>3, <2>4, <2>5
<1>2. PageInv => \A t \in Tasks :
                   /\ step[t] \in {"post", "load", "details"}
                   /\ \A n \in {1, 2} : phase[<<t, n>>] \in {"idle", "answered"}
                   => AtTaskStep(t)
  BY <1>1
<1> QED
  BY <1>2, PageCorrect, PTL
=============================================================================
