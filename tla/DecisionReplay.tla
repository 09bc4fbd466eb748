--------------------------- MODULE DecisionReplay ---------------------------
(***************************************************************************)
(* The external decision replay (core/services/decision_replay.py and the  *)
(* two handlers of api/rest.py): rules are registered while the service    *)
(* starts, and a sealed package is evaluated by the registered rule and by *)
(* five checks of its approvals, read from the package alone.              *)
(*                                                                         *)
(* A rule is a function of the sealed inputs, or raises.  A timestamp is   *)
(* its instant and whether it carries a zone: Python compares two that     *)
(* agree on that and raises TypeError otherwise.  Voters who are not named *)
(* in the package are Nobody, the empty string of the code.                *)
(***************************************************************************)
EXTENDS Integers, Sequences, FiniteSets

CONSTANTS
  RuleIds,      \* the names a rule may have
  Inputs,       \* the sealed inputs
  Outcomes,     \* what a rule computes
  Raises,       \* no outcome: the rule raises on the inputs
  Voters, Roles,
  Nobody,       \* no voter: sealed_by is missing
  Unsealed,     \* no timestamp: sealed_at is missing
  Stamps,       \* the timestamps approvals and seals bear
  Quorums,      \* the quorums a package may ask for, zero among them
  MaxApprovals  \* bound: the approvals of a package

ASSUME ReplayAssumption ==
  /\ Raises \notin Outcomes
  /\ Stamps \subseteq [at : Int, zoned : BOOLEAN]
  /\ Unsealed \notin Stamps
  /\ Quorums \subseteq Int
  /\ MaxApprovals \in Nat

VARIABLES
  rules,        \* _rules
  package,      \* the package under evaluation
  answer        \* what evaluate gave

vars == <<rules, package, answer>>

Approval == [voter_id : Voters, role : Roles, approved_at : Stamps,
             approved : BOOLEAN]

Approvals == UNION {[1 .. n -> Approval] : n \in 0 .. MaxApprovals}

SealedDecisionPackage ==
  [rule_id : RuleIds, inputs : Inputs, sealed_outcome : Outcomes,
   approvals : Approvals, quorum_required : Quorums,
   required_roles : SUBSET Roles, sealed_by : Voters \cup {Nobody},
   sealed_at : Stamps \cup {Unsealed}]

NoPackage == [rule_id |-> "none"]

Rule == [Inputs -> Outcomes \cup {Raises}]

-----------------------------------------------------------------------------
(* verify_quorum                                                           *)

(* A seeded defect: rejections count as approvals.                         *)
PositiveOrNot(approvals) == DOMAIN approvals

Positive(approvals) == {i \in DOMAIN approvals : approvals[i].approved}

VotersOf(p) == {p.approvals[i].voter_id : i \in Positive(p.approvals)}
RolesOf(p) == {p.approvals[i].role : i \in Positive(p.approvals)}

(* A seeded defect: an approval at the sealing instant is in time.         *)
LateInclusive(a, sealed_at) == a.approved_at.at > sealed_at.at

Late(a, sealed_at) == a.approved_at.at >= sealed_at.at

(* The comparison of two timestamps of which one alone has a zone raises.  *)
Incomparable(p) ==
  /\ p.sealed_at # Unsealed
  /\ \E i \in Positive(p.approvals) :
       p.approvals[i].approved_at.zoned # p.sealed_at.zoned

(* A seeded defect: double votes are let pass when there are voters enough. *)
NoDuplicateVotersIfShort(p) ==
  \/ Cardinality(VotersOf(p)) >= p.quorum_required
  \/ Cardinality(VotersOf(p)) = Cardinality(Positive(p.approvals))

NoDuplicateVoters(p) ==
  Cardinality(VotersOf(p)) = Cardinality(Positive(p.approvals))

VerifyQuorum(p) ==
  [quorum_distinct_voters |-> Cardinality(VotersOf(p)) >= p.quorum_required,
   quorum_required_roles |-> p.required_roles \subseteq RolesOf(p),
   quorum_no_duplicate_voters |-> NoDuplicateVoters(p),
   quorum_sealer_not_approver |-> p.sealed_by \notin VotersOf(p),
   quorum_approvals_before_sealing |->
     /\ p.sealed_at # Unsealed
     /\ \A i \in Positive(p.approvals) : ~Late(p.approvals[i], p.sealed_at)]

QuorumOk(p) == \A check \in DOMAIN VerifyQuorum(p) : VerifyQuorum(p)[check]

-----------------------------------------------------------------------------
(* evaluate: the rule first, then the quorum, and the verdict of both.     *)

NoAnswer == [kind |-> "none", passed |-> FALSE, replay_match |-> FALSE,
             quorum_ok |-> FALSE]
Refused(kind) == [NoAnswer EXCEPT !.kind = kind]

Verdict(match, quorum) ==
  [kind |-> "verdict", passed |-> match /\ quorum, replay_match |-> match,
   quorum_ok |-> quorum]

(* A seeded defect: an unknown rule is answered like an unknown run.       *)
EvaluateNotFound(p) ==
  IF p.rule_id \notin DOMAIN rules THEN Refused("not_found")
  ELSE LET recomputed == rules[p.rule_id][p.inputs] IN
       IF recomputed = Raises \/ Incomparable(p) THEN Refused("error")
       ELSE Verdict(recomputed = p.sealed_outcome, QuorumOk(p))

(* RuleNotRegistered is answered 422; an exception of the rule, or of the  *)
(* comparison of timestamps, reaches nobody who catches it.                *)
Evaluate(p) ==
  IF p.rule_id \notin DOMAIN rules THEN Refused("unprocessable")
  ELSE LET recomputed == rules[p.rule_id][p.inputs] IN
       IF recomputed = Raises \/ Incomparable(p) THEN Refused("error")
       ELSE Verdict(recomputed = p.sealed_outcome, QuorumOk(p))

-----------------------------------------------------------------------------

Init ==
  /\ rules = << >>
  /\ package = NoPackage
  /\ answer = NoAnswer

(* register_rule overwrites; it is called before the service answers.      *)
RegisterRule(id, fn) ==
  /\ package = NoPackage
  /\ rules' = [i \in DOMAIN rules \cup {id} |->
                 IF i = id THEN fn ELSE rules[i]]
  /\ UNCHANGED <<package, answer>>

Submit ==
  /\ package = NoPackage
  /\ package' \in SealedDecisionPackage
  /\ UNCHANGED <<rules, answer>>

EvaluateDecision ==
  /\ package # NoPackage
  /\ answer = NoAnswer
  /\ answer' = Evaluate(package)
  /\ UNCHANGED <<rules, package>>

(* One package is enough: evaluate keeps nothing from one to the next.     *)
Answered == answer # NoAnswer /\ UNCHANGED vars

Next ==
  \/ \E id \in RuleIds, fn \in Rule : RegisterRule(id, fn)
  \/ Submit
  \/ EvaluateDecision
  \/ Answered

Spec == Init /\ [][Next]_vars

-----------------------------------------------------------------------------
(* Type invariant.                                                         *)

TypeOK ==
  /\ DOMAIN rules \subseteq RuleIds
  /\ \A id \in DOMAIN rules : rules[id] \in Rule
  /\ package \in SealedDecisionPackage \cup {NoPackage}
  /\ answer \in [kind : {"none", "unprocessable", "error", "verdict"},
                passed : BOOLEAN, replay_match : BOOLEAN, quorum_ok : BOOLEAN]

-----------------------------------------------------------------------------
(* Safety.                                                                 *)

(* A set of voters holds the quorum of p: as many as the quorum asks for   *)
(* and no fewer than there are required roles, the sealer not among them,  *)
(* each with one approval and that before the sealing, and every required  *)
(* role the role of one of these approvals.                                *)
HoldsQuorum(A, p) ==
  LET By(v) == {i \in DOMAIN p.approvals : /\ p.approvals[i].approved
                                           /\ p.approvals[i].voter_id = v}
  IN /\ Cardinality(A) >= p.quorum_required
     /\ Cardinality(A) >= Cardinality(p.required_roles)
     /\ p.sealed_by \notin A
     /\ \A v \in A : \E i \in By(v) :
          /\ By(v) = {i}
          /\ p.approvals[i].approved_at.at < p.sealed_at.at
     /\ \A role \in p.required_roles :
          \E v \in A : \E i \in By(v) : p.approvals[i].role = role

(* What a passed package promises (decision_replay.py, trust properties):  *)
(* the registered rule computes the sealed outcome, and there are voters   *)
(* who hold the quorum.                                                    *)
PassedHasQuorum ==
  answer.passed =>
    /\ package.rule_id \in DOMAIN rules
    /\ rules[package.rule_id][package.inputs] = package.sealed_outcome
    /\ \E A \in SUBSET Voters : HoldsQuorum(A, package)

With(p, a) == [p EXCEPT !.approvals = Append(@, a)]

(* A rejection never changes an answer, whoever casts it and whenever      *)
(* (decision_replay.py, verify_quorum: positive).                          *)
RejectionsNeverCount ==
  answer # NoAnswer =>
    \A a \in Approval : ~a.approved =>
      Evaluate(With(package, a)) = answer

(* One more approval repairs a package only if approvals were lacking: a   *)
(* voter counted twice, the sealer among the approvers and a late approval *)
(* stay what they are (decision_replay.py, verify_quorum).                 *)
ApprovalsNeverRepair ==
  answer # NoAnswer =>
    \A a \in Approval :
      Evaluate(With(package, a)).passed =>
        LET checks == VerifyQuorum(package) IN
        /\ checks.quorum_no_duplicate_voters
        /\ checks.quorum_sealer_not_approver
        /\ checks.quorum_approvals_before_sealing
=============================================================================
