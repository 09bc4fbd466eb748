----------------------- MODULE DecisionReplayProofs -----------------------
(***************************************************************************)
(* What a verdict of the decision replay says of its package, for any      *)
(* rules, voters, roles and timestamps, and any number of approvals.       *)
(***************************************************************************)
EXTENDS DecisionReplay, FiniteSetTheorems, TLAPS

(* The approvals of a package are finitely many, and each has its fields.  *)
LEMMA ApprovalsType ==
  ASSUME NEW s \in Seq(Approval)
  PROVE  /\ IsFiniteSet(Positive(s))
         /\ \A i \in Positive(s) : s[i] \in Approval /\ i \in 1 .. Len(s)
<1>1. IsFiniteSet(1 .. Len(s))
  BY FS_Interval
<1>2. Positive(s) \subseteq 1 .. Len(s)
  BY DEF Positive
<1>3. IsFiniteSet(Positive(s))
  BY <1>1, <1>2, FS_Subset
<1> QED
  BY <1>2, <1>3

LEMMA PackageApprovals ==
  ASSUME NEW p \in SealedDecisionPackage
  PROVE  p.approvals \in Seq(Approval)
<1>1. PICK n \in 0 .. MaxApprovals : p.approvals \in [1 .. n -> Approval]
  BY DEF SealedDecisionPackage, Approvals
<1> QED
  BY <1>1, ReplayAssumption

(* The count that verify_quorum compares says that no voter voted twice.   *)
LEMMA DuplicatesCounted ==
  ASSUME NEW p, p.approvals \in Seq(Approval)
  PROVE  /\ IsFiniteSet(VotersOf(p))
         /\ NoDuplicateVoters(p) <=>
              \A i, j \in Positive(p.approvals) :
                p.approvals[i].voter_id = p.approvals[j].voter_id => i = j
<1> DEFINE P == Positive(p.approvals)
           f == [i \in P |-> p.approvals[i].voter_id]
<1>1. IsFiniteSet(P)
  BY ApprovalsType
<1>2. f \in Surjection(P, VotersOf(p))
  BY DEF Surjection, VotersOf
<1>3. /\ IsFiniteSet(VotersOf(p))
      /\ Cardinality(VotersOf(p)) = Cardinality(P)
           <=> f \in Injection(P, VotersOf(p))
  BY <1>1, <1>2, FS_Surjection
<1>4. f \in Injection(P, VotersOf(p)) <=>
        \A i, j \in P :
          p.approvals[i].voter_id = p.approvals[j].voter_id => i = j
  BY <1>2 DEF Injection, IsInjective, Surjection
<1> QED
  BY <1>3, <1>4 DEF NoDuplicateVoters

(* The required roles are no more than the approvals.                      *)
LEMMA RolesCounted ==
  ASSUME NEW p, p.approvals \in Seq(Approval),
         p.required_roles \subseteq RolesOf(p)
  PROVE  Cardinality(p.required_roles) <= Cardinality(Positive(p.approvals))
<1> DEFINE P == Positive(p.approvals)
           g == [i \in P |-> p.approvals[i].role]
<1>1. IsFiniteSet(P)
  BY ApprovalsType
<1>2. g \in Surjection(P, RolesOf(p))
  BY DEF Surjection, RolesOf
<1>3. /\ IsFiniteSet(RolesOf(p))
      /\ Cardinality(RolesOf(p)) <= Cardinality(P)
  BY <1>1, <1>2, FS_Surjection
<1>4. /\ IsFiniteSet(p.required_roles)
      /\ Cardinality(p.required_roles) <= Cardinality(RolesOf(p))
  BY <1>3, FS_Subset
<1>5. /\ Cardinality(P) \in Nat
      /\ Cardinality(RolesOf(p)) \in Nat
      /\ Cardinality(p.required_roles) \in Nat
  BY <1>1, <1>3, <1>4, FS_CardinalityType
<1> QED
  BY <1>3, <1>4, <1>5

(* The five checks of verify_quorum, read one by one.                      *)
LEMMA Checks ==
  ASSUME NEW p
  PROVE  QuorumOk(p) <=>
           /\ Cardinality(VotersOf(p)) >= p.quorum_required
           /\ p.required_roles \subseteq RolesOf(p)
           /\ NoDuplicateVoters(p)
           /\ p.sealed_by \notin VotersOf(p)
           /\ p.sealed_at # Unsealed
           /\ \A i \in Positive(p.approvals) : ~Late(p.approvals[i], p.sealed_at)
<1> DEFINE V == VerifyQuorum(p)
<1>1. DOMAIN V = {"quorum_distinct_voters", "quorum_required_roles",
                  "quorum_no_duplicate_voters", "quorum_sealer_not_approver",
                  "quorum_approvals_before_sealing"}
  BY DEF VerifyQuorum
<1>2. V.quorum_distinct_voters <=>
        Cardinality(VotersOf(p)) >= p.quorum_required
  BY DEF VerifyQuorum
<1>3. V.quorum_required_roles <=> p.required_roles \subseteq RolesOf(p)
  BY DEF VerifyQuorum
<1>4. V.quorum_no_duplicate_voters <=> NoDuplicateVoters(p)
  BY DEF VerifyQuorum
<1>5. V.quorum_sealer_not_approver <=> p.sealed_by \notin VotersOf(p)
  BY DEF VerifyQuorum
<1>6. V.quorum_approvals_before_sealing <=>
        /\ p.sealed_at # Unsealed
        /\ \A i \in Positive(p.approvals) : ~Late(p.approvals[i], p.sealed_at)
  BY DEF VerifyQuorum
<1>7. QuorumOk(p) <=> \A check \in DOMAIN V : V[check]
  BY DEF QuorumOk
<1> HIDE DEF V
<1> QED
  BY <1>1, <1>2, <1>3, <1>4, <1>5, <1>6, <1>7

(* Voters hold the quorum of every package that passes the five checks:    *)
(* all that approve it.                                                    *)
LEMMA QuorumIsHeld ==
  ASSUME NEW p \in SealedDecisionPackage, QuorumOk(p)
  PROVE  VotersOf(p) \in SUBSET Voters /\ HoldsQuorum(VotersOf(p), p)
<1> DEFINE s == p.approvals
           P == Positive(s)
           By(v) == {i \in DOMAIN s : s[i].approved /\ s[i].voter_id = v}
<1>1. /\ s \in Seq(Approval)
      /\ \A i \in P : s[i] \in Approval /\ i \in DOMAIN s
  BY PackageApprovals, ApprovalsType DEF Positive
<1>2. VotersOf(p) \in SUBSET Voters
  BY <1>1 DEF VotersOf, Approval
<1>3. \A i, j \in P : s[i].voter_id = s[j].voter_id => i = j
  BY <1>1, Checks, DuplicatesCounted
<1>4. Cardinality(VotersOf(p)) >= Cardinality(p.required_roles)
  <2>1. Cardinality(p.required_roles) <= Cardinality(P)
    BY <1>1, Checks, RolesCounted
  <2>2. Cardinality(VotersOf(p)) = Cardinality(P)
    BY Checks DEF NoDuplicateVoters
  <2> QED
    BY <2>1, <2>2
<1>5. \A v \in VotersOf(p) : \E i \in By(v) :
        /\ By(v) = {i}
        /\ s[i].approved_at.at < p.sealed_at.at
  <2>1. SUFFICES ASSUME NEW v \in VotersOf(p)
                 PROVE  \E i \in By(v) :
                          /\ By(v) = {i}
                          /\ s[i].approved_at.at < p.sealed_at.at
    OBVIOUS
  <2>2. PICK i \in P : s[i].voter_id = v
    BY DEF VotersOf
  <2>3. By(v) = {i}
    BY <1>1, <1>3, <2>2 DEF Positive
  <2>4. s[i].approved_at.at \in Int /\ p.sealed_at.at \in Int
    <3>1. s[i].approved_at \in Stamps /\ p.sealed_at \in Stamps
      BY <1>1, <2>2, Checks DEF Approval, SealedDecisionPackage
    <3> QED
      BY <3>1, ReplayAssumption
  <2>5. s[i].approved_at.at < p.sealed_at.at
    BY <2>2, <2>4, Checks DEF Late
  <2> QED
    BY <2>3, <2>5
<1>6. \A role \in p.required_roles :
        \E v \in VotersOf(p) : \E i \in By(v) : s[i].role = role
  <2>1. SUFFICES ASSUME NEW role \in p.required_roles
                 PROVE  \E v \in VotersOf(p) : \E i \in By(v) : s[i].role = role
    OBVIOUS
  <2>2. PICK i \in P : s[i].role = role
    BY Checks DEF RolesOf
  <2>3. s[i].voter_id \in VotersOf(p) /\ i \in By(s[i].voter_id)
    BY <2>2 DEF VotersOf, Positive
  <2> QED
    BY <2>2, <2>3
<1> QED
  BY <1>2, <1>4, <1>5, <1>6, Checks DEF HoldsQuorum

-----------------------------------------------------------------------------

(* What keeps an answer true of its package: no rule is registered and no  *)
(* package taken after it.                                                 *)
AnswerInv ==
  /\ package \in SealedDecisionPackage \cup {NoPackage}
  /\ answer # NoAnswer =>
       /\ package \in SealedDecisionPackage
       /\ package # NoPackage
       /\ answer = Evaluate(package)

(* The answer of every reachable state is the evaluation of its package by *)
(* the rules of that state (decision_replay.py, evaluate).                 *)
THEOREM AnswerInvariant == Spec => []AnswerInv
<1>1. Init => AnswerInv
  BY DEF Init, AnswerInv
<1>2. AnswerInv /\ [Next]_vars => AnswerInv'
  <2> SUFFICES ASSUME AnswerInv, [Next]_vars PROVE AnswerInv'
    OBVIOUS
  <2>1. ASSUME NEW id \in RuleIds, NEW fn \in Rule, RegisterRule(id, fn)
        PROVE  AnswerInv'
    BY <2>1 DEF AnswerInv, RegisterRule
  <2>2. CASE Submit
    BY <2>2 DEF AnswerInv, Submit
  <2>3. CASE EvaluateDecision
    BY <2>3 DEF AnswerInv, EvaluateDecision, Evaluate
  <2>4. CASE Answered \/ UNCHANGED vars
    BY <2>4 DEF AnswerInv, Answered, vars, Evaluate
  <2> QED
    BY <2>1, <2>2, <2>3, <2>4 DEF Next
<1> QED
  BY <1>1, <1>2, PTL DEF Spec

(* A passed package has its quorum, and its outcome is the rule's          *)
(* (decision_replay.py, trust properties), whatever the rules, the voters, *)
(* the roles, the timestamps and the number of approvals.                  *)
THEOREM PassedPackage == Spec => []PassedHasQuorum
<1>1. AnswerInv => PassedHasQuorum
  <2> SUFFICES ASSUME AnswerInv, answer.passed PROVE PassedHasQuorum!2
    BY DEF PassedHasQuorum
  <2>1. answer # NoAnswer
    BY DEF NoAnswer
  <2>2. package \in SealedDecisionPackage /\ answer = Evaluate(package)
    BY <2>1 DEF AnswerInv
  <2>3. /\ package.rule_id \in DOMAIN rules
        /\ rules[package.rule_id][package.inputs] = package.sealed_outcome
        /\ QuorumOk(package)
    BY <2>2 DEF Evaluate, Verdict, Refused, NoAnswer
  <2> QED
    BY <2>2, <2>3, QuorumIsHeld
<1> QED
  BY <1>1, AnswerInvariant, PTL

-----------------------------------------------------------------------------
(* One more approval.                                                      *)

(* The positive approvals are those there were, and the new one if it is   *)
(* positive; everything else of the package is as it was.                  *)
LEMMA Appended ==
  ASSUME NEW p \in SealedDecisionPackage, NEW a \in Approval
  PROVE  LET q == With(p, a)
             n == Len(p.approvals) + 1
         IN /\ q.approvals \in Seq(Approval)
            /\ q.approvals[n] = a
            /\ \A i \in Positive(p.approvals) : q.approvals[i] = p.approvals[i]
            /\ Positive(q.approvals) =
                 Positive(p.approvals) \cup {i \in {n} : a.approved}
            /\ q.rule_id = p.rule_id
            /\ q.inputs = p.inputs
            /\ q.sealed_outcome = p.sealed_outcome
            /\ q.quorum_required = p.quorum_required
            /\ q.required_roles = p.required_roles
            /\ q.sealed_by = p.sealed_by
            /\ q.sealed_at = p.sealed_at
<1> DEFINE s == p.approvals
           q == With(p, a)
           n == Len(s) + 1
<1>1. s \in Seq(Approval)
  BY PackageApprovals
<1>2. /\ q.approvals = Append(s, a)
      /\ q.rule_id = p.rule_id
      /\ q.inputs = p.inputs
      /\ q.sealed_outcome = p.sealed_outcome
      /\ q.quorum_required = p.quorum_required
      /\ q.required_roles = p.required_roles
      /\ q.sealed_by = p.sealed_by
      /\ q.sealed_at = p.sealed_at
  BY DEF With, SealedDecisionPackage
<1>3. /\ Append(s, a) \in Seq(Approval)
      /\ DOMAIN Append(s, a) = DOMAIN s \cup {n}
      /\ n \notin DOMAIN s
      /\ Append(s, a)[n] = a
      /\ \A i \in DOMAIN s : Append(s, a)[i] = s[i]
  BY <1>1
<1>4. Positive(Append(s, a)) = Positive(s) \cup {i \in {n} : a.approved}
  BY <1>3 DEF Positive
<1>5. Positive(s) \subseteq DOMAIN s
  BY DEF Positive
<1> QED
  BY <1>2, <1>3, <1>4, <1>5

(* A rejection appended to a package changes nothing evaluate looks at.    *)
LEMMA RejectionIgnored ==
  ASSUME NEW p \in SealedDecisionPackage, NEW a \in Approval, ~a.approved
  PROVE  Evaluate(With(p, a)) = Evaluate(p)
<1> DEFINE q == With(p, a)
<1>1. /\ Positive(q.approvals) = Positive(p.approvals)
      /\ \A i \in Positive(p.approvals) : q.approvals[i] = p.approvals[i]
      /\ q.rule_id = p.rule_id
      /\ q.inputs = p.inputs
      /\ q.sealed_outcome = p.sealed_outcome
      /\ q.quorum_required = p.quorum_required
      /\ q.required_roles = p.required_roles
      /\ q.sealed_by = p.sealed_by
      /\ q.sealed_at = p.sealed_at
  BY Appended
<1> HIDE DEF q
<1>2. VotersOf(q) = VotersOf(p) /\ RolesOf(q) = RolesOf(p)
  BY <1>1 DEF VotersOf, RolesOf
<1>3. NoDuplicateVoters(q) <=> NoDuplicateVoters(p)
  BY <1>1, <1>2 DEF NoDuplicateVoters
<1>4. Incomparable(q) <=> Incomparable(p)
  BY <1>1 DEF Incomparable
<1>5. (\A i \in Positive(q.approvals) : ~Late(q.approvals[i], q.sealed_at))
        <=> \A i \in Positive(p.approvals) : ~Late(p.approvals[i], p.sealed_at)
  BY <1>1 DEF Late
<1>6. QuorumOk(q) <=> QuorumOk(p)
  BY <1>1, <1>2, <1>3, <1>5, Checks
<1>7. QuorumOk(q) = QuorumOk(p)
  BY <1>6 DEF QuorumOk
<1>8. Evaluate(q) = Evaluate(p)
  BY <1>1, <1>4, <1>7 DEF Evaluate
<1> QED
  BY <1>8 DEF q

(* A rejection changes no answer (decision_replay.py, verify_quorum).      *)
THEOREM RejectionsIgnored == Spec => []RejectionsNeverCount
<1>1. AnswerInv => RejectionsNeverCount
  BY RejectionIgnored DEF AnswerInv, RejectionsNeverCount
<1> QED
  BY <1>1, AnswerInvariant, PTL

(* One more approval leaves a doubled voter doubled, the sealer among the  *)
(* approvers and a late approval late.                                     *)
LEMMA ApprovalRepairsNothing ==
  ASSUME NEW p \in SealedDecisionPackage, NEW a \in Approval,
         QuorumOk(With(p, a))
  PROVE  /\ NoDuplicateVoters(p)
         /\ p.sealed_by \notin VotersOf(p)
         /\ p.sealed_at # Unsealed
         /\ \A i \in Positive(p.approvals) : ~Late(p.approvals[i], p.sealed_at)
<1> DEFINE q == With(p, a)
<1>1. /\ p.approvals \in Seq(Approval)
      /\ q.approvals \in Seq(Approval)
      /\ Positive(p.approvals) \subseteq Positive(q.approvals)
      /\ \A i \in Positive(p.approvals) : q.approvals[i] = p.approvals[i]
      /\ q.sealed_by = p.sealed_by
      /\ q.sealed_at = p.sealed_at
  BY PackageApprovals, Appended
<1>2. /\ NoDuplicateVoters(q)
      /\ q.sealed_by \notin VotersOf(q)
      /\ q.sealed_at # Unsealed
      /\ \A i \in Positive(q.approvals) : ~Late(q.approvals[i], q.sealed_at)
  BY Checks
<1> HIDE DEF q
<1>3. \A i, j \in Positive(q.approvals) :
        q.approvals[i].voter_id = q.approvals[j].voter_id => i = j
  BY <1>1, <1>2, DuplicatesCounted
<1>4. NoDuplicateVoters(p)
  BY <1>1, <1>3, DuplicatesCounted
<1>5. VotersOf(p) \subseteq VotersOf(q)
  BY <1>1 DEF VotersOf
<1> QED
  BY <1>1, <1>2, <1>4, <1>5

(* An approval added to a package makes it pass only if approvals were     *)
(* lacking (decision_replay.py, verify_quorum).                            *)
THEOREM NothingRepaired == Spec => []ApprovalsNeverRepair
<1>1. AnswerInv => ApprovalsNeverRepair
  <2> SUFFICES ASSUME AnswerInv, answer # NoAnswer, NEW a \in Approval,
                      Evaluate(With(package, a)).passed
               PROVE  /\ NoDuplicateVoters(package)
                      /\ package.sealed_by \notin VotersOf(package)
                      /\ package.sealed_at # Unsealed
                      /\ \A i \in Positive(package.approvals) :
                           ~Late(package.approvals[i], package.sealed_at)
    BY DEF ApprovalsNeverRepair, VerifyQuorum
  <2>1. package \in SealedDecisionPackage
    BY DEF AnswerInv
  <2>2. QuorumOk(With(package, a))
    BY DEF Evaluate, Verdict, Refused, NoAnswer
  <2> QED
    BY <2>1, <2>2, ApprovalRepairsNothing
<1> QED
  BY <1>1, AnswerInvariant, PTL

-----------------------------------------------------------------------------

(* The rules, the package and the answer keep their types.                 *)
THEOREM TypeCorrect == Spec => []TypeOK
<1> USE DEF TypeOK
<1>1. Init => TypeOK
  BY DEF Init, NoAnswer
<1>2. TypeOK /\ [Next]_vars => TypeOK'
  <2> SUFFICES ASSUME TypeOK, [Next]_vars PROVE TypeOK'
    OBVIOUS
  <2>1. ASSUME NEW id \in RuleIds, NEW fn \in Rule, RegisterRule(id, fn)
        PROVE  TypeOK'
    BY <2>1 DEF RegisterRule
  <2>2. CASE Submit
    BY <2>2 DEF Submit
  <2>3. CASE EvaluateDecision
    <3>1. Evaluate(package) \in
            [kind : {"none", "unprocessable", "error", "verdict"},
             passed : BOOLEAN, replay_match : BOOLEAN, quorum_ok : BOOLEAN]
      <4>1. QuorumOk(package) \in BOOLEAN
        BY DEF QuorumOk
      <4> QED
        BY <4>1 DEF Evaluate, Verdict, Refused, NoAnswer
    <3> QED
      BY <2>3, <3>1 DEF EvaluateDecision
  <2>4. CASE Answered \/ UNCHANGED vars
    BY <2>4 DEF Answered, vars
  <2> QED
    BY <2>1, <2>2, <2>3, <2>4 DEF Next
<1> QED
  BY <1>1, <1>2, PTL DEF Spec
=============================================================================
