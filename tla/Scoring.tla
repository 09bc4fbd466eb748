------------------------------ MODULE Scoring ------------------------------
(***************************************************************************)
(* The scoring engine of the bench (core/services/scoring.py) and the      *)
(* remediation list of its reports, as operators on sets of result rows.   *)
(* A row is a record with at least the fields by (the call that stored it, *)
(* which stands for its uuid), test and passed.  The catalog maps every    *)
(* test id the service may ever issue to its category, or to Absent when   *)
(* the test is not registered.  A score is kept as the pair of counts the  *)
(* code divides, so nothing is lost to rounding.                           *)
(***************************************************************************)
EXTENDS Integers, FiniteSets, FiniteSetsExt

Absent == "absent"              \* no test case under this id
UnknownCategory == "unknown"    \* the dimension of results of such a test

(* test.category if the registry knows the test, else "unknown".           *)
CategoryOf(catalog, t) ==
  IF t \in DOMAIN catalog /\ catalog[t] # Absent
  THEN catalog[t]
  ELSE UnknownCategory

PassedIn(rows) == {r \in rows : r.passed}
FailedIn(rows) == {r \in rows : ~r.passed}

(* sum(outcomes) / len(outcomes), numerator and denominator.               *)
ValueOf(rows) ==
  [passed |-> Cardinality(PassedIn(rows)), total |-> Cardinality(rows)]

(* The keys of by_category and the outcomes grouped under one of them.     *)
Dimensions(catalog, rows) == {CategoryOf(catalog, r.test) : r \in rows}
Under(catalog, rows, d) == {r \in rows : CategoryOf(catalog, r.test) = d}

(* What compute_scores returns: one value for each dimension.              *)
ScoresOf(catalog, rows) ==
  [d \in Dimensions(catalog, rows) |-> ValueOf(Under(catalog, rows, d))]

(* build_scorecard keeps one value for each dimension of the score rows    *)
(* it is given, the last one read: the store promises no order, so any of  *)
(* the rows of a dimension may win.                                        *)
Scorecards(scoreRows) ==
  LET dims == {s.dim : s \in scoreRows} IN
  {card \in [dims -> {s.value : s \in scoreRows}] :
     \A d \in dims : \E s \in scoreRows : s.dim = d /\ s.value = card[d]}

(* The common denominator of the values of some dimensions.                *)
Denominator(card, dims) ==
  FoldSet(LAMBDA d, product : card[d].total * product, 1, dims)

(* The mean over the dimensions of a scorecard, 0.0 when it has none, as a *)
(* fraction num / den.                                                     *)
Overall(card) ==
  LET dims == DOMAIN card IN
  IF dims = {}
  THEN [num |-> 0, den |-> 1]
  ELSE [num |-> MapThenSumSet(
                  LAMBDA d : card[d].passed * Denominator(card, dims \ {d}), dims),
        den |-> Cardinality(dims) * Denominator(card, dims)]

(* One remediation item for each failed result; a failed security test is  *)
(* the only one of high severity.                                          *)
Remediations(catalog, rows) ==
  {[result |-> r.by, test |-> r.test,
    severity |-> IF r.test \in DOMAIN catalog /\ catalog[r.test] = "security"
                 THEN "high" ELSE "medium"] : r \in FailedIn(rows)}
=============================================================================
