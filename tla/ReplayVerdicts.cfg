SPECIFICATION Spec
CONSTANTS
  RuleIds = {"threshold"}
  Inputs = {"in"}
  Outcomes = {TRUE, FALSE}
  Raises = Raises
  Voters = {v1, v2}
  Roles = {chair, member}
  Nobody = Nobody
  Unsealed = Unsealed
  Stamps <- MCStamps
  MaxApprovals = 2
  Quorums = {0, 1, 2}
SYMMETRY Symmetry
INVARIANTS TypeOK PassedHasQuorum RejectionsNeverCount ApprovalsNeverRepair
