SPECIFICATION FairSpec
CONSTANTS
  ann = ann
  sam = sam
  User = {ann, sam}
  Staff = {sam}
  Handler = {h1, h2}
  MaxDecisions = 2
  MaxFaults = 1
INVARIANTS AccessIsEarned EmailsFollowApprovals
PROPERTIES DecisionsAreAnswered
CHECK_DEADLOCK FALSE
