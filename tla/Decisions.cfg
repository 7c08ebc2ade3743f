SPECIFICATION DecisionsSpec
CONSTANTS
  CheckName = {unit, lint}
  Branch = {main, release}
  Target = main
  MaxApprovals = 2
  NULL = NULL
  c1 = c1
  c2 = c2
  c3 = c3
  c4 = c4
INVARIANTS GatesAgree StrictestRuleApplies PushStaysInScope
INVARIANTS ReadersSeeAlike ToolsKeepTheirScope AuthorityHoldsTogether
INVARIANTS GraphViewsHold HistoryViewsHold DifferencesHold
