SPECIFICATION Spec
CONSTANTS
  c1 = c1
  c2 = c2
  c3 = c3
  s1 = s1
  s2 = s2
  b0 = b0
  o1 = o1
  o1b = o1b
  o2 = o2
  o3 = o3
  x1 = x1
  r1 = r1
  r2 = r2
  none = none
  main = main
  Caller = {p, q}
  Change <- TwoStacks
  Stack <- AllStacks
  StackOf <- TwoStackOf
  ParentOf <- TwoParentOf
  NoParent = none
  Late = {}
  Droppable = {c1}
  Commit <- AllCommits
  NoCommit = nocommit
  CommitsOf <- TwoCommitsOf
  Reach <- AllReach
  Base = {b0}
  Push = {}
  CheckName = {unit}
  CheckFlow <- GreenFlow
  Reviewer = {}
  Dismissals = FALSE
  Rules = {}
  BaseBranch = main
  AtomicLanding = FALSE
  Crashes = FALSE
PROPERTIES BranchOnlyGrows
