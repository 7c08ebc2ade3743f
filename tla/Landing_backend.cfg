SPECIFICATION SteadySpec
CONSTANTS
  c1 = c1
  c2 = c2
  c3 = c3
  s1 = s1
  s2 = s2
  b0 = b0
  o1 = o1
  o1b = o1b
  o2 = o2
  o3 = o3
  x1 = x1
  r1 = r1
  r2 = r2
  none = none
  main = main
  Caller = {p, q}
  Change <- OneStack
  Stack = {s1}
  StackOf <- OneStackOf
  ParentOf <- OneParentOf
  NoParent = none
  Late = {c2}
  Droppable = {c1}
  Commit <- AllCommits
  NoCommit = nocommit
  CommitsOf <- OneCommitsOf
  Reach <- AllReach
  Base = {b0}
  Push = {x1}
  CheckName = {unit}
  CheckFlow <- RerunFlow
  Reviewer = {r1, r2}
  Dismissals = TRUE
  Rules <- TwoApprovals
  BaseBranch = main
  AtomicLanding = TRUE
  Crashes = TRUE
INVARIANTS TypeOK LandedInOrder MergedIsOnBranch MergedPassedTheGates
SYMMETRY Callers
PROPERTIES ImplementsContract
