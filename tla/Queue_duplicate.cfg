SPECIFICATION QueueSpec
CONSTANTS
  c1 = c1
  c2 = c2
  c3 = c3
  s1 = s1
  s2 = s2
  b0 = b0
  o1 = o1
  o1b = o1b
  o2 = o2
  o3 = o3
  x1 = x1
  r1 = r1
  r2 = r2
  none = none
  main = main
  Caller = {p, q}
  Change <- OneStack
  Stack = {s1}
  StackOf <- OneStackOf
  ParentOf <- OneParentOf
  NoParent = none
  Late = {}
  Droppable = {}
  Commit <- AllCommits
  NoCommit = nocommit
  CommitsOf <- FixedCommitsOf
  Reach <- AllReach
  Base = {b0}
  Push = {}
  CheckName = {unit}
  CheckFlow <- GreenFlow
  Reviewer = {}
  Dismissals = FALSE
  Rules = {}
  BaseBranch = main
  AtomicLanding = TRUE
  Crashes = FALSE
  Enqueuer = {p, q}
  Passer = {p}
  Lander = {}
  Position <- AllPosition
  NoStack = nostack
  InitialQueue <- EmptyQueue
  MaxEntries = 2
INVARIANTS AtMostOneActiveEntry
