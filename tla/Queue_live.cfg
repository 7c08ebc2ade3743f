SPECIFICATION LiveSpec
CONSTANTS
  c1 = c1
  c2 = c2
  c3 = c3
  s1 = s1
  s2 = s2
  b0 = b0
  o1 = o1
  o1b = o1b
  o2 = o2
  o3 = o3
  x1 = x1
  r1 = r1
  r2 = r2
  none = none
  main = main
  Caller = {p, q}
  Change <- OneStack
  Stack = {s1}
  StackOf <- OneStackOf
  ParentOf <- OneParentOf
  NoParent = none
  Late = {}
  Droppable = {c2}
  Commit <- AllCommits
  NoCommit = nocommit
  CommitsOf <- FixedCommitsOf
  Reach <- AllReach
  Base = {b0}
  Push = {}
  CheckName = {unit}
  CheckFlow <- FinalFlow
  Reviewer = {}
  Dismissals = FALSE
  Rules = {}
  BaseBranch = main
  AtomicLanding = TRUE
  Crashes = FALSE
  Enqueuer = {p}
  Passer = {p}
  Lander = {q}
  Position <- AllPosition
  NoStack = nostack
  InitialQueue <- WithPullRequest
  MaxEntries = 3
INVARIANTS LandedStackIsClosed
PROPERTIES TerminalStatesAreFinal JobsEnd QueuedEntriesLeave
