SPECIFICATION FairSpec
CONSTANTS
  b0 = b0
  t1 = t1
  t2 = t2
  main = main
  topic = topic
  Caller = {p, q}
  Merger = {p}
  Request = {r1, r2}
  Branch = {main, topic}
  DefaultBranch = main
  Source = {topic}
  Target = {main}
  Commit <- AllCommits
  NoCommit = nocommit
  Reach <- AllReach
  StartTip <- Tips
  PushTo <- SourcePushes
  Attempts = 2
  RefKind = {"heads"}
  PatchesMerged = FALSE
  MaxNumber = 1
  MaxCrashes = 1
INVARIANTS MergedIsOnTarget GivesUpOnlyWhenCrowded
PROPERTIES ImplementsContract OpenRequestsLand
