SPECIFICATION SpecFocus
CONSTANTS
  main = main
  dev = dev
  Caller = {p, q}
  Repo = {r1, r2, r3}
  Slug = {a, b, c}
  Branch = {main, dev}
  Pushed = {dev}
  ConfigHead = main
  Created <- PrivateInOrg
  Patched <- AnyInOrg
  Limit = 1
  Mirrored = FALSE
  Serial = TRUE
  FailAt = {"init", "initialize", "move", "sync"}
  LostAt = {"initialize", "sync"}
  CrashAt = {"init"}
  MaxCrashes = 1
INVARIANTS NoOrphans LimitOvershoot
PROPERTIES ImplementsContract BecomesCloneable
