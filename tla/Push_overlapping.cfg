SPECIFICATION SpecFocus
SYMMETRY Alike
CONSTANTS
  c0 = c0
  c1 = c1
  c2 = c2
  npm = npm
  descriptor = descriptor
  core = core
  ui = ui
  lodash = lodash
  left = left
  h1 = h1
  h2 = h2
  here = here
  there = there
  Repository = {here, there}
  Here = here
  Commit = {c0, c1, c2}
  FirstCommit = c0
  Parent <- OneParent
  Content <- Files
  Path = {npm, descriptor}
  Descriptor = descriptor
  Name = {core, ui, lodash, left}
  Candidates = {core, ui}
  Manual = {core, lodash}
  Deletable = {ui}
  Handler = {h1, h2}
  Writer = {h1, h2}
  Scanner = {d1, d2}
  MaxBusy = 2
  Limit = 1
  MaxPushes = 4
  Events = {"rule", "expiry", "growth", "failure"}
INVARIANTS QuietScanRepairs StorageOvershoot
PROPERTIES ProtectedHistoryStays ManualRowsStay
CHECK_DEADLOCK FALSE
