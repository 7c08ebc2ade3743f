SPECIFICATION SpecFocus
CONSTANTS
  c0 = c0
  c1 = c1
  c2 = c2
  npm = npm
  descriptor = descriptor
  core = core
  ui = ui
  lodash = lodash
  left = left
  h1 = h1
  h2 = h2
  here = here
  there = there
  Repository = {here}
  Here = here
  Commit = {c0, c1, c2}
  FirstCommit = c0
  Parent <- OneParent
  Content <- Files
  Path = {npm, descriptor}
  Descriptor = descriptor
  Name = {core, ui, lodash, left}
  Candidates = {core, ui}
  Manual = {core, lodash}
  Deletable = {ui}
  Handler = {h1}
  Writer = {h1}
  Scanner = {d1}
  MaxBusy = 2
  Limit = 4
  MaxPushes = 4
  Events = {}
INVARIANTS ManualEdgeWins
CHECK_DEADLOCK FALSE
