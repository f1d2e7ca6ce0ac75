SPECIFICATION Spec
CONSTANTS
  Pids = {1, 2}
  x1 = x1
  x2 = x2
  Mids = {x1, x2}
  a1 = a1
  a2 = a2
  Admins = {a1, a2}
  Scans = {c1}
  Users = {u1}
  c1 = c1
  u1 = u1
  Names = {"OpenAI", "openai", ""}
  Blank = ""
  Folded = {"openai", ""}
  Fold <- MCFold
  ModelNames = {"m"}
  Confs = {"c1"}
  Keys = {"k1", "k2"}
  NoKey = NoKey
  Keep = Keep
  None = None
  Prices = {"p"}
  Unpriced = Unpriced
  Patches <- MCPatches
  ModelPatches <- MCModelPatches
  MaxClock = 3
  Creations <- MCCreations
  SeedName = "OpenAI"
  SeedConf = "c1"
  SeedKey = "k1"
  SeedModel = "m"
CONSTRAINT ReadersApart
SYMMETRY CatalogSymmetry
INVARIANTS
  ResolveInv
  KeysSurviveOtherEdits
  SelectionRuns
CHECK_DEADLOCK FALSE
