\* Four scenes; every limit is one or two; a process may restart once.
SPECIFICATION Spec
CONSTANTS
  None = None
  w1 = w1
  w2 = w2
  ObjectiveOrder <- Goals
  ByPrefix <- Prefixes1
  ByRepo <- Repos
  Closeness <- Similarities
  Floor = 55
  Call <- Exchanges
  Size <- Characters1
  Similar <- Near
  MaxSessions = 1
  MaxMonitors = 1
  MaxHistory = 2
  CacheMin = 2
  MinCount = 2
  MaxTerms = 2
  SaveEvery = 2
  Replies <- Answers
  MaxLabels = 1
  Cooldown = 2
  Scenes <- AllScenes
SYMMETRY Symmetry
INVARIANTS
  NovelIsFresh
  LearnedWasTaught
  ToastsAreFew
CHECK_DEADLOCK FALSE
