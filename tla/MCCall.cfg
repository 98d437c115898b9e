SPECIFICATION Spec
CONSTANTS
  None = None
  agent = agent
  easy = easy
  whole = whole
  silent = silent
  codex = codex
  gemini = gemini
  cached = cached
  oauth = oauth
  other = other
  reports = reports
  spans = spans
  Asks <- MCAsks
  Ask <- MCAsk
  Specs <- MCSpecs
  Modes <- MCModes
  AiHosts <- MCAiHosts
  Codings = {"identity", "gzip", "br"}
  Codecs = {"gzip"}
  MaxCaptured = 4
  Width <- MCWidth
  MostLines = 5
  HeadLines = 2
  TailLines = 2
  MaxRegexInput = 300
  MinMarked = 20
  MaxCacheBreakpoints = 4
  Prices <- MCPrices
  KeysOf <- MCKeysOf
  KeyLength <- MCKeyLength
  CheapModel <- MCCheapModel
  Strong <- MCStrong
  LargeBody = 800
  ShortText = 30
INVARIANTS
  
  
  SameBill
  BooksAgree
CHECK_DEADLOCK FALSE
