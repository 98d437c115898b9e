\* Two capture threads, the heartbeat and the main thread; every condition of
\* the collector; a spool of two records and a collector limit of one, so that
\* overflow, a refused batch and a partly full batch all happen.
SPECIFICATION FairSpec
CONSTANTS
  c1 = c1
  c2 = c2
  hb = hb
  main = main
  Capturers <- TwoCapturers
  Heartbeat = hb
  Main = main
  AutoFlush = TRUE
  BatchSize = 2
  MaxSpool = 2
  MaxPost = 1
  MaxRecords = 3
  Collectors = {"up", "slow", "down", "badtoken"}
INVARIANTS
  TypeOK
  HeldExactlyOnce
  DropsAreCounted
  
PROPERTIES
  
  SpoolDrains
