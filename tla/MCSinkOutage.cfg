\* The collector is down, then up again; the token is right.  The spool holds
\* more records than the collector takes in one batch, as by default.
SPECIFICATION Spec
CONSTANTS
  c1 = c1
  c2 = c2
  hb = hb
  main = main
  Capturers = {c1}
  Heartbeat = hb
  Main = main
  AutoFlush = TRUE
  BatchSize = 1
  MaxSpool = 3
  MaxPost = 2
  MaxRecords = 3
  Collectors = {"up", "down"}
INVARIANTS
  RetainedUntilDelivered
