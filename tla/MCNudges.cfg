\* Two captures at once, two matches, a feed that is trimmed at every append;
\* one restart.
SPECIFICATION FairSpec
CONSTANTS
  w1 = w1
  w2 = w2
  Workers = {w1, w2}
  Ids = {"m1", "m2"}
  Ttl <- Times
  SeenMax = 2
  MaxEntries = 1
  MaxRestarts = 1
INVARIANTS
  ShownOnce
PROPERTIES
  NoStampede
  
