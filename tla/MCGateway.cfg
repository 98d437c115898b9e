\* Two calls at once, of every kind; the gateway's cache holds two answers
\* and the proxy's one, so that both overflow; an answer lives for one tick.
SPECIFICATION Spec
CONSTANTS
  s1 = s1
  s2 = s2
  Slots = {s1, s2}
  Asks = {"flash", "pro", "bobs", "stream", "proxy"}
  Ask <- Calls
  Ttl = 1
  CacheMax <- Sizes
SYMMETRY Symmetric
INVARIANTS
  TypeOK
  RepeatIsOwn
  
