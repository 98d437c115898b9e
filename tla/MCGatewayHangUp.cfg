\* One call, repeated, through the gateway; tools hang up.
SPECIFICATION Spec
CONSTANTS
  s1 = s1
  s2 = s2
  Slots = {s1, s2}
  Asks = {"flash"}
  Ask <- Calls
  Ttl = 1
  CacheMax <- Sizes
SYMMETRY Symmetric
INVARIANTS
  RepeatIsWhole
