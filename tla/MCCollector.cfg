\* Three developers with principals; three arrivals of four batches, new or
\* redelivered; bob's tenant is registered and moved at any time; the broker
\* and team memory overflow.
SPECIFICATION Spec
CONSTANTS
  NoTagMV = NoTag
  NoMatchMV = NoMatch
  Embeddings <- Vectors
  Similarity <- Cosine
  Threshold = 40
  CrossThreshold = 55
  MaxSignals = 2
  NoTag = NoTag
  Items = {"a1", "b1", "b2", "b3", "c1", "n1", "x1", "bad"}
  Fact <- Facts
  Batches <- AllBatches
  MaxArrivals = 3
  Identities = {TRUE}
  Principal <- Developers
  Client <- Clients
  Provisioned <- AnnsTenant
  Registrations <- Upserts
  TeamMemoryOn = TRUE
  Serve = 95
  Warm = 80
  Cap = 2
  NoMatch = NoMatch
INVARIANTS
  TypeOK
  BoundTenant
  MatchHasWitness
  BookedAreMatched
  StampedByTeammate
PROPERTIES
  LedgerNeverDowngrades
