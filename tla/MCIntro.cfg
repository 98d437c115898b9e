\* Two topics between ann and bob, cid may only watch; a page holds every row
\* somebody can have; a thread at most two messages.
SPECIFICATION IntroSpec
CONSTANTS
  ann = ann
  bob = bob
  cid = cid
  People = {ann, bob, cid}
  Topics = {"checkout", "search"}
  Introducible <- AnnWithBob
  Limit = 2
  MaxMessages = 2
INVARIANTS
  ShownToBothWhoAsked
  ThreadsAmongMatched
  OneThreadPerPair
PROPERTIES
  ImplementsDoubleBlind
