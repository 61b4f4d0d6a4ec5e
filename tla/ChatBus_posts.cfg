SPECIFICATION FairSpec
CONSTANTS
  p1 = p1
  p2 = p2
  x1 = x1
  k1 = k1
  k2 = k2
  k3 = k3
  NoProducer = NoProducer
  Callers <- TwoPosts
  Posts <- TwoPosts
  Producers <- ThreeProducers
  Clients <- OneClient
  Cap = 1
  MaxErrors = 2
INVARIANTS
  TypeOK
  NothingMissed
PROPERTIES
  LeftOpenOnlyByLateStop
  PostsAreAnswered
