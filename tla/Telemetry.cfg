SPECIFICATION FairSpec
CONSTANTS
  kQueueCapacity = 2
  IndexMod = 4
  FlushSamples = 2
  MaxSequence = 6
  Link = "ble"
  Topics <- MCTopics
INVARIANTS TypeOK RingIsAQueue StageHasOneOwner
PROPERTY SamplesAreTaken
