SPECIFICATION FairSpec
CONSTANTS
  Channels = 2
  EVENT_QUEUE = 1
  INPUT_CAP = 1
  PASSPHRASE_TRIES = 2
  KeyFiles = 1
  Rounds = 1
  Offers <- MCOffers
  Traffic = 2
INVARIANTS
  QueuesHold
  EndsAreHonest
  QuestionsInPlace
PROPERTIES
  NothingWaitsForEver
