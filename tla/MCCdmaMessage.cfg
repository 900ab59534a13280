SPECIFICATION FairSpec
CONSTANTS
  NoMessage = NoMessage
  Messages <- SentMessages
  Arriving <- Foreigners
INVARIANTS TypeOK ReceivedAsSent OthersArriveWhole
PROPERTIES ReadsTransport ReadsBearer ReadingEnds
