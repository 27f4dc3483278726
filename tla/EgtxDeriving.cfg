SPECIFICATION BSpec
CONSTANTS
  Candidates <- MCCandidates
  Senders <- MCSenders
  Listings <- MCListings
  NoAddress = 99
  AddressBytes = 2
  TopicBytes = 3
  WeiPerSatoshi = 10
  WordBytes = 3
  HeadBytes = 2
  Uint96 = 1000
  AllOne = 255
INVARIANTS
  ConversionKeepsValue
  ElementsConserved
  PartiesConserved
  DataUnpacks
  TokensCanBeRead
  OnlyEgtxCanPanic
  BuiltIsDerived
  FeeIsPaid
  SendsOnce
CHECK_DEADLOCK FALSE
